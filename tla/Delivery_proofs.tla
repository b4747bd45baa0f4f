--------------------------- MODULE Delivery_proofs ---------------------------
(***************************************************************************)
(* Proofs about Delivery: for any number of releases, jobs and events and  *)
(* any set of images.  A job may be lost, repeated or superseded at every  *)
(* step, so the inductive invariant says of each step what has been        *)
(* established by then and cannot be undone by anything around the job.    *)
(***************************************************************************)
EXTENDS Delivery, TLAPS

\* What a job has established: a release it reports as verified was, the
\* result it is about to send is not marked yet, and from its second
\* admission to its update nothing was deployed whose plan was put on the
\* default branch later.
JobOK(j) ==
    /\ j \in Job
    /\ j.release <= merged
    /\ j.asked = "verified" \/ j.state = "verified" => j.release \in seen
    /\ j.step = "check" => j.state \in {j.asked, "superseded", "blocked"}
    /\ j.step \in {"notify", "mark"} => j.state \in Result
    /\ j.step = "notify" => j.state \notin marks[j.release]
    /\ j.step \in {"apply", "precheck", "update"} => placed[j.release] >= deployed

JobInv == job # None => JobOK(job)

\* What a merge leaves behind: an image Dev has served, and for a rollback
\* a verified release with that image.
PlanInv ==
    \A c \in Release : c <= merged =>
      /\ plan[c].image \in devServed
      /\ plan[c].kind = "rollback" => /\ plan[c].origin \in seen
                                      /\ plan[c].image = plan[plan[c].origin].image

ProposalInv ==
    /\ \A k \in Kind : proposal[k] # None /\ proposal[k].step # "inspect"
                         => proposal[k].image \in devServed
    /\ proposal["rollback"] # None =>
         /\ proposal["rollback"].origin \in seen
         /\ proposal["rollback"].image = plan[proposal["rollback"].origin].image

RecordInv ==
    /\ dev.serving \in devServed
    /\ revisions \subseteq devServed
    /\ applied <= merged
    /\ \A c \in seen : c <= merged
    /\ \A c \in Release : /\ check[c] = "success" => c \in seen
                          /\ marked[c] \subseteq marks[c]

\* The plan on the default branch is the one that was put there last, and
\* nothing was deployed that was never there.
BranchInv ==
    /\ turn <= merged + events
    /\ deployed <= turn
    /\ \A c \in Release : placed[c] <= turn
    /\ current # 0 => placed[current] = turn

IInv == TypeOK /\ JobInv /\ PlanInv /\ ProposalInv /\ RecordInv /\ BranchInv

LEMMA InitInv == Init => IInv
<1> SUFFICES ASSUME Init PROVE IInv
  OBVIOUS
<1> USE ImageAssumption, BoundAssumption, NoneAssumption DEF Init
<1>1. TypeOK
  BY DEF TypeOK, Release, CheckState, Turn
<1>2. JobInv /\ PlanInv /\ ProposalInv /\ RecordInv /\ BranchInv
  BY DEF JobInv, PlanInv, ProposalInv, RecordInv, BranchInv, Kind, Release
<1> QED BY <1>1, <1>2 DEF IInv

(***************************************************************************)
(* Steps that change the job only                                          *)
(***************************************************************************)
LEMMA JobStep ==
    ASSUME IInv, JobOnly, job' = None \/ JobOK(job')
    PROVE  IInv'
<1> USE DEF IInv, JobOnly, branch, records, history
<1>1. TypeOK'
  BY DEF TypeOK, JobOK
<1>2. JobInv'
  BY DEF JobInv, JobOK
<1>3. PlanInv' /\ ProposalInv' /\ RecordInv' /\ BranchInv'
  BY DEF PlanInv, ProposalInv, RecordInv, BranchInv
<1> QED BY <1>1, <1>2, <1>3

\* A job goes on to a step that needs nothing established, or to its report.
LEMMA JobMoves ==
    ASSUME IInv, job # None
    PROVE  /\ \A step \in {"admit", "verifyDev", "preflight", "readmit", "verify"} :
                JobOK([job EXCEPT !.step = step])
           /\ \A state \in {"merged_waiting_apply", "deploying", "failed", "blocked"},
                 admitted \in BOOLEAN :
                JobOK(Report([job EXCEPT !.admitted = admitted], state))
           /\ \A state \in {"failed", "blocked", "deploying"} : JobOK(Report(job, state))
           /\ job.release \in seen => JobOK(Report(job, "verified"))
<1> USE DEF IInv, JobInv, JobOK, Job, Steps, Pending, Result
<1>1. ASSUME NEW step \in {"admit", "verifyDev", "preflight", "readmit", "verify"}
      PROVE  JobOK([job EXCEPT !.step = step])
  OBVIOUS
<1>2. ASSUME NEW state \in {"merged_waiting_apply", "deploying", "failed", "blocked"},
             NEW admitted \in BOOLEAN
      PROVE  JobOK(Report([job EXCEPT !.admitted = admitted], state))
  BY DEF Report
<1>3. ASSUME NEW state \in {"failed", "blocked", "deploying"}
      PROVE  JobOK(Report(job, state))
  BY DEF Report
<1>4. job.release \in seen => JobOK(Report(job, "verified"))
  BY DEF Report
<1> QED BY <1>1, <1>2, <1>3, <1>4

LEMMA JobStepsInv ==
    ASSUME IInv,
           \/ Admit \/ RefuseAdmission \/ VerifyDev \/ Preflight
           \/ Precheck \/ ApplyFails \/ Notify \/ LoseRunner
    PROVE  IInv'
<1>1. CASE Admit
  <2> USE <1>1 DEF Admit, At
  <2>1. job # None /\ JobOnly
    OBVIOUS
  <2>2. CASE job.step = "admit"
    <3>1. job' = Report([job EXCEPT !.admitted = TRUE], "merged_waiting_apply")
      BY <2>2
    <3>2. JobOK(job')
      BY <2>1, <3>1, JobMoves
    <3> QED BY <2>1, <3>2, JobStep
  <2>3. CASE job.step = "readmit"
    <3>1. placed[job.release] >= deployed
      <4>1. current = job.release /\ job.release \in Release
        BY <2>1 DEF Admissible, Fresh, IInv, JobInv, JobOK, Job
      <4>2. current # 0 /\ turn >= deployed
        BY <4>1, BoundAssumption DEF IInv, TypeOK, BranchInv, Release, Turn
      <4> QED BY <4>1, <4>2 DEF IInv, BranchInv
    <3>2. job' = [job EXCEPT !.step = "apply"]
      BY <2>3 DEF Goto
    <3>3. JobOK(job')
      BY <2>1, <3>1, <3>2 DEF IInv, JobInv, JobOK, Job, Steps
    <3> QED BY <2>1, <3>3, JobStep
  <2> QED BY <2>2, <2>3
<1>2. CASE RefuseAdmission
  <2>1. job # None /\ JobOnly
    BY <1>2 DEF RefuseAdmission, At
  <2>2. PICK early \in BOOLEAN :
          job' = FailsAs([job EXCEPT !.admitted =
                             @ \/ (early /\ ~plan[job.release].expired)], "blocked")
    BY <1>2 DEF RefuseAdmission
  <2> DEFINE admitted == job.admitted \/ (early /\ ~plan[job.release].expired)
  <2>3. job' = None \/ job' = Report([job EXCEPT !.admitted = admitted], "blocked")
    BY <2>2 DEF FailsAs
  <2>4. admitted \in BOOLEAN
    BY <2>1 DEF IInv, JobInv, JobOK, Job
  <2> HIDE DEF admitted
  <2>5. job' = None \/ JobOK(job')
    BY <2>1, <2>3, <2>4, JobMoves
  <2> QED BY <2>1, <2>5, JobStep
<1>3. CASE VerifyDev
  <2> USE <1>3 DEF VerifyDev, At
  <2>1. job # None /\ JobOnly
    OBVIOUS
  <2>2. CASE job.step = "verifyDev"
    <3>1. \/ job' = [job EXCEPT !.step = "preflight"]
          \/ job' = None
          \/ job' = Report(job, "blocked")
      BY <2>2 DEF Goto, FailsAs
    <3> QED BY <2>1, <3>1, JobMoves, JobStep
  <2>3. CASE job.step = "apply"
    <3>1. \/ job' = [job EXCEPT !.step = "precheck"]
          \/ job' = None
          \/ job' = Report(job, "failed")
      BY <2>3 DEF Goto, FailsAs
    <3>2. JobOK([job EXCEPT !.step = "precheck"])
      BY <2>1, <2>3 DEF IInv, JobInv, JobOK, Job, Steps
    <3> QED BY <2>1, <3>1, <3>2, JobMoves, JobStep
  <2> QED BY <2>1, <2>2, <2>3
<1>4. CASE Preflight
  <2>1. job # None /\ JobOnly
    BY <1>4 DEF Preflight, At
  <2>2. \/ job' = Report(job, "deploying")
        \/ job' = None
        \/ job' = Report(job, "blocked")
    BY <1>4 DEF Preflight, FailsAs
  <2> QED BY <2>1, <2>2, JobMoves, JobStep
<1>5. CASE Precheck
  <2> USE <1>5 DEF Precheck, At
  <2>1. job # None /\ JobOnly /\ job.step = "precheck"
    OBVIOUS
  <2>2. \/ job' = [job EXCEPT !.step = "verify"]
        \/ job' = [job EXCEPT !.step = "update"]
    BY DEF Goto
  <2>3. JobOK([job EXCEPT !.step = "update"])
    BY <2>1 DEF IInv, JobInv, JobOK, Job, Steps
  <2> QED BY <2>1, <2>2, <2>3, JobMoves, JobStep
<1>6. CASE ApplyFails
  <2>1. job # None /\ JobOnly /\ job' = Report(job, "failed")
    BY <1>6 DEF ApplyFails, At
  <2> QED BY <2>1, JobMoves, JobStep
<1>7. CASE Notify
  <2>1. job # None /\ JobOnly /\ job.step = "notify" /\ job' = [job EXCEPT !.step = "mark"]
    BY <1>7 DEF Notify, At, Goto
  <2>2. JobOK(job')
    BY <2>1 DEF IInv, JobInv, JobOK, Job, Steps
  <2> QED BY <2>1, <2>2, JobStep
<1>8. CASE LoseRunner
  BY <1>8, JobStep DEF LoseRunner
<1> QED BY <1>1, <1>2, <1>3, <1>4, <1>5, <1>6, <1>7, <1>8

(***************************************************************************)
(* Steps of the job that change Prod or the records                        *)
(***************************************************************************)
LEMMA ApplyInv ==
    ASSUME IInv, Apply
    PROVE  IInv'
<1> USE DEF Apply, At, branch, records
<1>1. job # None /\ job.step = "update" /\ JobOK(job)
  BY DEF IInv, JobInv
<1>2. job.release \in Release /\ job.release <= merged
  BY <1>1 DEF JobOK, Job
<1>3. plan[job.release] \in Plan /\ plan[job.release].image \in devServed
  BY <1>2 DEF IInv, TypeOK, PlanInv
<1>4. plan[job.release].image \in Images
  BY <1>3 DEF Plan
<1>5. job' = [job EXCEPT !.step = "verify"] \/ job' = Report(job, "failed")
  BY DEF Goto
<1>6. job' # None /\ job'.release = job.release /\ job' \in Job
  <2>1. job \in Job
    BY <1>1 DEF JobOK
  <2>2. job' \in Job /\ job'.release = job.release
    BY <1>5, <2>1 DEF Job, Steps, Result, Report
  <2> QED BY <2>2, NoneAssumption
<1>7. TypeOK'
  BY <1>2, <1>4, <1>6 DEF IInv, TypeOK, Release
<1>8. JobInv'
  BY <1>1, <1>5, <1>6 DEF JobInv, JobOK, Report, Job
<1>11. BranchInv'
  BY <1>2 DEF IInv, BranchInv
<1>9. PlanInv' /\ ProposalInv'
  BY DEF IInv, PlanInv, ProposalInv
<1>10. RecordInv'
  BY <1>2, <1>3 DEF IInv, RecordInv
<1> QED BY <1>7, <1>8, <1>9, <1>10, <1>11 DEF IInv

LEMMA VerifyProdInv ==
    ASSUME IInv, VerifyProd
    PROVE  IInv'
<1> USE DEF VerifyProd, At, branch, records
<1>1. job # None /\ JobOK(job)
  BY DEF IInv, JobInv
<1>2. job.release \in Release /\ job.release <= merged
  BY <1>1 DEF JobOK, Job
<1>3. \/ seen' = seen \cup {job.release} /\ job' = Report(job, "verified")
      \/ seen' = seen /\ job' = Report(job, "failed")
  OBVIOUS
<1>4. job' # None /\ job'.release = job.release /\ job' \in Job
  BY <1>1, <1>3, NoneAssumption DEF JobOK, Job, Steps, Result, Report
<1>5. TypeOK'
  BY <1>2, <1>3, <1>4 DEF IInv, TypeOK
<1>6. JobInv'
  BY <1>1, <1>3, <1>4 DEF JobInv, JobOK, Report, Job
<1>7. PlanInv' /\ ProposalInv'
  BY <1>3 DEF IInv, PlanInv, ProposalInv
<1>8. RecordInv' /\ BranchInv'
  BY <1>2, <1>3 DEF IInv, RecordInv, BranchInv
<1> QED BY <1>5, <1>6, <1>7, <1>8 DEF IInv

LEMMA WriteCommentInv ==
    ASSUME IInv, WriteComment
    PROVE  IInv'
<1> USE DEF WriteComment, At, branch, history
<1>1. job # None /\ JobOK(job)
  BY DEF IInv, JobInv
<1>2. PICK state \in {job.asked, "superseded", "blocked"} :
        job' = [job EXCEPT !.step = "check", !.state = state]
  OBVIOUS
<1>3. job' # None /\ job'.release = job.release /\ job' \in Job
  BY <1>1, <1>2, NoneAssumption DEF JobOK, Job, Steps, Result
<1>4. marks' = marks
  <2>1. marks \in [Release -> SUBSET Result]
    BY DEF IInv, TypeOK
  <2>2. marks' = [marks EXCEPT ![job.release] = marks[job.release]]
    BY DEF KeptMarks
  <2> QED BY <2>1, <2>2
<1>5. TypeOK'
  BY <1>1, <1>3, <1>4 DEF IInv, TypeOK, JobOK
<1>6. JobInv'
  BY <1>1, <1>2, <1>3 DEF JobInv, JobOK, Job
<1>7. PlanInv' /\ ProposalInv' /\ RecordInv' /\ BranchInv'
  BY <1>4 DEF IInv, PlanInv, ProposalInv, RecordInv, BranchInv
<1> QED BY <1>5, <1>6, <1>7 DEF IInv

\* The job goes on after a report, or ends with its run.
LEMMA ContinueOK ==
    ASSUME IInv, job # None, Continue
    PROVE  /\ job' = None \/ JobOK(job')
           /\ runOK' \in [Release -> BOOLEAN]
<1>1. job.release \in Release
  BY DEF IInv, JobInv, JobOK, Job
<1>2. CASE job.asked \in Pending
  <2>1. job' \in {[job EXCEPT !.step = "readmit"], [job EXCEPT !.step = "verifyDev"]}
    BY <1>2 DEF Continue, Goto
  <2> QED BY <1>2, <2>1, JobMoves DEF Continue, IInv, TypeOK
<1>3. CASE job.asked \notin Pending
  BY <1>1, <1>3 DEF Continue, IInv, TypeOK
<1> QED BY <1>2, <1>3

LEMMA WriteCheckInv ==
    ASSUME IInv, WriteCheck
    PROVE  IInv'
<1> USE DEF WriteCheck, At, branch, history
<1>1. job # None /\ job.step = "check" /\ JobOK(job)
  BY DEF IInv, JobInv
<1>2. job.release \in Release /\ job.state \in Pending \cup Result
  BY <1>1 DEF JobOK, Job
<1>3. /\ Conclusion(job.state) \in CheckState
      /\ Conclusion(job.state) = "success" => job.state = "verified"
  BY <1>2 DEF Conclusion, CheckState, Pending, Result
<1>4. /\ check' \in [Release -> CheckState]
      /\ \A c \in Release : check'[c] = "success" => c \in seen
  BY <1>1, <1>2, <1>3 DEF IInv, TypeOK, RecordInv, JobOK
<1>5. /\ job' = None \/ JobOK(job')
      /\ runOK' \in [Release -> BOOLEAN]
  <2>1. CASE job.asked \notin Pending /\ job.state \notin marks[job.release]
    <3>1. job' = [job EXCEPT !.step = "notify"] /\ runOK' = runOK
      BY <2>1 DEF Goto
    <3>2. JobOK(job')
      BY <1>1, <2>1, <3>1 DEF JobOK, Job, Steps, Pending, Result
    <3> QED BY <3>1, <3>2 DEF IInv, TypeOK
  <2>2. CASE ~ (job.asked \notin Pending /\ job.state \notin marks[job.release])
    BY <1>1, <2>2, ContinueOK
  <2> QED BY <2>1, <2>2
<1>6. TypeOK'
  BY <1>4, <1>5 DEF IInv, TypeOK, JobOK
<1>7. JobInv'
  BY <1>5 DEF JobInv, JobOK
<1>8. PlanInv' /\ ProposalInv' /\ RecordInv' /\ BranchInv'
  BY <1>4 DEF IInv, PlanInv, ProposalInv, RecordInv, BranchInv
<1> QED BY <1>6, <1>7, <1>8 DEF IInv

LEMMA MarkNotifiedInv ==
    ASSUME IInv, MarkNotified
    PROVE  IInv'
<1> USE DEF MarkNotified, At, branch
<1>1. job # None /\ job.step = "mark" /\ JobOK(job)
  BY DEF IInv, JobInv
<1>2. job.release \in Release /\ job.state \in Result
  BY <1>1 DEF JobOK, Job
<1>3. /\ job' = None \/ JobOK(job')
      /\ runOK' \in [Release -> BOOLEAN]
  BY <1>1, ContinueOK
<1>4. job' # None => job'.step \in {"readmit", "verifyDev"}
  BY <1>1 DEF Continue, Goto, JobOK, Job
<1>5. /\ marks' \in [Release -> SUBSET Result]
      /\ marked' \in [Release -> SUBSET Result]
      /\ \A c \in Release : marked'[c] \subseteq marks'[c]
  BY <1>2 DEF IInv, TypeOK, RecordInv
<1>6. TypeOK'
  BY <1>3, <1>5 DEF IInv, TypeOK, JobOK
<1>7. JobInv'
  BY <1>3, <1>4 DEF JobInv, JobOK
<1>8. PlanInv' /\ ProposalInv'
  BY DEF IInv, PlanInv, ProposalInv
<1>9. RecordInv' /\ BranchInv'
  BY <1>5 DEF IInv, RecordInv, BranchInv
<1> QED BY <1>6, <1>7, <1>8, <1>9 DEF IInv

LEMMA ReportFailsInv ==
    ASSUME IInv, ReportFails
    PROVE  IInv'
<1> USE DEF ReportFails, At, branch, history
<1>1. job # None
  OBVIOUS
<1>2. /\ job' = None \/ JobOK(job')
      /\ runOK' \in [Release -> BOOLEAN]
  BY <1>1, ContinueOK
<1>3. TypeOK'
  BY <1>2 DEF IInv, TypeOK, JobOK
<1>4. JobInv'
  BY <1>2 DEF JobInv, JobOK
<1>5. PlanInv' /\ ProposalInv' /\ RecordInv' /\ BranchInv'
  BY DEF IInv, PlanInv, ProposalInv, RecordInv, BranchInv
<1> QED BY <1>3, <1>4, <1>5 DEF IInv

(***************************************************************************)
(* Proposals                                                               *)
(***************************************************************************)
\* A proposal in preparation whose digest Dev does not serve may only be
\* looked at; one of a rollback refers to a verified release.
ProposalOK(k, p) ==
    /\ p \in Proposal
    /\ p.step # "inspect" => p.image \in devServed
    /\ k = "rollback" => p.origin \in seen /\ p.image = plan[p.origin].image

LEMMA ProposedInv ==
    ASSUME IInv, NEW k \in Kind, NEW p, Proposed(k, p),
           UNCHANGED <<dev, prod, revisions, branch, job, records, events, history>>,
           p = None \/ ProposalOK(k, p)
    PROVE  IInv'
<1> USE DEF Proposed, branch, records, history
<1>1. TypeOK'
  BY DEF IInv, TypeOK, ProposalOK
<1>2. ProposalInv'
  <2>1. proposal' = [proposal EXCEPT ![k] = p] /\ proposal \in [Kind -> Proposal \cup {None}]
    BY DEF IInv, TypeOK
  <2>2. ASSUME NEW h \in Kind, proposal'[h] # None, proposal'[h].step # "inspect"
        PROVE  proposal'[h].image \in devServed
    BY <2>1, <2>2 DEF ProposalOK, IInv, ProposalInv
  <2>3. ASSUME proposal'["rollback"] # None
        PROVE  /\ proposal'["rollback"].origin \in seen
               /\ proposal'["rollback"].image = plan[proposal'["rollback"].origin].image
    BY <2>1, <2>3 DEF ProposalOK, IInv, ProposalInv, Kind
  <2> QED BY <2>2, <2>3 DEF ProposalInv
<1>3. JobInv' /\ PlanInv' /\ RecordInv' /\ BranchInv'
  BY DEF IInv, JobInv, JobOK, PlanInv, RecordInv, BranchInv
<1> QED BY <1>1, <1>2, <1>3 DEF IInv

\* What is known of a proposal that exists.
LEMMA ProposalKnown ==
    ASSUME IInv, NEW k \in Kind, proposal[k] # None
    PROVE  ProposalOK(k, proposal[k])
BY DEF IInv, TypeOK, ProposalInv, ProposalOK

LEMMA ProposalStepsInv ==
    ASSUME IInv,
           \/ BeginCheck \/ Inspect \/ Prepare
           \/ \E c \in Release : PrepareRollback(c)
           \/ \E k \in Kind : Push(k) \/ Close(k)
    PROVE  IInv'
<1> USE DEF Kind
<1>1. CASE BeginCheck
  <2> DEFINE p == [step |-> "inspect", image |-> dev.desired, old |-> desired,
                   origin |-> 0, current |-> TRUE]
  <2>1. ProposalOK("promotion", p)
    BY BoundAssumption DEF IInv, TypeOK, ProposalOK, Proposal
  <2>2. Proposed("promotion", p)
    BY <1>1 DEF BeginCheck
  <2> HIDE DEF p
  <2> QED BY <1>1, <2>1, <2>2, ProposedInv DEF BeginCheck
<1>2. CASE Inspect
  <2> DEFINE p == proposal["promotion"]
             q == [p EXCEPT !.step = "prepare"]
  <2>1. PICK healthy \in CheckHTTP :
          Proposed("promotion", IF SameDigest(dev.serving, p.image) /\ healthy
                                  THEN q ELSE None)
    BY <1>2 DEF Inspect
  <2>2. ProposalOK("promotion", p)
    BY <1>2, ProposalKnown DEF Inspect
  <2>3. SameDigest(dev.serving, p.image) => ProposalOK("promotion", q)
    BY <2>2 DEF IInv, RecordInv, SameDigest, ProposalOK, Proposal
  <2> HIDE DEF q
  <2>4. CASE SameDigest(dev.serving, p.image) /\ healthy
    BY <1>2, <2>1, <2>3, <2>4, ProposedInv DEF Inspect
  <2>5. CASE ~ (SameDigest(dev.serving, p.image) /\ healthy)
    BY <1>2, <2>1, <2>5, ProposedInv DEF Inspect
  <2> QED BY <2>4, <2>5
<1>3. CASE Prepare
  <2> DEFINE p == proposal["promotion"]
             q == [p EXCEPT !.step = "push"]
  <2>1. Proposed("promotion", q) \/ Proposed("promotion", None)
    BY <1>3 DEF Prepare
  <2>2. ProposalOK("promotion", p) /\ p.step = "prepare"
    BY <1>3, ProposalKnown DEF Prepare
  <2>3. ProposalOK("promotion", q)
    BY <2>2 DEF ProposalOK, Proposal
  <2> HIDE DEF q
  <2> QED BY <1>3, <2>1, <2>3, ProposedInv DEF Prepare
<1>4. ASSUME NEW c \in Release, PrepareRollback(c)
      PROVE  IInv'
  <2> DEFINE p == [step |-> "push", image |-> plan[c].image, old |-> desired,
                   origin |-> c, current |-> TRUE]
  <2>1. c <= merged /\ c \in seen
    BY <1>4 DEF PrepareRollback, RollbackTarget, IInv, RecordInv
  <2>2. plan[c] \in Plan /\ plan[c].image \in devServed
    BY <2>1 DEF IInv, TypeOK, PlanInv
  <2>3. ProposalOK("rollback", p)
    BY <2>1, <2>2 DEF IInv, TypeOK, ProposalOK, Proposal, Plan, Release
  <2>4. Proposed("rollback", p)
    BY <1>4 DEF PrepareRollback
  <2> HIDE DEF p
  <2> QED BY <1>4, <2>3, <2>4, ProposedInv DEF PrepareRollback
<1>5. ASSUME NEW k \in Kind, Push(k)
      PROVE  IInv'
  <2> DEFINE q == [proposal[k] EXCEPT !.step = "open"]
  <2>1. Proposed(k, q) \/ Proposed(k, None)
    BY <1>5 DEF Push
  <2>2. ProposalOK(k, proposal[k]) /\ proposal[k].step = "push"
    BY <1>5, ProposalKnown DEF Push
  <2>3. ProposalOK(k, q)
    BY <2>2 DEF ProposalOK, Proposal
  <2> HIDE DEF q
  <2> QED BY <1>5, <2>1, <2>3, ProposedInv DEF Push
<1>6. ASSUME NEW k \in Kind, Close(k)
      PROVE  IInv'
  BY <1>6, ProposedInv DEF Close
<1> QED BY <1>1, <1>2, <1>3, <1>4, <1>5, <1>6

(***************************************************************************)
(* What happens around the workflows                                       *)
(***************************************************************************)
\* A moved base leaves a proposal what it was otherwise.
LEMMA BaseMovedOK ==
    ASSUME TypeOK
    PROVE  /\ BaseMoved(proposal) \in [Kind -> Proposal \cup {None}]
           /\ \A k \in Kind :
                /\ BaseMoved(proposal)[k] = None <=> proposal[k] = None
                /\ proposal[k] # None =>
                     /\ BaseMoved(proposal)[k].step = proposal[k].step
                     /\ BaseMoved(proposal)[k].image = proposal[k].image
                     /\ BaseMoved(proposal)[k].origin = proposal[k].origin
<1>1. ASSUME NEW k \in Kind, proposal[k] # None
      PROVE  /\ [proposal[k] EXCEPT !.current = FALSE] \in Proposal
             /\ [proposal[k] EXCEPT !.current = FALSE].step = proposal[k].step
             /\ [proposal[k] EXCEPT !.current = FALSE].image = proposal[k].image
             /\ [proposal[k] EXCEPT !.current = FALSE].origin = proposal[k].origin
  <2>1. proposal[k] \in Proposal
    BY <1>1 DEF TypeOK
  <2> QED BY <2>1 DEF Proposal
<1> QED BY <1>1, NoneAssumption DEF BaseMoved

LEMMA BaseMovedInv ==
    ASSUME IInv, proposal' = BaseMoved(proposal), UNCHANGED <<plan, devServed, seen>>
    PROVE  proposal' \in [Kind -> Proposal \cup {None}] /\ ProposalInv'
BY BaseMovedOK DEF IInv, ProposalInv, Kind

\* An event adds nothing to what the default branch has held.
LEMMA EventKept ==
    ASSUME IInv, Event, UNCHANGED <<merged, current, turn, placed, deployed>>
    PROVE  events' \in 0..MaxEvents /\ BranchInv'
<1>1. events \in Nat /\ merged \in Nat /\ turn \in Nat /\ MaxEvents \in Nat
  BY BoundAssumption DEF IInv, TypeOK, Turn
<1>2. events' \in 0..MaxEvents /\ events' = events + 1
  BY <1>1 DEF Event
<1>3. turn <= merged + events
  BY DEF IInv, BranchInv
<1>4. turn' = turn /\ merged' = merged
  OBVIOUS
<1>5. turn' <= merged' + events'
  BY <1>1, <1>2, <1>3, <1>4
<1> QED BY <1>2, <1>5 DEF IInv, BranchInv

LEMMA EventInv ==
    ASSUME IInv, NEW image \in Images,
           MergeDev(image) \/ Emergency(image) \/ RollOutDev
    PROVE  IInv'
<1> USE DEF branch, records, history
<1>1. CASE MergeDev(image)
  <2> USE <1>1 DEF MergeDev
  <2>1. proposal' \in [Kind -> Proposal \cup {None}] /\ ProposalInv'
    BY BaseMovedInv
  <2>2. events' \in 0..MaxEvents /\ BranchInv'
    BY EventKept
  <2>3. TypeOK'
    BY <2>1, <2>2 DEF IInv, TypeOK
  <2>4. JobInv' /\ PlanInv' /\ RecordInv'
    BY DEF IInv, TypeOK, JobInv, JobOK, PlanInv, RecordInv
  <2> QED BY <2>1, <2>2, <2>3, <2>4 DEF IInv
<1>2. CASE Emergency(image)
  <2> USE <1>2 DEF Emergency
  <2>1. events' \in 0..MaxEvents /\ BranchInv'
    BY EventKept
  <2>2. TypeOK'
    BY <2>1 DEF IInv, TypeOK
  <2>3. JobInv' /\ PlanInv' /\ ProposalInv' /\ RecordInv'
    BY DEF IInv, JobInv, JobOK, PlanInv, ProposalInv, RecordInv
  <2> QED BY <2>1, <2>2, <2>3 DEF IInv
<1>3. CASE RollOutDev
  <2> USE <1>3 DEF RollOutDev
  <2>1. TypeOK'
    BY DEF IInv, TypeOK
  <2>2. JobInv' /\ PlanInv' /\ ProposalInv' /\ BranchInv'
    BY DEF IInv, JobInv, JobOK, PlanInv, ProposalInv, BranchInv
  <2>3. RecordInv'
    BY DEF IInv, TypeOK, RecordInv
  <2> QED BY <2>1, <2>2, <2>3 DEF IInv
<1> QED BY <1>1, <1>2, <1>3

\* A plan that is put on the default branch is there at the latest turn, and
\* what was deployed or is being deployed was there before.
LEMMA PlaceOK ==
    ASSUME IInv, NEW c \in Release, Place(c), UNCHANGED deployed,
           turn + 1 \in Turn
    PROVE  /\ turn' = turn + 1 /\ turn' \in Turn
           /\ current' = c
           /\ placed' \in [Release -> Turn]
           /\ \A d \in Release : placed'[d] >= placed[d] /\ placed'[d] <= turn'
           /\ placed'[current'] = turn'
           /\ deployed' <= turn'
<1>1. turn \in Nat /\ deployed \in Nat /\ deployed <= turn /\ turn' = turn + 1
  BY BoundAssumption DEF IInv, TypeOK, Turn, BranchInv, Place
<1>2. placed' = [placed EXCEPT ![c] = turn + 1] /\ placed \in [Release -> Turn]
  BY DEF Place, IInv, TypeOK
<1>3. placed'[c] = turn + 1 /\ \A d \in Release : d # c => placed'[d] = placed[d]
  BY <1>2
<1>4. \A d \in Release : placed[d] \in Nat /\ placed[d] <= turn
  BY <1>2, BoundAssumption DEF IInv, BranchInv, Turn
<1>5. \A d \in Release : placed'[d] >= placed[d] /\ placed'[d] <= turn'
  BY <1>1, <1>3, <1>4
<1>6. placed' \in [Release -> Turn]
  BY <1>2
<1> QED BY <1>1, <1>3, <1>5, <1>6 DEF Place

\* A job that was admitted again stays ahead of what was deployed.
LEMMA JobStaysAhead ==
    ASSUME IInv, UNCHANGED <<job, marks, seen, deployed>>, merged <= merged', merged' \in Nat,
           placed' \in [Release -> Turn],
           \A d \in Release : placed'[d] >= placed[d]
    PROVE  JobInv'
<1>1. SUFFICES ASSUME job # None PROVE JobOK(job)'
  BY DEF JobInv
<1>2. JobOK(job) /\ job.release \in Release
  BY <1>1 DEF IInv, JobInv, JobOK, Job
<1>3. job.release <= merged'
  <2>1. job.release \in Nat /\ merged \in Nat /\ job.release <= merged
    BY <1>2, BoundAssumption DEF Release, JobOK, IInv, TypeOK
  <2> QED BY <2>1
<1>4. placed[job.release] >= deployed => placed'[job.release] >= deployed
  <2>1. /\ placed[job.release] \in Nat /\ placed'[job.release] \in Nat
        /\ deployed \in Nat /\ placed'[job.release] >= placed[job.release]
    BY <1>2, BoundAssumption DEF IInv, TypeOK, Turn
  <2> QED BY <2>1
<1> QED BY <1>2, <1>3, <1>4 DEF JobOK

LEMMA EditBranchInv ==
    ASSUME IInv, NEW c \in 0..MaxReleases, NEW image \in Images, EditBranch(c, image)
    PROVE  IInv'
<1> USE DEF EditBranch, records, history
<1>1. /\ events \in Nat /\ merged \in 0..MaxReleases /\ turn \in Nat /\ turn <= merged + events
      /\ MaxEvents \in Nat /\ MaxReleases \in Nat
  BY BoundAssumption DEF IInv, TypeOK, Turn, BranchInv
<1>2. events' = events + 1 /\ events' \in 0..MaxEvents
  BY <1>1 DEF Event
<1>3. proposal' \in [Kind -> Proposal \cup {None}] /\ ProposalInv'
  BY BaseMovedInv
<1>4. /\ placed' \in [Release -> Turn] /\ turn' \in Turn /\ deployed' \in Turn
      /\ current' = c
      /\ \A d \in Release : placed'[d] >= placed[d]
      /\ BranchInv'
  <2>1. CASE c \in {0, current}
    <3>1. \A d \in Release : placed[d] >= placed[d]
      BY BoundAssumption DEF IInv, TypeOK, Turn
    <3>2. turn' <= merged' + events'
      BY <1>1, <1>2, <2>1
    <3> QED BY <2>1, <3>1, <3>2 DEF IInv, TypeOK, BranchInv
  <2>2. CASE c \notin {0, current}
    <3>1. c \in Release /\ Place(c)
      BY <2>2, BoundAssumption DEF Release
    <3>2. turn + 1 \in Turn
      BY <1>1, <1>2 DEF Turn
    <3>3. turn' <= merged' + events'
      BY <1>1, <1>2, <3>1 DEF Place
    <3> QED BY <3>1, <3>2, <3>3, PlaceOK DEF IInv, TypeOK, BranchInv
  <2> QED BY <2>1, <2>2
<1>5. TypeOK'
  BY <1>2, <1>3, <1>4 DEF IInv, TypeOK
<1>6. JobInv'
  BY <1>1, <1>4, JobStaysAhead
<1>7. PlanInv' /\ RecordInv'
  BY DEF IInv, PlanInv, RecordInv
<1> QED BY <1>3, <1>4, <1>5, <1>6, <1>7 DEF IInv

LEMMA ExpireInv ==
    ASSUME IInv, NEW c \in Release, Expire(c)
    PROVE  IInv'
<1> USE DEF Expire, records, history
<1>1. plan[c] \in Plan /\ plan' = [plan EXCEPT ![c].expired = TRUE]
  BY DEF IInv, TypeOK
<1>2. [plan[c] EXCEPT !.expired = TRUE] \in Plan
  BY <1>1 DEF Plan
<1>3. plan' \in [Release -> Plan \cup {None}]
  BY <1>1, <1>2 DEF IInv, TypeOK
<1>4. \A d \in Release : plan[d] # None =>
        /\ plan'[d] # None
        /\ plan'[d].image = plan[d].image
        /\ plan'[d].kind = plan[d].kind
        /\ plan'[d].origin = plan[d].origin
  <2>1. plan'[c] = [plan[c] EXCEPT !.expired = TRUE]
    BY <1>1 DEF IInv, TypeOK
  <2>2. /\ plan'[c] # None
        /\ plan'[c].image = plan[c].image
        /\ plan'[c].kind = plan[c].kind
        /\ plan'[c].origin = plan[c].origin
    BY <1>1, <1>2, <2>1, NoneAssumption DEF Plan
  <2>3. \A d \in Release : d # c => plan'[d] = plan[d]
    BY <1>1 DEF IInv, TypeOK
  <2> QED BY <2>2, <2>3
<1>5. \A d \in Release : plan'[d] = None <=> plan[d] = None
  BY <1>1, <1>4 DEF IInv, TypeOK
<1>6. events' \in 0..MaxEvents /\ BranchInv'
  BY EventKept
<1>7. TypeOK'
  BY <1>3, <1>5, <1>6 DEF IInv, TypeOK
<1>8. \A d \in seen : d \in Release /\ plan[d] # None
  BY DEF IInv, TypeOK, RecordInv
<1>9. PlanInv' /\ ProposalInv'
  BY <1>4, <1>8 DEF IInv, TypeOK, PlanInv, ProposalInv
<1>10. JobInv' /\ RecordInv'
  BY DEF IInv, JobInv, JobOK, RecordInv
<1> QED BY <1>6, <1>7, <1>9, <1>10 DEF IInv

LEMMA MergeInv ==
    ASSUME IInv, NEW k \in Kind, Merge(k)
    PROVE  IInv'
<1> USE DEF Merge, records, history
<1> DEFINE p == proposal[k]
           new == [kind |-> k, image |-> p.image, old |-> p.old, before |-> desired,
                   origin |-> p.origin, devDesired |-> dev.desired, expired |-> FALSE]
<1>1. ProposalOK(k, p) /\ p.step = "open"
  BY ProposalKnown
<1>2. new \in Plan
  BY <1>1 DEF ProposalOK, Proposal, Plan, IInv, TypeOK
<1>3. merged + 1 \in Release /\ merged' = merged + 1 /\ merged \in Nat
  BY BoundAssumption DEF IInv, TypeOK, Release
<1>4. plan' = [plan EXCEPT ![merged + 1] = new]
  OBVIOUS
<1>5. /\ new.kind = k /\ new.image = p.image /\ new.origin = p.origin
  OBVIOUS
<1> HIDE DEF new
<1>6. /\ proposal' = [BaseMoved(proposal) EXCEPT ![k] = None]
      /\ proposal' \in [Kind -> Proposal \cup {None}]
      /\ \A h \in Kind : h # k => proposal'[h] = BaseMoved(proposal)[h]
      /\ proposal'[k] = None
  BY BaseMovedOK DEF IInv
<1>7. desired' \in Images
  BY <1>1 DEF ProposalOK, Proposal
<1>8. plan' \in [Release -> Plan \cup {None}]
  BY <1>2, <1>3, <1>4 DEF IInv, TypeOK
<1>9. \A c \in Release : c <= merged' <=> plan'[c] # None
  <2>1. plan'[merged + 1] # None
    <3>1. new # None
      BY <1>2, NoneAssumption
    <3> QED BY <3>1, <1>3, <1>4 DEF IInv, TypeOK
  <2>2. \A c \in Release : c # merged + 1 => plan'[c] = plan[c]
    BY <1>4 DEF IInv, TypeOK
  <2>3. \A c \in Release : c <= merged' <=> c <= merged \/ c = merged + 1
    BY <1>3 DEF Release
  <2>4. \A c \in Release : c <= merged <=> plan[c] # None
    BY DEF IInv, TypeOK
  <2> QED BY <2>1, <2>2, <2>3, <2>4
<1>10. job # None => job.release <= merged'
  BY <1>3 DEF IInv, TypeOK, Job, Release
<1>19. /\ placed' \in [Release -> Turn] /\ turn' \in Turn
       /\ current' = merged'
       /\ \A d \in Release : placed'[d] >= placed[d]
       /\ BranchInv'
  <2>1. /\ turn \in Nat /\ events \in 0..MaxEvents /\ turn <= merged + events
        /\ MaxEvents \in Nat /\ MaxReleases \in Nat /\ merged + 1 <= MaxReleases
    BY <1>3, BoundAssumption DEF IInv, TypeOK, Turn, BranchInv, Release
  <2>2. turn + 1 \in Turn /\ turn + 1 <= merged' + events'
    BY <1>3, <2>1 DEF Turn
  <2>3. Place(merged + 1)
    OBVIOUS
  <2> HIDE DEF Merge
  <2>4. UNCHANGED deployed
    BY DEF Merge
  <2> QED BY <1>3, <2>2, <2>3, <2>4, PlaceOK DEF BranchInv
<1>11. TypeOK'
  BY <1>3, <1>6, <1>7, <1>8, <1>9, <1>10, <1>19, BoundAssumption DEF IInv, TypeOK, Release
<1>12. JobInv'
  BY <1>3, <1>19, JobStaysAhead
<1>13. \A c \in Release : c <= merged => plan'[c] = plan[c]
  BY <1>3, <1>4 DEF IInv, TypeOK, Release
<1>14. \A c \in seen : c \in Release /\ c <= merged /\ plan'[c] = plan[c]
  BY <1>13 DEF IInv, TypeOK, RecordInv
<1>15. plan'[merged + 1] = new
  BY <1>3, <1>4 DEF IInv, TypeOK
<1>16. PlanInv'
  <2>1. ASSUME NEW c \in Release, c <= merged'
        PROVE  /\ plan'[c].image \in devServed
               /\ plan'[c].kind = "rollback" =>
                    /\ plan'[c].origin \in seen
                    /\ plan'[c].image = plan'[plan'[c].origin].image
    <3>1. CASE c = merged + 1
      BY <1>1, <1>5, <1>14, <1>15, <3>1 DEF ProposalOK
    <3>2. CASE c # merged + 1
      <4>1. c <= merged
        BY <1>3, <2>1, <3>2 DEF Release
      <4> QED BY <1>13, <1>14, <4>1 DEF IInv, PlanInv
    <3> QED BY <3>1, <3>2
  <2> QED BY <2>1 DEF PlanInv
<1>17. ProposalInv'
  <2>1. ASSUME NEW h \in Kind, proposal'[h] # None
        PROVE  /\ proposal[h] # None
               /\ proposal'[h].step = proposal[h].step
               /\ proposal'[h].image = proposal[h].image
               /\ proposal'[h].origin = proposal[h].origin
    <3>1. h # k /\ proposal'[h] = BaseMoved(proposal)[h]
      BY <1>6, <2>1
    <3> QED BY <2>1, <3>1, BaseMovedOK DEF IInv
  <2>2. ASSUME NEW h \in Kind, proposal'[h] # None, proposal'[h].step # "inspect"
        PROVE  proposal'[h].image \in devServed
    BY <2>1, <2>2 DEF IInv, ProposalInv
  <2>3. ASSUME proposal'["rollback"] # None
        PROVE  /\ proposal'["rollback"].origin \in seen
               /\ proposal'["rollback"].image = plan'[proposal'["rollback"].origin].image
    <3>1. "rollback" \in Kind
      BY DEF Kind
    <3> QED BY <2>1, <2>3, <3>1, <1>14 DEF IInv, ProposalInv
  <2> QED BY <2>2, <2>3 DEF ProposalInv
<1>18. RecordInv'
  BY <1>3, <1>14 DEF IInv, TypeOK, RecordInv, Release
<1> QED BY <1>11, <1>12, <1>16, <1>17, <1>18, <1>19 DEF IInv

LEMMA NewJob ==
    ASSUME NEW c \in Release, NEW had \in BOOLEAN
    PROVE  LET j == [release |-> c, step |-> "admit", admitted |-> FALSE,
                     asked |-> "blocked", state |-> "blocked", had |-> had]
           IN /\ j \in Job /\ j # None
              /\ j.release = c /\ j.step = "admit"
              /\ j.asked = "blocked" /\ j.state = "blocked"
<1> DEFINE j == [release |-> c, step |-> "admit", admitted |-> FALSE,
                 asked |-> "blocked", state |-> "blocked", had |-> had]
<1>1. j \in Job
  BY DEF Job, Steps, Pending, Result
<1>2. /\ j.release = c /\ j.step = "admit"
      /\ j.asked = "blocked" /\ j.state = "blocked"
  OBVIOUS
<1> HIDE DEF j
<1>3. j # None
  BY <1>1, NoneAssumption
<1> QED BY <1>1, <1>2, <1>3 DEF j

LEMMA StartInv ==
    ASSUME IInv, NEW c \in Release, Start(c)
    PROVE  IInv'
<1>1. /\ job' \in Job /\ job'.release = c /\ job' # None /\ job'.step = "admit"
      /\ job'.asked = "blocked" /\ job'.state = "blocked"
  <2>1. \A had \in BOOLEAN :
          LET j == [release |-> c, step |-> "admit", admitted |-> FALSE,
                    asked |-> "blocked", state |-> "blocked", had |-> had]
          IN /\ j \in Job /\ j # None
             /\ j.release = c /\ j.step = "admit"
             /\ j.asked = "blocked" /\ j.state = "blocked"
    BY NewJob
  <2>2. (check[c] = "success") \in BOOLEAN
    OBVIOUS
  <2>3. job' = [release |-> c, step |-> "admit", admitted |-> FALSE,
                asked |-> "blocked", state |-> "blocked",
                had |-> check[c] = "success"]
    BY Zenon DEF Start
  <2> QED BY <2>1, <2>2, <2>3, Zenon
<1>2. /\ c <= merged /\ runs < MaxRuns /\ runs' = runs + 1
      /\ runOK' = [runOK EXCEPT ![c] = FALSE]
      /\ UNCHANGED <<dev, prod, revisions, desired, merged, plan, current, turn,
                     placed, proposal, check, marks, events, devServed, applied,
                     deployed, seen, marked>>
  BY Zenon DEF Start, branch, history
<1>3. TypeOK'
  BY <1>1, <1>2, BoundAssumption DEF IInv, TypeOK
<1>4. JobInv'
  BY <1>1, <1>2 DEF JobInv, JobOK
<1>5. PlanInv' /\ ProposalInv' /\ RecordInv' /\ BranchInv'
  BY <1>2 DEF IInv, PlanInv, ProposalInv, RecordInv, BranchInv
<1> QED BY <1>3, <1>4, <1>5 DEF IInv

LEMMA StepInv == IInv /\ [Next]_vars => IInv'
<1> SUFFICES ASSUME IInv, [Next]_vars PROVE IInv'
  OBVIOUS
<1>1. CASE UNCHANGED vars
  BY <1>1 DEF vars, branch, records, history, IInv, TypeOK, JobInv, JobOK,
              PlanInv, ProposalInv, RecordInv, BranchInv
<1>2. CASE Next
  BY <1>2, ImageAssumption, EditBranchInv, JobStepsInv, ApplyInv, VerifyProdInv, WriteCommentInv,
     WriteCheckInv, MarkNotifiedInv, ReportFailsInv, ProposalStepsInv, EventInv,
     ExpireInv, MergeInv, StartInv
     DEF Next
<1> QED BY <1>1, <1>2

LEMMA Invariance == Spec => []IInv
BY InitInv, StepInv, PTL DEF Spec

(***************************************************************************)
(* Theorems                                                                *)
(***************************************************************************)
\* Delivery keeps its types.
THEOREM TypeCorrect == Spec => []TypeOK
<1>1. IInv => TypeOK
  BY DEF IInv
<1> QED BY <1>1, Invariance, PTL

\* However often jobs are repeated, lost or superseded, what a rollback
\* deploys is the image of a release that was verified in Prod.
THEOREM RollbackTargetsVerified == Spec => []RollsBackToVerified
<1>1. IInv => RollsBackToVerified
  <2> SUFFICES ASSUME IInv, applied # 0, plan[applied].kind = "rollback"
               PROVE  /\ plan[applied].origin \in seen
                      /\ plan[applied].image = plan[plan[applied].origin].image
    BY DEF RollsBackToVerified
  <2>1. applied \in Release /\ applied <= merged
    BY BoundAssumption DEF IInv, TypeOK, RecordInv, Release
  <2> QED BY <2>1 DEF IInv, PlanInv
<1> QED BY <1>1, Invariance, PTL

\* Whatever Dev does between a proposal and its delivery, Prod gets no image
\* Dev has not served.
THEOREM ProdOnlyFromDev == Spec => []ProdFromDev
<1>1. IInv => ProdFromDev
  BY DEF IInv, RecordInv, ProdFromDev
<1> QED BY <1>1, Invariance, PTL

\* A job that was admitted again deploys nothing that was put on the default
\* branch earlier than what was deployed before it.
THEOREM NeverTakenBack == Spec => NeverBack
<1>1. IInv /\ [Next]_vars => [deployed' >= deployed]_deployed
  <2> SUFFICES ASSUME IInv, [Next]_vars, deployed' # deployed
               PROVE  deployed' >= deployed
    OBVIOUS
  <2>1. Apply
    BY DEF Next, vars, branch, records, history, JobOnly, MergeDev, EditBranch,
           Emergency, RollOutDev, Expire, BeginCheck, Inspect, Prepare,
           PrepareRollback, Push, Merge, Close, Start, Admit, RefuseAdmission,
           VerifyDev, Preflight, Precheck, ApplyFails, VerifyProd, WriteComment,
           WriteCheck, Notify, MarkNotified, ReportFails, LoseRunner
  <2> QED BY <2>1 DEF Apply, At, IInv, JobInv, JobOK
<1> QED BY <1>1, Invariance, PTL DEF Spec, NeverBack

\* A result that was marked as notified is not sent again by any later job
\* of the release.
THEOREM MarkedNotSentAgain == Spec => MarkedIsSilent
<1> DEFINE Silent == job # None /\ job' # None =>
                       ~ (job.step = "notify" /\ job'.step = "mark"
                            /\ job.state \in marked[job.release])
<1>1. IInv => (job # None /\ job.step = "notify" => job.state \notin marked[job.release])
  <2> SUFFICES ASSUME IInv, job # None, job.step = "notify"
               PROVE  job.state \notin marked[job.release]
    OBVIOUS
  <2>1. job.state \notin marks[job.release] /\ job.release \in Release
    BY DEF IInv, JobInv, JobOK, Job
  <2> QED BY <2>1 DEF IInv, RecordInv
<1>2. IInv /\ [Next]_vars => [Silent]_job
  BY <1>1
<1> QED BY <1>2, Invariance, PTL DEF Spec, MarkedIsSilent
=============================================================================

------------------------- MODULE GpuExclusion_proofs -------------------------
(***************************************************************************)
(* Type correctness of JobService, and for every set of services, roots    *)
(* and jobs: the lease covers every child on the GPU, but the child of a   *)
(* job whose submission gave it up; LeaseCoversChild and GpuExclusive when *)
(* no submission does.                                                     *)
(*                                                                         *)
(* None of them is inductive.  IInv adds what the program points of the    *)
(* submitter, the worker and the canceller of a job say about its child,   *)
(* its permit, its record, the lease and the lock: the lease is bound      *)
(* before the permit is written, whoever clears or reclaims it, a failed   *)
(* handoff apart, first sees the child group gone, and all of this happens *)
(* under the lock.                                                         *)
(***************************************************************************)
EXTENDS JobService, TLAPS

------------------------------------------------------------------------------
(* Types: RecordStep treats the two record variables on their own, so that the leaves of
   StepType need not open the set of records. *)

\* An absent record and the record submit() writes are records.
LEMMA RecordTypes ==
    /\ NoRecord \in Records
    /\ \A s \in Service \cup {None} : QueuedRecord(s) \in Records
  BY DEF Records, NoRecord, QueuedRecord, States, Codes, ActiveStates

\* A record whose submission gave it up is a record.
LEMMA FailedType == \A r \in Records : [r EXCEPT !.state = "failed"] \in Records
  BY DEF Records, States, TerminalStates

\* The initial state has its types.
LEMMA InitType == Init => TypeOK
  BY ConstantsAssumption, RecordTypes DEF Init, TypeOK, NoLease, Codes, WorkerPoints

\* Reconciling any set of records leaves records.
LEMMA ReconciledType ==
    ASSUME rec \in [Job -> Records], NEW K \in SUBSET Job, NEW ok \in [K -> BOOLEAN]
    PROVE  ReconciledRecords(K, ok) \in [Job -> Records]
  BY DEF ReconciledRecords, Reconciled, Records, States, ActiveStates, TerminalStates

\* Every record a step writes is a record; the steps that write none keep them.
LEMMA RecordStep ==
    ASSUME rec \in [Job -> Records], snap \in [Job -> Records],
           code \in [Job -> Codes], Next
    PROVE  rec' \in [Job -> Records] /\ snap' \in [Job -> Records]
<1> USE RecordTypes
<1>1. ASSUME NEW s \in Service, ServiceStep(s)
      PROVE  rec' \in [Job -> Records] /\ snap' \in [Job -> Records]
  <2>1. CASE Start(s)
    <3>1. Reconcilable(s) \in SUBSET Job
      BY DEF Reconcilable
    <3>2. QED
      BY <2>1, <3>1, ReconciledType DEF Start, callers
  <2>2. CASE Crash(s)
    BY <2>2 DEF Crash, ProcessDies
  <2>3. CASE Admission(s)
    <3>1. Reconcilable(s) \in SUBSET Job
      BY DEF Reconcilable
    <3>2. PICK K \in SUBSET Reconcilable(s) :
             \E ok \in [K -> BOOLEAN] : rec' = ReconciledRecords(K, ok)
      BY <2>3 DEF Admission
    <3>3. PICK ok \in [K -> BOOLEAN] : rec' = ReconciledRecords(K, ok)
      BY <3>2
    <3>4. K \in SUBSET Job
      BY <3>1
    <3>5. rec' \in [Job -> Records]
      BY <3>3, <3>4, ReconciledType
    <3>6. QED
      BY <2>3, <3>5 DEF Admission, callers
  <2>4. ASSUME NEW j \in Job, Reconcile(s, j)
        PROVE  rec' \in [Job -> Records] /\ snap' \in [Job -> Records]
    <3>1. ASSUME NEW ok \in BOOLEAN PROVE Reconciled(j, ok) \in Records
      BY DEF Reconciled, Records, States, TerminalStates
    <3>2. QED
      BY <2>4, <3>1 DEF Reconcile, callers
  <2>5. ASSUME NEW j \in Job, ReconcileCrash(s, j)
        PROVE  rec' \in [Job -> Records] /\ snap' \in [Job -> Records]
    BY <2>5 DEF ReconcileCrash, ProcessDies
  <2>6. ASSUME NEW j \in Job, SubmitRecord(s, j)
        PROVE  rec' \in [Job -> Records] /\ snap' \in [Job -> Records]
    <3>1. Reconcilable(s) \in SUBSET Job
      BY DEF Reconcilable
    <3>2. QED
      BY <2>6, <3>1, ReconciledType DEF SubmitRecord
  <2>7. QED
    BY <1>1, <2>1, <2>2, <2>3, <2>4, <2>5, <2>6 DEF ServiceStep, Poll
<1>2. ASSUME NEW j \in Job, JobStep(j)
      PROVE  rec' \in [Job -> Records] /\ snap' \in [Job -> Records]
  <2>1. CASE CallerStep(j)
    <3>1. CASE SubmitLease(j)
      BY <3>1 DEF SubmitLease, callers
    <3>2. CASE SubmitStart(j)
      BY <3>2 DEF SubmitStart, callers
    <3>3. CASE HandoffDone(j)
      BY <3>3 DEF HandoffDone
    <3>4. CASE HandoffSnapshot(j)
      <4>1. QueuedRecord(rec[j].owner) \in Records
        BY DEF Records
      <4>2. QED
        BY <3>4, <4>1 DEF HandoffSnapshot
    <3>5. CASE HandoffFail(j)
      <4>1. [snap[j] EXCEPT !.state = "failed"] \in Records
        BY FailedType
      <4>2. QED
        BY <3>5, <4>1 DEF HandoffFail, FailedSubmission
    <3>6. CASE CancelTerminate(j)
      <4>1. code'[j] \in Codes
        BY <3>6 DEF CancelTerminate, Killed, Codes
      <4>2. [rec[j] EXCEPT !.state = "cancelled", !.code = code'[j], !.finished = TRUE]
               \in Records
        BY <4>1 DEF Records, States, TerminalStates
      <4>3. QED
        BY <3>6, <4>2 DEF CancelTerminate
    <3>7. CASE CancelTerminateFail(j)
      BY <3>7 DEF CancelTerminateFail, callers
    <3>8. CASE CancelClear(j)
      BY <3>8 DEF CancelClear, callers
    <3>9. QED
      BY <2>1, <3>1, <3>2, <3>3, <3>4, <3>5, <3>6, <3>7, <3>8 DEF CallerStep
  <2>2. CASE SubmitFail(j)
    <3>1. [rec[j] EXCEPT !.state = "failed"] \in Records
      BY FailedType
    <3>2. QED
      BY <2>2, <3>1 DEF SubmitFail, FailedSubmission
  <2>3. CASE CancelRequest(j)
    <3> DEFINE dead == owned[j] = "process" /\ ~ProcessTreeAlive(j)
    <3>1. rec[j].finished \/ dead \in BOOLEAN
      BY DEF Records
    <3>2. [rec[j] EXCEPT !.state = "cancelling", !.finished = rec[j].finished \/ dead]
             \in Records
      BY <3>1 DEF Records, States, ActiveStates
    <3>3. QED
      BY <2>3, <3>2 DEF CancelRequest
  <2>4. CASE LaunchStep(j)
    <3>1. CASE RunBegin(j)
      <4>1. [rec[j] EXCEPT !.state = "cancelled"] \in Records
        BY DEF Records, States, TerminalStates
      <4>2. QED
        BY <3>1, <4>1 DEF RunBegin, callers
    <3>2. CASE RunSpawn(j)
      BY <3>2 DEF RunSpawn, callers
    <3>3. CASE RunSpawnFail(j)
      BY <3>3 DEF RunSpawnFail, callers
    <3>4. CASE RunRegister(j)
      <4>1. RegisteredState(j) \in States
        BY DEF RegisteredState, Records, States, ActiveStates
      <4>2. [rec[j] EXCEPT !.launched = TRUE, !.state = RegisteredState(j)] \in Records
        BY <4>1 DEF Records
      <4>3. QED
        BY <3>4, <4>2 DEF RunRegister, callers
    <3>5. CASE RunBind(j)
      BY <3>5 DEF RunBind, callers
    <3>6. CASE RunPermit(j)
      BY <3>6 DEF RunPermit, callers
    <3>7. CASE RunPermitFail(j)
      BY <3>7 DEF RunPermitFail, callers
    <3>8. QED
      BY <2>4, <3>1, <3>2, <3>3, <3>4, <3>5, <3>6, <3>7 DEF LaunchStep
  <2>5. CASE CompletionStep(j)
    <3>1. CASE RunStop(j)
      BY <3>1 DEF RunStop, callers
    <3>2. CASE RunStopFail(j)
      BY <3>2 DEF RunStopFail, callers
    <3>3. CASE RunWait(j)
      BY <3>3 DEF RunWait, callers
    <3>4. CASE RunFinish(j)
      <4>1. [rec[j] EXCEPT !.finished = TRUE, !.code = code[j]] \in Records
        BY DEF Records
      <4>2. QED
        BY <3>4, <4>1 DEF RunFinish, callers
    <3>5. CASE RunTree(j)
      BY <3>5 DEF RunTree, callers
    <3>6. CASE RunAuthorize(j)
      <4>1. [rec[j] EXCEPT !.verifying = TRUE, !.code = code[j]] \in Records
        BY DEF Records
      <4>2. QED
        BY <3>6, <4>1 DEF RunAuthorize, callers
    <3>7. CASE RunVerify(j)
      BY <3>7 DEF RunVerify, callers
    <3>8. CASE RunPend(j)
      <4>1. [rec[j] EXCEPT !.evidence = TRUE] \in Records
        BY DEF Records
      <4>2. QED
        BY <3>8, <4>1 DEF RunPend, callers
    <3>9. CASE RunPromote(j)
      BY <3>9 DEF RunPromote, callers
    <3>10. CASE RunFinal(j)
      <4>1. FinalState(j) \in States
        BY DEF FinalState, States, TerminalStates
      <4>2. FinalRecord(j) \in Records
        BY <4>1 DEF FinalRecord, Records
      <4>3. QED
        BY <3>10, <4>2 DEF RunFinal, callers
    <3>11. CASE RunClear(j)
      BY <3>11 DEF RunClear, callers
    <3>12. CASE RunExit(j)
      BY <3>12 DEF RunExit, callers
    <3>13. QED
      BY <2>5, <3>1, <3>2, <3>3, <3>4, <3>5, <3>6, <3>7, <3>8, <3>9, <3>10, <3>11, <3>12
         DEF CompletionStep
  <2>6. CASE ExceptStep(j)
    <3>1. CASE ExceptStop(j)
      BY <3>1 DEF ExceptStop, callers
    <3>2. CASE ExceptSettle(j)
      BY <3>2 DEF ExceptSettle, callers
    <3>3. CASE ExceptPersist(j)
      <4> DEFINE spawned == stage[j] # "none"
      <4>1. rec[j].launched \in BOOLEAN /\ rec[j].finished \in BOOLEAN
        BY DEF Records
      <4>2. [rec[j] EXCEPT !.state = "failed", !.launched = rec[j].launched \/ spawned,
                           !.finished = rec[j].finished \/ spawned] \in Records
        BY <4>1 DEF Records, States, TerminalStates
      <4>3. QED
        BY <3>3, <4>2 DEF ExceptPersist, callers
    <3>4. CASE ExceptSurvivor(j)
      <4>1. [rec[j] EXCEPT !.state = "cancelling"] \in Records
        BY DEF Records, States, ActiveStates
      <4>2. QED
        BY <3>4, <4>1 DEF ExceptSurvivor, callers
    <3>5. QED
      BY <2>6, <3>1, <3>2, <3>3, <3>4 DEF ExceptStep
  <2>7. CASE ChildStep(j)
    BY <2>7 DEF ChildStep, ChildExec, ChildGivesUp, ChildExit, DescendantsExit, callers
  <2>8. QED
    BY <1>2, <2>1, <2>2, <2>3, <2>4, <2>5, <2>6, <2>7 DEF JobStep, WorkerStep
<1>3. QED
  BY <1>1, <1>2 DEF Next

\* Every step keeps the types, one case per action.
LEMMA StepType == TypeOK /\ [Next]_vars => TypeOK'
<1> SUFFICES ASSUME TypeOK, [Next]_vars PROVE TypeOK'
  OBVIOUS
<1> USE ConstantsAssumption
<1> USE DEF TypeOK, hosts, children, callers, worker, locks, ClearedLease, NoLease
<1>1. CASE UNCHANGED vars
  BY <1>1 DEF vars
<1>2. CASE Next
  <2>1. rec' \in [Job -> Records] /\ snap' \in [Job -> Records]
    BY <1>2, RecordStep
  <2>2. ASSUME NEW s \in Service, ServiceStep(s) PROVE TypeOK'
    <3>1. CASE Start(s)
      BY <3>1, <2>1 DEF Start, ReconcilePromotions, Reconcilable
    <3>2. CASE Crash(s)
      BY <3>2, <2>1 DEF Crash, ProcessDies, WorkerPoints
    <3>3. CASE Admission(s)
      BY <3>3, <2>1 DEF Admission, ReconcilePromotions, Reconcilable
    <3>4. ASSUME NEW j \in Job, Reconcile(s, j) PROVE TypeOK'
      BY <3>4, <2>1 DEF Reconcile, ReconcilePromotions
    <3>5. ASSUME NEW j \in Job, ReconcileCrash(s, j) PROVE TypeOK'
      BY <3>5, <2>1 DEF ReconcileCrash, ProcessDies, WorkerPoints
    <3>6. ASSUME NEW j \in Job, SubmitRecord(s, j) PROVE TypeOK'
      BY <3>6, <2>1 DEF SubmitRecord, ReconcilePromotions, Reconcilable
    <3>7. QED
      BY <2>2, <3>1, <3>2, <3>3, <3>4, <3>5, <3>6 DEF ServiceStep, Poll
  <2>3. ASSUME NEW j \in Job, JobStep(j) PROVE TypeOK'
    <3>1. CASE CallerStep(j)
      <4>1. CASE SubmitLease(j)
        BY <4>1, <2>1 DEF SubmitLease, Records
      <4>2. CASE SubmitStart(j)
        BY <4>2, <2>1 DEF SubmitStart, WorkerPoints
      <4>3. CASE HandoffDone(j)
        BY <4>3, <2>1 DEF HandoffDone
      <4>4. CASE HandoffSnapshot(j)
        BY <4>4, <2>1 DEF HandoffSnapshot
      <4>5. CASE HandoffFail(j)
        BY <4>5, <2>1 DEF HandoffFail, FailedSubmission
      <4>6. CASE CancelTerminate(j)
        BY <4>6, <2>1 DEF CancelTerminate, Killed, Codes
      <4>7. CASE CancelTerminateFail(j)
        BY <4>7, <2>1 DEF CancelTerminateFail
      <4>8. CASE CancelClear(j)
        BY <4>8, <2>1 DEF CancelClear
      <4>9. QED
        BY <3>1, <4>1, <4>2, <4>3, <4>4, <4>5, <4>6, <4>7, <4>8 DEF CallerStep
    <3>2. CASE SubmitFail(j)
      <4>1. lease' = lease \/ lease' = NoLease
        BY <3>2 DEF SubmitFail, FailedSubmission
      <4>2. lease' \in [id : Job \cup {None}, owner : Service \cup {None},
                        proc : Job \cup {None}]
        BY <4>1
      <4>3. sub' = [sub EXCEPT ![j] = "done"] /\ glock' = None
            /\ slock' = [slock EXCEPT ![rec[j].owner] = None]
        BY <3>2 DEF SubmitFail
      <4>4. UNCHANGED <<live, started, stage, code, permit, wpc, owned, cpc, promoted>>
        BY <3>2 DEF SubmitFail
      <4>5. QED
        BY <4>2, <4>3, <4>4, <2>1
    <3>3. CASE CancelRequest(j)
      BY <3>3, <2>1 DEF CancelRequest
    <3>4. CASE LaunchStep(j)
      <4>1. CASE RunBegin(j)
        BY <4>1, <2>1 DEF RunBegin, Work, WorkerPoints
      <4>2. CASE RunSpawn(j)
        BY <4>2, <2>1 DEF RunSpawn, Work, WorkerPoints
      <4>3. CASE RunSpawnFail(j)
        BY <4>3, <2>1 DEF RunSpawnFail, Work, WorkerPoints
      <4>4. CASE RunRegister(j)
        BY <4>4, <2>1 DEF RunRegister, Work, WorkerPoints
      <4>5. CASE RunBind(j)
        BY <4>5, <2>1 DEF RunBind, Work, WorkerPoints
      <4>6. CASE RunPermit(j)
        BY <4>6, <2>1 DEF RunPermit, Work, WorkerPoints
      <4>7. CASE RunPermitFail(j)
        BY <4>7, <2>1 DEF RunPermitFail, Work, WorkerPoints
      <4>8. QED
        BY <3>4, <4>1, <4>2, <4>3, <4>4, <4>5, <4>6, <4>7 DEF LaunchStep
    <3>5. CASE CompletionStep(j)
      <4>1. CASE RunStop(j)
        BY <4>1, <2>1 DEF RunStop, Work, WorkerPoints, Killed, Codes
      <4>2. CASE RunStopFail(j)
        BY <4>2, <2>1 DEF RunStopFail, Work, WorkerPoints
      <4>3. CASE RunWait(j)
        BY <4>3, <2>1 DEF RunWait, Work, WorkerPoints
      <4>4. CASE RunFinish(j)
        BY <4>4, <2>1 DEF RunFinish, Work, WorkerPoints
      <4>5. CASE RunTree(j)
        BY <4>5, <2>1 DEF RunTree, Work, WorkerPoints
      <4>6. CASE RunAuthorize(j)
        BY <4>6, <2>1 DEF RunAuthorize, Work, WorkerPoints
      <4>7. CASE RunVerify(j)
        BY <4>7, <2>1 DEF RunVerify, Work, WorkerPoints
      <4>8. CASE RunPend(j)
        BY <4>8, <2>1 DEF RunPend, Work, WorkerPoints
      <4>9. CASE RunPromote(j)
        BY <4>9, <2>1 DEF RunPromote, Work, WorkerPoints
      <4>10. CASE RunFinal(j)
        BY <4>10, <2>1 DEF RunFinal, Work, WorkerPoints
      <4>11. CASE RunClear(j)
        BY <4>11, <2>1 DEF RunClear, Work, WorkerPoints
      <4>12. CASE RunExit(j)
        BY <4>12, <2>1 DEF RunExit, Work, WorkerPoints
      <4>13. QED
        BY <3>5, <4>1, <4>2, <4>3, <4>4, <4>5, <4>6, <4>7, <4>8, <4>9, <4>10, <4>11,
           <4>12
           DEF CompletionStep
    <3>6. CASE ExceptStep(j)
      <4>1. CASE ExceptStop(j)
        BY <4>1, <2>1 DEF ExceptStop, Work, WorkerPoints, Killed, Codes
      <4>2. CASE ExceptSettle(j)
        BY <4>2, <2>1 DEF ExceptSettle, Work, WorkerPoints
      <4>3. CASE ExceptPersist(j)
        BY <4>3, <2>1 DEF ExceptPersist, Work, WorkerPoints
      <4>4. CASE ExceptSurvivor(j)
        BY <4>4, <2>1 DEF ExceptSurvivor, Work, WorkerPoints
      <4>5. QED
        BY <3>6, <4>1, <4>2, <4>3, <4>4 DEF ExceptStep
    <3>7. CASE ChildStep(j)
      <4>1. CASE ChildExec(j)
        BY <4>1, <2>1 DEF ChildExec
      <4>2. CASE ChildGivesUp(j)
        BY <4>2, <2>1 DEF ChildGivesUp, Codes
      <4>3. CASE ChildExit(j)
        BY <4>3, <2>1 DEF ChildExit, Codes
      <4>4. CASE DescendantsExit(j)
        BY <4>4, <2>1 DEF DescendantsExit
      <4>5. QED
        BY <3>7, <4>1, <4>2, <4>3, <4>4 DEF ChildStep
    <3>8. QED
      BY <2>3, <3>1, <3>2, <3>3, <3>4, <3>5, <3>6, <3>7 DEF JobStep, WorkerStep
  <2>4. QED
    BY <1>2, <2>2, <2>3 DEF Next
<1>3. QED
  BY <1>1, <1>2

\* The variables, files and records of the model keep their types.
THEOREM TypeCorrect == Spec => []TypeOK
<1>1. Init => TypeOK
  BY InitType
<1>2. TypeOK /\ [Next]_vars => TypeOK'
  BY StepType
<1>3. QED
  BY <1>1, <1>2, PTL DEF Spec

------------------------------------------------------------------------------
(* One GPU child *)

\* The child runs the GPU, or nothing but its own next step keeps it from it.
Hot(j) == OnGpu(j) \/ (stage[j] = "launcher" /\ j \in permit)

Covered(j) == lease.id = j /\ lease.proc = j

WorkerHolds == {"bind", "permit", "clear", "persist"}

\* A call or a worker in progress belongs to a service that lives, and only a
\* submission gives an absent record a state.
LiveInv ==
    \A j \in Job :
        /\ sub[j] \notin {"none", "failed", "done"} => rec[j].owner \in live
        /\ wpc[j] \notin {"none", "done"} => rec[j].owner \in live
        /\ sub[j] = "snapshot" => snap[j].owner = rec[j].owner
        /\ rec[j].state = "absent" => sub[j] = "none" /\ rec[j].owner = None

\* A lock section of a job is named by glock, and only one call is inside.
LockInv ==
    \A j \in Job :
        /\ sub[j] = "recorded" => glock = j
        /\ wpc[j] \in WorkerHolds => glock = j /\ cpc[j] = "none"
        /\ cpc[j] # "none" => glock = j

\* Before the worker exists nothing of the job runs.
SubmitInv ==
    \A j \in Job :
        /\ sub[j] \in {"none", "recorded", "leased"} => wpc[j] = "none" /\ owned[j] = "no"
        /\ sub[j] = "recorded" => lease = NoLease

\* What the worker's program point says about the child and the permit.
ChildInv ==
    \A j \in Job :
        /\ wpc[j] \in {"none", "begin", "spawn"} => stage[j] = "none"
        /\ wpc[j] \in {"none", "begin", "spawn", "register"}
              => cpc[j] = "none" /\ owned[j] # "process"
        /\ wpc[j] \in {"none", "begin", "spawn", "register", "bind", "permit", "stop"}
              => ~Hot(j)
        /\ wpc[j] \in {"authorize", "verify", "reject", "pend", "promote", "final",
                       "clear", "settle", "persist"} => ~ChildLive(j)
        /\ cpc[j] = "clear" => stage[j] = "gone"

\* The lease covers every child that has its permit or is about to get it, unless
\* its submission gave the job up.
CoverInv ==
    \A j \in Job : Hot(j) \/ wpc[j] = "permit" => Covered(j) \/ sub[j] = "failed"

\* What the maps of the service say about the child.
MapInv ==
    \A j \in Job :
        /\ owned[j] = "thread" => ~Hot(j)
        /\ owned[j] = "process" \/ wpc[j] = "register" => stage[j] # "none"
        /\ wpc[j] \in {"bind", "permit", "stop", "wait"} => owned[j] = "process"
        /\ wpc[j] \in {"finish", "tree", "authorize", "verify", "reject", "pend",
                       "promote", "final"} => stage[j] \in {"descendants", "gone"}

\* What a record, or the copy a failed handoff keeps of it, says about the child.
RecordInv ==
    \A j \in Job :
        /\ wpc[j] = "permit" => rec[j].state \notin CancelStates
        /\ rec[j].verifying \/ snap[j].verifying => stage[j] = "gone"

\* A submission whose end may fail is given up only where the files may fail.
FaultInv ==
    \A j \in Job : sub[j] \in {"handoff", "snapshot", "failed"} => SubmitFaults

\* The inductive invariant: all of these together.
IInv ==
    /\ TypeOK /\ LiveInv /\ LockInv /\ SubmitInv
    /\ ChildInv /\ CoverInv /\ MapInv /\ RecordInv /\ FaultInv

------------------------------------------------------------------------------
(* Records *)

\* Reconciliation settles an active record whose owner is gone and keeps its owner
\* and its evidence.
SettledBy(k, r) ==
    /\ r.owner = rec[k].owner /\ r.verifying = rec[k].verifying
    /\ \/ r.state = rec[k].state
       \/ rec[k].owner \notin live /\ rec[k].state \in ActiveStates
          /\ r.state \in {"completed", "failed"}

\* A submission of s writes the record of k for the first time.
Submitted(s, k) ==
    /\ rec[k].state = "absent" /\ rec'[k].state = "queued"
    /\ rec'[k].owner = s /\ ~rec'[k].verifying
    /\ sub'[k] = "recorded" /\ s \in live'

\* Reconciliation settles orphaned records and touches nothing else of any record.
LEMMA ReconciledFields ==
    ASSUME rec \in [Job -> Records], NEW s \in Service, NEW K \in SUBSET Reconcilable(s),
           NEW ok \in [K -> BOOLEAN], NEW k \in Job
    PROVE  SettledBy(k, ReconciledRecords(K, ok)[k])
  BY DEF Reconcilable, ReconciledRecords, Reconciled, SettledBy, Records

\* The death of a service ends the calls and workers of its jobs and no other.
LEMMA Death ==
    ASSUME NEW s \in Service, ProcessDies(s), NEW k \in Job
    PROVE  /\ rec' = rec /\ live' = live \ {s}
           /\ rec[k].owner = s =>
                 /\ sub'[k] = (IF sub[k] = "failed" THEN "failed" ELSE "done")
                 /\ wpc'[k] = "done" /\ cpc'[k] = "none"
                 /\ owned'[k] = "no" /\ snap'[k] = NoRecord
           /\ rec[k].owner # s =>
                 /\ sub'[k] = sub[k] /\ wpc'[k] = wpc[k] /\ cpc'[k] = cpc[k]
                 /\ owned'[k] = owned[k] /\ snap'[k] = snap[k]
  BY DEF ProcessDies

\* What the steps of a service do to a record.
LEMMA ServiceRecords ==
    ASSUME TypeOK, NEW s \in Service, ServiceStep(s), NEW k \in Job
    PROVE  \/ SettledBy(k, rec'[k])
           \/ Submitted(s, k)
<1>0. rec \in [Job -> Records]
  BY DEF TypeOK
<1> USE <1>0
<1>1. CASE Start(s)
  <2>1. PICK ok \in [Reconcilable(s) -> BOOLEAN] :
           rec' = ReconciledRecords(Reconcilable(s), ok)
    BY <1>1 DEF Start
  <2>2. QED
    BY <2>1, ReconciledFields
<1>2. CASE Admission(s)
  <2>1. PICK K \in SUBSET Reconcilable(s) :
           \E ok \in [K -> BOOLEAN] : rec' = ReconciledRecords(K, ok)
    BY <1>2 DEF Admission
  <2>2. QED
    BY <2>1, ReconciledFields
<1>3. ASSUME NEW j \in Job, SubmitRecord(s, j)
      PROVE  \/ SettledBy(k, rec'[k])
             \/ Submitted(s, k)
  <2>1. PICK ok \in [Reconcilable(s) -> BOOLEAN] :
           rec' = [ReconciledRecords(Reconcilable(s), ok) EXCEPT ![j] = QueuedRecord(s)]
    BY <1>3 DEF SubmitRecord
  <2>2. CASE k = j
    <3>1. rec'[j] = QueuedRecord(s)
      BY <2>1 DEF ReconciledRecords
    <3>2. rec'[j].state = "queued" /\ rec'[j].owner = s /\ ~rec'[j].verifying
      BY <3>1 DEF QueuedRecord, NoRecord
    <3>3. sub'[j] = "recorded" /\ s \in live' /\ rec[j].state = "absent"
      BY <1>3 DEF SubmitRecord, CanLock, TypeOK, hosts
    <3>4. QED
      BY <2>2, <3>2, <3>3 DEF Submitted
  <2>3. CASE k # j
    <3>1. rec'[k] = ReconciledRecords(Reconcilable(s), ok)[k]
      BY <2>1, <2>3 DEF ReconciledRecords
    <3>2. QED
      BY <3>1, ReconciledFields
  <2>4. QED
    BY <2>2, <2>3
<1>4. ASSUME NEW j \in Job, Reconcile(s, j) PROVE SettledBy(k, rec'[k])
  BY <1>4 DEF Reconcile, Reconcilable, Reconciled, SettledBy, Records
<1>5. CASE rec' = rec
  BY <1>5 DEF SettledBy
<1>6. QED
  BY <1>1, <1>2, <1>3, <1>4, <1>5
     DEF ServiceStep, Poll, Crash, ReconcileCrash, ProcessDies

\* What the steps of a job do to its record.
LEMMA JobRecords ==
    ASSUME TypeOK, LiveInv, NEW j \in Job, JobStep(j)
    PROVE  /\ \A k \in Job \ {j} : rec'[k] = rec[k]
           /\ rec'[j].owner = rec[j].owner
           /\ rec'[j].state = "absent" => rec[j].state = "absent"
           /\ rec'[j].verifying => \/ rec[j].verifying \/ snap[j].verifying
                                   \/ wpc[j] = "authorize"
           /\ rec'[j].state \in CancelStates =>
                 \/ rec[j].state \in CancelStates \/ glock = None
                 \/ cpc[j] = "terminate" \/ wpc[j] = "survivor"
<1> USE DEF TypeOK, LiveInv, Records, hosts, children, callers, worker, locks
<1>1. CASE RunBegin(j)
  <2>1. CASE rec' = rec
    BY <2>1
  <2>2. CASE rec' = [rec EXCEPT ![j].state = "cancelled"]
    BY <1>1, <2>2 DEF RunBegin, WorkerLocks, CanLock
  <2>3. QED
    BY <1>1, <2>1, <2>2 DEF RunBegin
<1>2. CASE RunRegister(j)
  BY <1>2 DEF RunRegister, Work, RegisteredState, CancelStates
<1>3. CASE RunSpawn(j) \/ RunSpawnFail(j) \/ RunBind(j) \/ RunPermit(j)
           \/ RunPermitFail(j)
  BY <1>3 DEF RunSpawn, Work, RunSpawnFail, RunBind, RunPermit, RunPermitFail
<1>4. CASE RunFinish(j)
  BY <1>4 DEF RunFinish, Work
<1>5. CASE RunAuthorize(j)
  <2>1. CASE rec' = rec
    BY <2>1
  <2>2. CASE rec' = [rec EXCEPT ![j] = [rec[j] EXCEPT !.verifying = TRUE, !.code = code[j]]]
    BY <1>5, <2>2 DEF RunAuthorize, Work
  <2>3. QED
    BY <1>5, <2>1, <2>2 DEF RunAuthorize
<1>6. CASE RunPend(j)
  BY <1>6 DEF RunPend, Work
<1>7. CASE RunFinal(j)
  BY <1>7
     DEF RunFinal, Work, FinalRecord, FinalState, TerminalStates, WorkerLocks, CanLock
<1>8. CASE RunStop(j) \/ RunStopFail(j) \/ RunWait(j) \/ RunTree(j)
           \/ RunVerify(j) \/ RunPromote(j) \/ RunClear(j) \/ RunExit(j)
  BY <1>8
     DEF RunStop, Killed, Work, RunStopFail, RunWait, RunTree, RunVerify, RunPromote,
         RunClear, RunExit
<1>9. CASE ExceptPersist(j)
  BY <1>9 DEF ExceptPersist, Work, CancelStates
<1>10. CASE ExceptSurvivor(j)
  <2>1. CASE rec' = rec
    BY <2>1
  <2>2. CASE rec' = [rec EXCEPT ![j].state = "cancelling"]
    BY <1>10, <2>2 DEF ExceptSurvivor, Work
  <2>3. QED
    BY <1>10, <2>1, <2>2 DEF ExceptSurvivor
<1>11. CASE ExceptStop(j) \/ ExceptSettle(j)
  BY <1>11 DEF ExceptStop, Killed, Work, ExceptSettle
<1>12. CASE HandoffFail(j)
  <2>1. CASE rec' = rec
    BY <2>1
  <2>2. CASE rec' = [rec EXCEPT ![j] = [snap[j] EXCEPT !.state = "failed"]]
    BY <1>12, <2>2 DEF HandoffFail, CancelStates
  <2>3. QED
    BY <1>12, <2>1, <2>2 DEF HandoffFail, FailedSubmission
<1>13. CASE CancelTerminate(j)
  BY <1>13 DEF CancelTerminate, Killed
<1>14. CASE SubmitLease(j) \/ SubmitStart(j) \/ HandoffDone(j)
            \/ HandoffSnapshot(j) \/ CancelTerminateFail(j) \/ CancelClear(j)
  BY <1>14
     DEF SubmitLease, SubmitStart, HandoffDone, HandoffSnapshot, CancelTerminateFail,
         CancelClear
<1>15. CASE ChildExec(j) \/ ChildGivesUp(j) \/ ChildExit(j)
            \/ DescendantsExit(j)
  BY <1>15 DEF ChildExec, ChildGivesUp, ChildExit, DescendantsExit
<1>16. CASE SubmitFail(j)
  BY <1>16 DEF SubmitFail, FailedSubmission, CancelStates
<1>17. CASE CancelRequest(j)
  BY <1>17 DEF CancelRequest, CanLock
<1>18. QED
  BY <1>1, <1>2, <1>3, <1>4, <1>5, <1>6, <1>7, <1>8, <1>9, <1>10, <1>11, <1>12, <1>13,
     <1>14, <1>15, <1>16, <1>17
     DEF JobStep, WorkerStep, CallerStep, LaunchStep, CompletionStep, ExceptStep,
         ChildStep

------------------------------------------------------------------------------
(* Every step keeps the invariant *)

\* A step keeps LiveInv: records keep their owners, a submission gives the record its
\* owner, and the death of a service ends what it was doing.
LEMMA LiveStep == ASSUME IInv, Next PROVE LiveInv'
<1>0. TypeOK /\ LiveInv /\ LockInv /\ SubmitInv
  BY DEF IInv
<1>1. ASSUME NEW s \in Service, ServiceStep(s) PROVE LiveInv'
  <2>0. \A k \in Job : SettledBy(k, rec'[k]) \/ Submitted(s, k)
    BY <1>0, <1>1, ServiceRecords
  <2> USE ConstantsAssumption
          DEF TypeOK, LiveInv, SettledBy, Submitted, NoRecord, hosts, callers, worker,
              locks
  <2>1. CASE Start(s)
    BY <2>1, <2>0, <1>0 DEF Start
  <2>2. CASE Crash(s)
    <3>1. ProcessDies(s)
      BY <2>2 DEF Crash
    <3>2. rec' = rec /\ live' = live \ {s}
      BY <3>1 DEF ProcessDies
    <3>3. \A k \in Job :
             /\ rec[k].owner = s => sub'[k] \in {"failed", "done"} /\ wpc'[k] = "done"
             /\ rec[k].owner # s => /\ sub'[k] = sub[k] /\ wpc'[k] = wpc[k]
                                    /\ snap'[k] = snap[k]
      BY <3>1, Death
    <3>4. QED
      BY <3>2, <3>3, <1>0
  <2>3. CASE Admission(s)
    BY <2>3, <2>0, <1>0 DEF Admission
  <2>4. ASSUME NEW j \in Job, Reconcile(s, j) PROVE LiveInv'
    BY <2>4, <2>0, <1>0 DEF Reconcile
  <2>5. ASSUME NEW j \in Job, ReconcileCrash(s, j) PROVE LiveInv'
    <3>1. ProcessDies(s)
      BY <2>5 DEF ReconcileCrash
    <3>2. rec' = rec /\ live' = live \ {s}
      BY <3>1 DEF ProcessDies
    <3>3. \A k \in Job :
             /\ rec[k].owner = s => sub'[k] \in {"failed", "done"} /\ wpc'[k] = "done"
             /\ rec[k].owner # s => /\ sub'[k] = sub[k] /\ wpc'[k] = wpc[k]
                                    /\ snap'[k] = snap[k]
      BY <3>1, Death
    <3>4. QED
      BY <3>2, <3>3, <1>0
  <2>6. ASSUME NEW j \in Job, SubmitRecord(s, j) PROVE LiveInv'
    <3>1. rec'[j] = QueuedRecord(s)
      BY <2>6, <1>0 DEF SubmitRecord, ReconciledRecords
    <3>2. \A k \in Job \ {j} : /\ sub'[k] = sub[k] /\ wpc'[k] = wpc[k]
                               /\ snap'[k] = snap[k]
      BY <2>6, <1>0 DEF SubmitRecord
    <3>3. wpc'[j] = "none" /\ s \in live'
      BY <2>6, <1>0 DEF SubmitRecord, CanLock, SubmitInv
    <3>4. rec'[j].owner = s /\ rec'[j].state = "queued"
      BY <3>1 DEF QueuedRecord
    <3>5. sub'[j] = "recorded"
      BY <2>6, <1>0 DEF SubmitRecord
    <3>6. live' = live
      BY <2>6 DEF SubmitRecord
    <3>7. QED
      BY <3>2, <3>3, <3>4, <3>5, <3>6, <2>0, <1>0
  <2>7. QED
    BY <1>1, <2>1, <2>2, <2>3, <2>4, <2>5, <2>6 DEF ServiceStep, Poll
<1>2. ASSUME NEW j \in Job, JobStep(j) PROVE LiveInv'
  <2>0. /\ \A k \in Job \ {j} : rec'[k] = rec[k]
        /\ rec'[j].owner = rec[j].owner
        /\ rec'[j].state = "absent" => rec[j].state = "absent"
    BY <1>0, <1>2, JobRecords
  <2> USE ConstantsAssumption
          DEF TypeOK, LiveInv, SubmitInv, hosts, callers, worker, locks
  <2>1. CASE RunBegin(j) \/ RunSpawn(j) \/ RunSpawnFail(j) \/ RunRegister(j)
             \/ RunBind(j) \/ RunPermit(j) \/ RunPermitFail(j)
    BY <2>1, <2>0, <1>0
       DEF RunBegin, Work, RunSpawn, RunSpawnFail, RunRegister, RunBind, RunPermit,
           RunPermitFail
  <2>2. CASE RunStop(j) \/ RunStopFail(j) \/ RunWait(j) \/ RunFinish(j)
             \/ RunTree(j) \/ RunAuthorize(j) \/ RunVerify(j) \/ RunPend(j)
             \/ RunPromote(j) \/ RunFinal(j) \/ RunClear(j) \/ RunExit(j)
    BY <2>2, <2>0, <1>0
       DEF RunStop, Killed, Work, RunStopFail, RunWait, RunFinish, RunTree,
           RunAuthorize, RunVerify, RunPend, RunPromote, RunFinal, RunClear, RunExit
  <2>3. CASE ExceptStop(j) \/ ExceptSettle(j) \/ ExceptPersist(j)
             \/ ExceptSurvivor(j)
    BY <2>3, <2>0, <1>0
       DEF ExceptStop, Killed, Work, ExceptSettle, ExceptPersist, ExceptSurvivor
  <2>4. CASE SubmitLease(j) \/ SubmitStart(j) \/ HandoffDone(j)
             \/ HandoffFail(j) \/ CancelTerminate(j) \/ CancelTerminateFail(j)
             \/ CancelClear(j)
    BY <2>4, <2>0, <1>0
       DEF SubmitLease, SubmitStart, HandoffDone, HandoffFail, CancelTerminate, Killed,
           CancelTerminateFail, CancelClear
  <2>8. CASE HandoffSnapshot(j)
    <3>1. /\ rec' = rec /\ live' = live /\ wpc' = wpc
          /\ \/ sub'[j] = "done"
             \/ sub'[j] = "snapshot" /\ snap'[j].owner = rec[j].owner
          /\ \A k \in Job \ {j} : sub'[k] = sub[k] /\ snap'[k] = snap[k]
      <4>1. PICK read \in {rec[j], QueuedRecord(rec[j].owner)} :
               IF read.state \in TerminalStates
               THEN sub' = [sub EXCEPT ![j] = "done"] /\ UNCHANGED snap
               ELSE /\ sub' = [sub EXCEPT ![j] = "snapshot"]
                    /\ snap' = [snap EXCEPT ![j] = read]
        BY <2>8 DEF HandoffSnapshot
      <4>2. read.owner = rec[j].owner
        BY DEF QueuedRecord, NoRecord
      <4>3. rec' = rec /\ live' = live /\ wpc' = wpc
        BY <2>8 DEF HandoffSnapshot
      <4>4. QED
        BY <4>1, <4>2, <4>3, <1>0
    <3>2. sub[j] = "handoff"
      BY <2>8 DEF HandoffSnapshot
    <3>3. rec[j].owner \in live /\ rec[j].state # "absent"
      BY <3>2, <1>0
    <3>4. \A k \in Job : k = j \/ (sub'[k] = sub[k] /\ snap'[k] = snap[k])
      BY <3>1
    <3>5. ASSUME NEW k \in Job
          PROVE  /\ sub'[k] \notin {"none", "failed", "done"} => rec[k].owner \in live
                 /\ sub'[k] = "snapshot" => snap'[k].owner = rec[k].owner
                 /\ rec[k].state = "absent" => sub'[k] = "none" /\ rec[k].owner = None
      <4>1. CASE k = j
        BY <4>1, <3>1, <3>3
      <4>2. CASE k # j
        BY <4>2, <3>4, <1>0
      <4>3. QED
        BY <4>1, <4>2
    <3>6. QED
      BY <3>1, <3>5, <1>0
  <2>5. CASE ChildExec(j) \/ ChildGivesUp(j) \/ ChildExit(j)
             \/ DescendantsExit(j)
    BY <2>5, <2>0, <1>0 DEF ChildExec, ChildGivesUp, ChildExit, DescendantsExit
  <2>6. CASE SubmitFail(j) \/ CancelRequest(j)
    BY <2>6, <2>0, <1>0 DEF SubmitFail, FailedSubmission, CancelRequest
  <2>7. QED
    BY <2>1, <2>2, <2>3, <2>4, <2>5, <2>6, <2>8, <1>2
       DEF JobStep, WorkerStep, CallerStep, LaunchStep, CompletionStep, ExceptStep,
           ChildStep
<1>3. QED
  BY <1>1, <1>2 DEF Next

\* A step keeps LockInv: a section begins only when glock is free.
LEMMA LockStep == ASSUME IInv, Next PROVE LockInv'
<1> USE ConstantsAssumption
        DEF TypeOK, LiveInv, LockInv, SubmitInv, ChildInv, WorkerHolds, hosts, children,
            callers, worker, locks
<1>0. TypeOK /\ LiveInv /\ LockInv /\ SubmitInv /\ ChildInv
  BY DEF IInv
<1>1. ASSUME NEW s \in Service, ServiceStep(s) PROVE LockInv'
  <2>1. CASE Start(s)
    BY <2>1, <1>0 DEF Start
  <2>2. CASE Crash(s)
    BY <2>2, <1>0 DEF Crash, ProcessDies
  <2>3. CASE Admission(s)
    BY <2>3, <1>0 DEF Admission, CanLock, WorkerLocks
  <2>4. ASSUME NEW j \in Job, Reconcile(s, j) PROVE LockInv'
    BY <2>4, <1>0 DEF Reconcile
  <2>5. ASSUME NEW j \in Job, ReconcileCrash(s, j) PROVE LockInv'
    BY <2>5, <1>0 DEF ReconcileCrash, ProcessDies
  <2>6. ASSUME NEW j \in Job, SubmitRecord(s, j) PROVE LockInv'
    BY <2>6, <1>0 DEF SubmitRecord, CanLock, WorkerLocks
  <2>7. QED
    BY <1>1, <2>1, <2>2, <2>3, <2>4, <2>5, <2>6 DEF ServiceStep, Poll
<1>2. ASSUME NEW j \in Job, JobStep(j) PROVE LockInv'
  <2>1. CASE RunBegin(j) \/ RunSpawn(j) \/ RunSpawnFail(j) \/ RunRegister(j)
             \/ RunBind(j) \/ RunPermit(j) \/ RunPermitFail(j)
    BY <2>1, <1>0
       DEF RunBegin, Work, CanLock, WorkerLocks, RunSpawn, RunSpawnFail, RunRegister,
           RunBind, RunPermit, RunPermitFail
  <2>2. CASE RunStop(j) \/ RunStopFail(j) \/ RunWait(j) \/ RunFinish(j)
             \/ RunTree(j) \/ RunAuthorize(j) \/ RunVerify(j) \/ RunPend(j)
             \/ RunPromote(j) \/ RunFinal(j) \/ RunClear(j) \/ RunExit(j)
    BY <2>2, <1>0
       DEF RunStop, Killed, Work, RunStopFail, RunWait, RunFinish, CanLock, WorkerLocks,
           RunTree, RunAuthorize, RunVerify, RunPend, RunPromote, RunFinal, RunClear,
           RunExit
  <2>3. CASE ExceptStop(j) \/ ExceptSettle(j) \/ ExceptPersist(j)
             \/ ExceptSurvivor(j)
    BY <2>3, <1>0
       DEF ExceptStop, Killed, Work, ExceptSettle, CanLock, WorkerLocks, ExceptPersist,
           ExceptSurvivor
  <2>4. CASE SubmitLease(j) \/ SubmitStart(j) \/ HandoffDone(j)
             \/ HandoffSnapshot(j) \/ HandoffFail(j) \/ CancelTerminate(j)
             \/ CancelTerminateFail(j) \/ CancelClear(j)
    BY <2>4, <1>0
       DEF SubmitLease, SubmitStart, HandoffDone, HandoffSnapshot, RecordsFree,
           HandoffFail, FailedSubmission, CanLock, WorkerLocks, CancelTerminate, Killed,
           CancelTerminateFail, CancelClear
  <2>5. CASE ChildExec(j) \/ ChildGivesUp(j) \/ ChildExit(j)
             \/ DescendantsExit(j)
    BY <2>5, <1>0 DEF ChildExec, ChildGivesUp, ChildExit, DescendantsExit
  <2>6. CASE SubmitFail(j) \/ CancelRequest(j)
    BY <2>6, <1>0 DEF SubmitFail, FailedSubmission, CancelRequest, CanLock, WorkerLocks
  <2>7. QED
    BY <2>1, <2>2, <2>3, <2>4, <2>5, <2>6, <1>2
       DEF JobStep, WorkerStep, CallerStep, LaunchStep, CompletionStep, ExceptStep,
           ChildStep
<1>3. QED
  BY <1>1, <1>2 DEF Next

\* A step keeps SubmitInv: only SubmitStart starts a worker, and it ends the submission.
LEMMA SubmitStep == ASSUME IInv, Next PROVE SubmitInv'
<1> USE ConstantsAssumption
        DEF TypeOK, LiveInv, LockInv, SubmitInv, ChildInv, WorkerHolds, hosts, children,
            callers, worker, locks
<1>0. TypeOK /\ LiveInv /\ LockInv /\ SubmitInv /\ ChildInv
  BY DEF IInv
<1>1. ASSUME NEW s \in Service, ServiceStep(s) PROVE SubmitInv'
  <2>1. CASE Start(s)
    BY <2>1, <1>0 DEF Start
  <2>2. CASE Crash(s)
    BY <2>2, <1>0 DEF Crash, ProcessDies
  <2>3. CASE Admission(s)
    BY <2>3, <1>0 DEF Admission, CanLock, WorkerLocks
  <2>4. ASSUME NEW j \in Job, Reconcile(s, j) PROVE SubmitInv'
    BY <2>4, <1>0 DEF Reconcile
  <2>5. ASSUME NEW j \in Job, ReconcileCrash(s, j) PROVE SubmitInv'
    BY <2>5, <1>0 DEF ReconcileCrash, ProcessDies
  <2>6. ASSUME NEW j \in Job, SubmitRecord(s, j) PROVE SubmitInv'
    BY <2>6, <1>0 DEF SubmitRecord, CanLock, WorkerLocks
  <2>7. QED
    BY <1>1, <2>1, <2>2, <2>3, <2>4, <2>5, <2>6 DEF ServiceStep, Poll
<1>2. ASSUME NEW j \in Job, JobStep(j) PROVE SubmitInv'
  <2>1. CASE RunBegin(j) \/ RunSpawn(j) \/ RunSpawnFail(j) \/ RunRegister(j)
             \/ RunBind(j) \/ RunPermit(j) \/ RunPermitFail(j)
    BY <2>1, <1>0
       DEF RunBegin, Work, CanLock, WorkerLocks, RunSpawn, RunSpawnFail, RunRegister,
           RunBind, RunPermit, RunPermitFail
  <2>2. CASE RunStop(j) \/ RunStopFail(j) \/ RunWait(j) \/ RunFinish(j)
             \/ RunTree(j) \/ RunAuthorize(j) \/ RunVerify(j) \/ RunPend(j)
             \/ RunPromote(j) \/ RunFinal(j) \/ RunClear(j) \/ RunExit(j)
    BY <2>2, <1>0
       DEF RunStop, Killed, Work, RunStopFail, RunWait, RunFinish, CanLock, WorkerLocks,
           RunTree, RunAuthorize, RunVerify, RunPend, RunPromote, RunFinal, RunClear,
           RunExit
  <2>3. CASE ExceptStop(j) \/ ExceptSettle(j) \/ ExceptPersist(j)
             \/ ExceptSurvivor(j)
    BY <2>3, <1>0
       DEF ExceptStop, Killed, Work, ExceptSettle, CanLock, WorkerLocks, ExceptPersist,
           ExceptSurvivor
  <2>4. CASE SubmitLease(j) \/ SubmitStart(j) \/ HandoffDone(j)
             \/ HandoffSnapshot(j) \/ HandoffFail(j) \/ CancelTerminate(j)
             \/ CancelTerminateFail(j) \/ CancelClear(j)
    BY <2>4, <1>0
       DEF SubmitLease, SubmitStart, HandoffDone, HandoffSnapshot, HandoffFail,
           FailedSubmission, CanLock,
           WorkerLocks, CancelTerminate, Killed, CancelTerminateFail, CancelClear
  <2>5. CASE ChildExec(j) \/ ChildGivesUp(j) \/ ChildExit(j)
             \/ DescendantsExit(j)
    BY <2>5, <1>0 DEF ChildExec, ChildGivesUp, ChildExit, DescendantsExit
  <2>6. CASE SubmitFail(j) \/ CancelRequest(j)
    BY <2>6, <1>0 DEF SubmitFail, FailedSubmission, CancelRequest, CanLock, WorkerLocks
  <2>7. QED
    BY <2>1, <2>2, <2>3, <2>4, <2>5, <2>6, <1>2
       DEF JobStep, WorkerStep, CallerStep, LaunchStep, CompletionStep, ExceptStep,
           ChildStep
<1>3. QED
  BY <1>1, <1>2 DEF Next

\* A step keeps ChildInv: only RunSpawn creates a child, without a permit.
LEMMA ChildInvStep == ASSUME IInv, Next PROVE ChildInv'
<1> USE ConstantsAssumption
        DEF TypeOK, LiveInv, LockInv, SubmitInv, ChildInv, WorkerHolds, Hot, OnGpu,
            ChildLive, hosts, children, callers, worker, locks
<1>0. TypeOK /\ LiveInv /\ LockInv /\ SubmitInv /\ ChildInv
  BY DEF IInv
<1>1. ASSUME NEW s \in Service, ServiceStep(s) PROVE ChildInv'
  <2>1. CASE Start(s)
    BY <2>1, <1>0 DEF Start
  <2>2. CASE Crash(s)
    BY <2>2, <1>0 DEF Crash, ProcessDies
  <2>3. CASE Admission(s)
    BY <2>3, <1>0 DEF Admission, CanLock, WorkerLocks
  <2>4. ASSUME NEW j \in Job, Reconcile(s, j) PROVE ChildInv'
    BY <2>4, <1>0 DEF Reconcile
  <2>5. ASSUME NEW j \in Job, ReconcileCrash(s, j) PROVE ChildInv'
    BY <2>5, <1>0 DEF ReconcileCrash, ProcessDies
  <2>6. ASSUME NEW j \in Job, SubmitRecord(s, j) PROVE ChildInv'
    BY <2>6, <1>0 DEF SubmitRecord, CanLock, WorkerLocks
  <2>7. QED
    BY <1>1, <2>1, <2>2, <2>3, <2>4, <2>5, <2>6 DEF ServiceStep, Poll
<1>2. ASSUME NEW j \in Job, JobStep(j) PROVE ChildInv'
  <2>1. CASE RunBegin(j) \/ RunSpawn(j) \/ RunSpawnFail(j) \/ RunRegister(j)
             \/ RunBind(j) \/ RunPermit(j) \/ RunPermitFail(j)
    BY <2>1, <1>0
       DEF RunBegin, Work, CanLock, WorkerLocks, RunSpawn, RunSpawnFail, RunRegister,
           RunBind, RunPermit, RunPermitFail
  <2>2. CASE RunStop(j) \/ RunStopFail(j) \/ RunWait(j) \/ RunFinish(j)
             \/ RunTree(j) \/ RunAuthorize(j) \/ RunVerify(j) \/ RunPend(j)
             \/ RunPromote(j) \/ RunFinal(j) \/ RunClear(j) \/ RunExit(j)
    BY <2>2, <1>0
       DEF RunStop, Killed, Work, RunStopFail, RunWait, RunFinish, CanLock, WorkerLocks,
           RunTree, ProcessTreeAlive, RunAuthorize, RunVerify, RunPend, RunPromote,
           RunFinal, RunClear, RunExit
  <2>3. CASE ExceptStop(j) \/ ExceptSettle(j) \/ ExceptPersist(j)
             \/ ExceptSurvivor(j)
    BY <2>3, <1>0
       DEF ExceptStop, Killed, Work, ExceptSettle, CanLock, WorkerLocks, ExceptPersist,
           ExceptSurvivor
  <2>4. CASE SubmitLease(j) \/ SubmitStart(j) \/ HandoffDone(j)
             \/ HandoffSnapshot(j) \/ HandoffFail(j) \/ CancelTerminate(j)
             \/ CancelTerminateFail(j) \/ CancelClear(j)
    BY <2>4, <1>0
       DEF SubmitLease, SubmitStart, HandoffDone, HandoffSnapshot, HandoffFail,
           FailedSubmission, CanLock,
           WorkerLocks, CancelTerminate, Killed, CancelTerminateFail, CancelClear
  <2>5. CASE ChildExec(j) \/ ChildGivesUp(j) \/ ChildExit(j)
             \/ DescendantsExit(j)
    BY <2>5, <1>0 DEF ChildExec, ChildGivesUp, ChildExit, DescendantsExit
  <2>6. CASE SubmitFail(j) \/ CancelRequest(j)
    BY <2>6, <1>0 DEF SubmitFail, FailedSubmission, CancelRequest, CanLock, WorkerLocks
  <2>7. QED
    BY <2>1, <2>2, <2>3, <2>4, <2>5, <2>6, <1>2
       DEF JobStep, WorkerStep, CallerStep, LaunchStep, CompletionStep, ExceptStep,
           ChildStep
<1>3. QED
  BY <1>1, <1>2 DEF Next

\* A step keeps CoverInv: the lease of a hot child is not stale, since the child lives;
\* the sections that clear a lease come after the death of the child; and a submission
\* that creates a lease has held the lock since the lease was free.
LEMMA CoverStep == ASSUME IInv, Next PROVE CoverInv'
<1> USE ConstantsAssumption
        DEF CoverInv, Covered, TypeOK, LockInv, SubmitInv, ChildInv, WorkerHolds, Hot,
            OnGpu, ChildLive, NoLease, ClearedLease, LeaseIsOf, hosts, children,
            callers, worker, locks
<1>0. TypeOK /\ LockInv /\ SubmitInv /\ ChildInv /\ CoverInv
  BY DEF IInv
<1>4. \A k \in Job : rec[k].state = "absent" => sub[k] = "none"
  BY DEF IInv, LiveInv
<1>1. ASSUME NEW s \in Service, ServiceStep(s) PROVE CoverInv'
  <2>1. CASE Start(s)
    BY <2>1, <1>0 DEF Start
  <2>2. CASE Crash(s)
    BY <2>2, <1>0 DEF Crash, ProcessDies
  <2>3. CASE Admission(s)
    BY <2>3, <1>0 DEF Admission, CanLock, LeaseAvailable, LeaseStale, ProcessLive
  <2>4. ASSUME NEW j \in Job, Reconcile(s, j) PROVE CoverInv'
    BY <2>4, <1>0 DEF Reconcile
  <2>5. ASSUME NEW j \in Job, ReconcileCrash(s, j) PROVE CoverInv'
    BY <2>5, <1>0 DEF ReconcileCrash, ProcessDies
  <2>6. ASSUME NEW j \in Job, SubmitRecord(s, j) PROVE CoverInv'
    <3>1. \A k \in Job : Hot(k) => ~Covered(k)
      BY <2>6, <1>0 DEF SubmitRecord, LeaseAvailable, LeaseStale, ProcessLive
    <3>2. stage[j] = "none" /\ wpc[j] = "none"
      BY <2>6, <1>0, <1>4 DEF SubmitRecord
    <3>3. /\ \A k \in Job \ {j} : sub'[k] = sub[k]
          /\ glock = None /\ stage' = stage /\ wpc' = wpc /\ permit' = permit
      BY <2>6, <1>0 DEF SubmitRecord, CanLock
    <3>4. \A k \in Job : wpc[k] # "permit"
      BY <3>3, <1>0
    <3>5. QED
      BY <3>1, <3>2, <3>3, <3>4, <1>0
  <2>7. QED
    BY <1>1, <2>1, <2>2, <2>3, <2>4, <2>5, <2>6 DEF ServiceStep, Poll
<1>2. ASSUME NEW j \in Job, JobStep(j) PROVE CoverInv'
  <2>1. CASE RunBegin(j) \/ RunSpawn(j) \/ RunSpawnFail(j) \/ RunRegister(j)
             \/ RunBind(j) \/ RunPermit(j) \/ RunPermitFail(j)
    BY <2>1, <1>0
       DEF RunBegin, Work, CanLock, WorkerLocks, RunSpawn, RunSpawnFail, RunRegister,
           RunBind, RunPermit, RunPermitFail
  <2>2. CASE RunStop(j) \/ RunStopFail(j) \/ RunWait(j) \/ RunFinish(j)
             \/ RunTree(j) \/ RunAuthorize(j) \/ RunVerify(j) \/ RunPend(j)
             \/ RunPromote(j) \/ RunFinal(j) \/ RunClear(j) \/ RunExit(j)
    BY <2>2, <1>0
       DEF RunStop, Killed, Work, RunStopFail, RunWait, RunFinish, CanLock, WorkerLocks,
           RunTree, RunAuthorize, RunVerify, RunPend, RunPromote, RunFinal, RunClear,
           RunExit
  <2>3. CASE ExceptStop(j) \/ ExceptSettle(j) \/ ExceptPersist(j)
             \/ ExceptSurvivor(j)
    BY <2>3, <1>0
       DEF ExceptStop, Killed, Work, ExceptSettle, CanLock, WorkerLocks, ExceptPersist,
           ExceptSurvivor
  <2>4. CASE SubmitLease(j) \/ SubmitStart(j) \/ HandoffDone(j)
             \/ HandoffSnapshot(j) \/ HandoffFail(j) \/ CancelTerminate(j)
             \/ CancelTerminateFail(j) \/ CancelClear(j)
    BY <2>4, <1>0
       DEF SubmitLease, SubmitStart, HandoffDone, HandoffSnapshot, HandoffFail,
           FailedSubmission, CanLock, CancelTerminate, Killed, CancelTerminateFail,
           CancelClear
  <2>5. CASE ChildExec(j) \/ ChildGivesUp(j) \/ ChildExit(j)
             \/ DescendantsExit(j)
    BY <2>5, <1>0 DEF ChildExec, ChildGivesUp, ChildExit, DescendantsExit
  <2>6. CASE SubmitFail(j) \/ CancelRequest(j)
    BY <2>6, <1>0 DEF SubmitFail, FailedSubmission, CancelRequest, CanLock, WorkerLocks
  <2>7. QED
    BY <2>1, <2>2, <2>3, <2>4, <2>5, <2>6, <1>2
       DEF JobStep, WorkerStep, CallerStep, LaunchStep, CompletionStep, ExceptStep,
           ChildStep
<1>3. QED
  BY <1>1, <1>2 DEF Next

\* A step keeps MapInv: the map entry of a process is made after its launch.
LEMMA MapStep == ASSUME IInv, Next PROVE MapInv'
<1> USE ConstantsAssumption
        DEF MapInv, TypeOK, LockInv, SubmitInv, ChildInv, WorkerHolds, Hot, OnGpu,
            ChildLive, ProcessTreeAlive, hosts, children, callers, worker, locks
<1>0. TypeOK /\ LockInv /\ SubmitInv /\ ChildInv /\ MapInv
  BY DEF IInv
<1>1. ASSUME NEW s \in Service, ServiceStep(s) PROVE MapInv'
  <2>1. CASE Start(s)
    BY <2>1, <1>0 DEF Start
  <2>2. CASE Crash(s)
    BY <2>2, <1>0 DEF Crash, ProcessDies
  <2>3. CASE Admission(s)
    BY <2>3, <1>0 DEF Admission, CanLock, WorkerLocks
  <2>4. ASSUME NEW j \in Job, Reconcile(s, j) PROVE MapInv'
    BY <2>4, <1>0 DEF Reconcile
  <2>5. ASSUME NEW j \in Job, ReconcileCrash(s, j) PROVE MapInv'
    BY <2>5, <1>0 DEF ReconcileCrash, ProcessDies
  <2>6. ASSUME NEW j \in Job, SubmitRecord(s, j) PROVE MapInv'
    BY <2>6, <1>0 DEF SubmitRecord, CanLock, WorkerLocks
  <2>7. QED
    BY <1>1, <2>1, <2>2, <2>3, <2>4, <2>5, <2>6 DEF ServiceStep, Poll
<1>2. ASSUME NEW j \in Job, JobStep(j) PROVE MapInv'
  <2>1. CASE RunBegin(j) \/ RunSpawn(j) \/ RunSpawnFail(j) \/ RunRegister(j)
             \/ RunBind(j) \/ RunPermit(j) \/ RunPermitFail(j)
    BY <2>1, <1>0
       DEF RunBegin, Work, CanLock, WorkerLocks, RunSpawn, RunSpawnFail, RunRegister,
           RunBind, RunPermit, RunPermitFail
  <2>2. CASE RunStop(j) \/ RunStopFail(j) \/ RunWait(j) \/ RunFinish(j)
             \/ RunTree(j) \/ RunAuthorize(j) \/ RunVerify(j) \/ RunPend(j)
             \/ RunPromote(j) \/ RunFinal(j) \/ RunClear(j) \/ RunExit(j)
    BY <2>2, <1>0
       DEF RunStop, Killed, Work, RunStopFail, RunWait, RunFinish, CanLock, WorkerLocks,
           RunTree, RunAuthorize, RunVerify, RunPend, RunPromote, RunFinal, RunClear,
           RunExit
  <2>3. CASE ExceptStop(j) \/ ExceptSettle(j) \/ ExceptPersist(j)
             \/ ExceptSurvivor(j)
    BY <2>3, <1>0
       DEF ExceptStop, Killed, Work, ExceptSettle, CanLock, WorkerLocks, ExceptPersist,
           ExceptSurvivor
  <2>4. CASE SubmitLease(j) \/ SubmitStart(j) \/ HandoffDone(j)
             \/ HandoffSnapshot(j) \/ HandoffFail(j) \/ CancelTerminate(j)
             \/ CancelTerminateFail(j) \/ CancelClear(j)
    BY <2>4, <1>0
       DEF SubmitLease, SubmitStart, HandoffDone, HandoffSnapshot, HandoffFail,
           FailedSubmission, CanLock,
           WorkerLocks, CancelTerminate, Killed, CancelTerminateFail, CancelClear
  <2>5. CASE ChildExec(j) \/ ChildGivesUp(j) \/ ChildExit(j)
             \/ DescendantsExit(j)
    BY <2>5, <1>0 DEF ChildExec, ChildGivesUp, ChildExit, DescendantsExit
  <2>6. CASE SubmitFail(j) \/ CancelRequest(j)
    BY <2>6, <1>0 DEF SubmitFail, FailedSubmission, CancelRequest, CanLock, WorkerLocks
  <2>7. QED
    BY <2>1, <2>2, <2>3, <2>4, <2>5, <2>6, <1>2
       DEF JobStep, WorkerStep, CallerStep, LaunchStep, CompletionStep, ExceptStep,
           ChildStep
<1>3. QED
  BY <1>1, <1>2 DEF Next

\* A step keeps RecordInv: between the binding and the permit the lock keeps
\* cancellations out, and verification starts after the group has gone.
LEMMA RecordInvStep == ASSUME IInv, Next PROVE RecordInv'
<1>0. TypeOK /\ LiveInv /\ LockInv /\ SubmitInv /\ ChildInv /\ MapInv /\ RecordInv
  BY DEF IInv
<1>1. ASSUME NEW s \in Service, ServiceStep(s) PROVE RecordInv'
  <2>0. \A k \in Job : SettledBy(k, rec'[k]) \/ Submitted(s, k)
    BY <1>0, <1>1, ServiceRecords
  <2> USE ConstantsAssumption
  <2> USE DEF TypeOK, LiveInv, SubmitInv, RecordInv, SettledBy, Submitted, NoRecord,
              CancelStates, hosts, callers, children, worker, locks
  <2>1. CASE Start(s)
    BY <2>1, <2>0, <1>0 DEF Start
  <2>2. CASE Crash(s)
    <3>1. ProcessDies(s)
      BY <2>2 DEF Crash
    <3>2. rec' = rec /\ stage' = stage
      BY <3>1 DEF ProcessDies, children
    <3>3. \A k \in Job :
             \/ wpc'[k] = "done" /\ snap'[k] = NoRecord
             \/ wpc'[k] = wpc[k] /\ snap'[k] = snap[k]
      BY <3>1, Death
    <3>4. QED
      BY <3>2, <3>3, <1>0
  <2>3. CASE Admission(s)
    BY <2>3, <2>0, <1>0 DEF Admission
  <2>4. ASSUME NEW j \in Job, Reconcile(s, j) PROVE RecordInv'
    BY <2>4, <2>0, <1>0 DEF Reconcile
  <2>5. ASSUME NEW j \in Job, ReconcileCrash(s, j) PROVE RecordInv'
    <3>1. ProcessDies(s)
      BY <2>5 DEF ReconcileCrash
    <3>2. rec' = rec /\ stage' = stage
      BY <3>1 DEF ProcessDies, children
    <3>3. \A k \in Job :
             \/ wpc'[k] = "done" /\ snap'[k] = NoRecord
             \/ wpc'[k] = wpc[k] /\ snap'[k] = snap[k]
      BY <3>1, Death
    <3>4. QED
      BY <3>2, <3>3, <1>0
  <2>6. ASSUME NEW j \in Job, SubmitRecord(s, j) PROVE RecordInv'
    <3>1. wpc' = wpc /\ snap' = snap /\ stage' = stage
      BY <2>6 DEF SubmitRecord
    <3>2. QED
      BY <3>1, <2>0, <1>0
  <2>7. QED
    BY <1>1, <2>1, <2>2, <2>3, <2>4, <2>5, <2>6 DEF ServiceStep, Poll
<1>2. ASSUME NEW j \in Job, JobStep(j) PROVE RecordInv'
  <2>0. /\ \A k \in Job \ {j} : rec'[k] = rec[k]
        /\ rec'[j].verifying => \/ rec[j].verifying \/ snap[j].verifying
                                \/ wpc[j] = "authorize"
        /\ rec'[j].state \in CancelStates =>
              \/ rec[j].state \in CancelStates \/ glock = None
              \/ cpc[j] = "terminate" \/ wpc[j] = "survivor"
    BY <1>0, <1>2, JobRecords
  <2> USE ConstantsAssumption
  <2> USE DEF TypeOK, LockInv, ChildInv, MapInv, RecordInv, WorkerHolds, ChildLive,
              NoRecord, hosts, callers, children, worker, locks
  <2>1. CASE RunBegin(j) \/ RunSpawn(j) \/ RunSpawnFail(j) \/ RunRegister(j)
             \/ RunBind(j) \/ RunPermit(j) \/ RunPermitFail(j)
    BY <2>1, <2>0, <1>0
       DEF RunBegin, Work, RunSpawn, RunSpawnFail, RunRegister, RunBind, RunPermit,
           RunPermitFail
  <2>2. CASE RunStop(j) \/ RunStopFail(j) \/ RunWait(j) \/ RunFinish(j)
             \/ RunTree(j) \/ RunAuthorize(j) \/ RunVerify(j) \/ RunPend(j)
             \/ RunPromote(j) \/ RunFinal(j) \/ RunClear(j) \/ RunExit(j)
    BY <2>2, <2>0, <1>0
       DEF RunStop, Killed, Work, RunStopFail, RunWait, RunFinish, RunTree,
           RunAuthorize, RunVerify, RunPend, RunPromote, RunFinal, RunClear, RunExit
  <2>3. CASE ExceptStop(j) \/ ExceptSettle(j) \/ ExceptPersist(j)
             \/ ExceptSurvivor(j)
    BY <2>3, <2>0, <1>0
       DEF ExceptStop, Killed, Work, ExceptSettle, ExceptPersist, ExceptSurvivor
  <2>4. CASE SubmitLease(j) \/ SubmitStart(j) \/ HandoffDone(j)
             \/ CancelTerminate(j) \/ CancelTerminateFail(j) \/ CancelClear(j)
    BY <2>4, <2>0, <1>0
       DEF SubmitLease, SubmitStart, HandoffDone, CancelTerminate, Killed,
           CancelTerminateFail, CancelClear
  <2>8. CASE HandoffSnapshot(j)
    <3>1. /\ rec' = rec /\ wpc' = wpc /\ stage' = stage
          /\ \A k \in Job \ {j} : snap'[k] = snap[k]
      BY <2>8, <1>0 DEF HandoffSnapshot
    <3>2. snap'[j] \in {snap[j], rec[j], QueuedRecord(rec[j].owner)}
      BY <2>8, <1>0 DEF HandoffSnapshot
    <3>3. ~QueuedRecord(rec[j].owner).verifying
      BY DEF QueuedRecord
    <3>4. snap'[j].verifying => rec[j].verifying \/ snap[j].verifying
      BY <3>2, <3>3
    <3>5. QED
      BY <3>1, <3>4, <1>0
  <2>9. CASE HandoffFail(j)
    <3>1. /\ wpc' = wpc /\ stage' = stage /\ glock = None /\ sub[j] = "snapshot"
          /\ ~snap'[j].verifying
          /\ \A k \in Job \ {j} : snap'[k] = snap[k]
      BY <2>9, <1>0 DEF HandoffFail, CanLock
    <3>2. \A k \in Job : wpc[k] # "permit"
      BY <3>1, <1>0
    <3>3. rec'[j].verifying => rec[j].verifying \/ snap[j].verifying
      <4>1. CASE rec' = rec
        BY <4>1
      <4>2. CASE rec' = [rec EXCEPT ![j] = [snap[j] EXCEPT !.state = "failed"]]
        BY <4>2, <1>0 DEF Records
      <4>3. QED
        BY <2>9, <4>1, <4>2 DEF HandoffFail, FailedSubmission
    <3>4. QED
      BY <3>1, <3>2, <3>3, <2>0, <1>0
  <2>5. CASE ChildExec(j) \/ ChildGivesUp(j) \/ ChildExit(j)
             \/ DescendantsExit(j)
    BY <2>5, <2>0, <1>0 DEF ChildExec, ChildGivesUp, ChildExit, DescendantsExit
  <2>6. CASE SubmitFail(j) \/ CancelRequest(j)
    BY <2>6, <2>0, <1>0 DEF SubmitFail, FailedSubmission, CancelRequest
  <2>7. QED
    BY <2>1, <2>2, <2>3, <2>4, <2>5, <2>6, <2>8, <2>9, <1>2
       DEF JobStep, WorkerStep, CallerStep, LaunchStep, CompletionStep, ExceptStep,
           ChildStep
<1>3. QED
  BY <1>1, <1>2 DEF Next

\* A step keeps FaultInv: SubmitStart ends the call where the files hold out.
LEMMA FaultStep == ASSUME IInv, Next PROVE FaultInv'
<1> USE DEF TypeOK, FaultInv, hosts, children, callers, worker, locks
<1>0. TypeOK /\ FaultInv
  BY DEF IInv
<1>1. ASSUME NEW s \in Service, ServiceStep(s) PROVE FaultInv'
  BY <1>0, <1>1 DEF ServiceStep, Poll, Start, Crash, Admission, Reconcile, ReconcileCrash,
                    SubmitRecord, ProcessDies
<1>2. ASSUME NEW j \in Job, CallerStep(j) PROVE FaultInv'
  BY <1>0, <1>2 DEF CallerStep, SubmitLease, SubmitStart, HandoffDone, HandoffSnapshot,
                    HandoffFail, FailedSubmission, CancelTerminate,
                    CancelTerminateFail, CancelClear
<1>3. ASSUME NEW j \in Job, SubmitFail(j) \/ CancelRequest(j) PROVE FaultInv'
  BY <1>0, <1>3 DEF SubmitFail, FailedSubmission, CancelRequest
<1>4. ASSUME NEW j \in Job, WorkerStep(j) \/ ChildStep(j) PROVE FaultInv'
  <2>1. sub' = sub
    BY <1>4 DEF WorkerStep, LaunchStep, CompletionStep, ExceptStep, ChildStep, RunBegin,
                RunSpawn, RunSpawnFail, RunRegister, RunBind, RunPermit, RunPermitFail,
                RunStop, RunStopFail, RunWait, RunFinish, RunTree, RunAuthorize,
                RunVerify, RunPend, RunPromote, RunFinal, RunClear, RunExit, ExceptStop,
                ExceptSettle, ExceptPersist, ExceptSurvivor, ChildExec, ChildGivesUp,
                ChildExit, DescendantsExit
  <2>2. QED
    BY <1>0, <2>1
<1>5. QED
  BY <1>1, <1>2, <1>3, <1>4 DEF Next, JobStep

\* The invariant holds before any service starts.
LEMMA InitIInv == Init => IInv
<1> SUFFICES ASSUME Init PROVE IInv
  OBVIOUS
<1>1. TypeOK
  BY InitType
<1>2. \A j \in Job : rec[j] = NoRecord /\ snap[j] = NoRecord
  BY DEF Init
<1>3. LiveInv /\ LockInv /\ SubmitInv
  BY <1>2 DEF Init, LiveInv, LockInv, SubmitInv, WorkerHolds, NoRecord
<1>4. ChildInv /\ CoverInv /\ MapInv
  BY DEF Init, ChildInv, CoverInv, MapInv, Hot, OnGpu, ChildLive
<1>5. RecordInv /\ FaultInv
  BY <1>2 DEF Init, RecordInv, FaultInv, NoRecord
<1>6. QED
  BY <1>1, <1>3, <1>4, <1>5 DEF IInv

\* Every step keeps the invariant: one lemma per conjunct.
LEMMA NextIInv == IInv /\ [Next]_vars => IInv'
<1> SUFFICES ASSUME IInv, [Next]_vars PROVE IInv'
  OBVIOUS
<1>1. TypeOK'
  BY StepType DEF IInv
<1>2. CASE Next
  BY <1>1, <1>2, LiveStep, LockStep, SubmitStep, ChildInvStep, CoverStep, MapStep,
     RecordInvStep, FaultStep
     DEF IInv
<1>3. CASE UNCHANGED vars
  BY <1>1, <1>3
     DEF IInv, vars, LiveInv, LockInv, SubmitInv, ChildInv, CoverInv, MapInv, RecordInv,
         FaultInv, Covered, Hot, OnGpu, ChildLive
<1>4. QED
  BY <1>2, <1>3

\* The inductive invariant holds in every behaviour, with every fault.
THEOREM InductiveInvariant == Spec => []IInv
<1>1. Init => IInv
  BY InitIInv
<1>2. IInv /\ [Next]_vars => IInv'
  BY NextIInv
<1>3. QED
  BY <1>1, <1>2, PTL DEF Spec

\* The lease names every child that runs the GPU, whatever services crash, restart,
\* submit and cancel, while the files hold out under the end of every submission.
THEOREM LeaseCovers == ASSUME ~SubmitFaults PROVE Spec => []LeaseCoversChild
<1>1. IInv => LeaseCoversChild
  BY DEF IInv, CoverInv, FaultInv, Covered, Hot, LeaseCoversChild
<1>2. QED
  BY <1>1, InductiveInvariant, PTL

\* Two children that passed their permit never run together on the host.
THEOREM OneGpuChild == ASSUME ~SubmitFaults PROVE Spec => []GpuExclusive
<1>1. LeaseCoversChild => GpuExclusive
  BY DEF LeaseCoversChild, GpuExclusive
<1>2. QED
  BY <1>1, LeaseCovers, PTL

\* A step moves the child of one job at most.
LEMMA OneStage ==
    ASSUME Next
    PROVE  stage' = stage \/ \E j \in Job : \E st : stage' = [stage EXCEPT ![j] = st]
<1>1. ASSUME NEW s \in Service, ServiceStep(s) PROVE stage' = stage
  BY <1>1 DEF ServiceStep, Poll, Start, Crash, Admission, Reconcile, ReconcileCrash,
              SubmitRecord, ProcessDies, children
<1>2. ASSUME NEW j \in Job, CallerStep(j) \/ SubmitFail(j) \/ CancelRequest(j)
      PROVE  stage' = stage \/ \E st : stage' = [stage EXCEPT ![j] = st]
  BY <1>2 DEF CallerStep, SubmitLease, SubmitStart, HandoffDone, HandoffSnapshot,
              HandoffFail, CancelTerminate, CancelTerminateFail, CancelClear,
              SubmitFail, CancelRequest, Killed, children
<1>3. ASSUME NEW j \in Job, LaunchStep(j) \/ CompletionStep(j)
      PROVE  stage' = stage \/ \E st : stage' = [stage EXCEPT ![j] = st]
  BY <1>3 DEF LaunchStep, CompletionStep, RunBegin, RunSpawn, RunSpawnFail, RunRegister,
              RunBind, RunPermit, RunPermitFail, RunStop, RunStopFail, RunWait,
              RunFinish, RunTree, RunAuthorize, RunVerify, RunPend, RunPromote, RunFinal,
              RunClear, RunExit, Killed, children
<1>4. ASSUME NEW j \in Job, ExceptStep(j) \/ ChildStep(j)
      PROVE  stage' = stage \/ \E st : stage' = [stage EXCEPT ![j] = st]
  BY <1>4 DEF ExceptStep, ExceptStop, ExceptSettle, ExceptPersist, ExceptSurvivor,
              ChildStep, ChildExec, ChildGivesUp, ChildExit, DescendantsExit,
              Killed, children
<1>5. QED
  BY <1>1, <1>2, <1>3, <1>4 DEF Next, JobStep, WorkerStep

\* The job whose child uses the GPU, as the refinement of GpuSlot names it.
Holder == IF \E j \in Job : OnGpu(j) THEN CHOOSE j \in Job : OnGpu(j) ELSE None

\* The GPU passes from one job to the next through a moment in which it is idle.
THEOREM SlotRefinement == ASSUME ~SubmitFaults PROVE Spec => ImplementsSlot
<1>1. Init => Slot!Init
  BY DEF Init, Slot!Init, OnGpu
<1>2. TypeOK /\ GpuExclusive /\ GpuExclusive' /\ [Next]_vars => [Slot!Next]_Holder
  <2> SUFFICES ASSUME TypeOK, GpuExclusive, GpuExclusive', [Next]_vars
               PROVE  [Slot!Next]_Holder
    OBVIOUS
  <2>1. CASE stage' = stage
    BY <2>1 DEF Holder, OnGpu
  <2>2. ASSUME NEW j \in Job, NEW st, stage' = [stage EXCEPT ![j] = st]
        PROVE  [Slot!Next]_Holder
    <3>1. \A k \in Job \ {j} : OnGpu(k) <=> OnGpu(k)'
      BY <2>2 DEF OnGpu, TypeOK
    <3>2. \A k \in Job : OnGpu(k) => Holder = k
      BY DEF Holder, GpuExclusive
    <3>3. \A k \in Job : OnGpu(k)' => Holder' = k
      BY DEF Holder, GpuExclusive
    <3>4. (\A k \in Job : ~OnGpu(k)) => Holder = None
      BY DEF Holder
    <3>5. (\A k \in Job : ~OnGpu(k)') => Holder' = None
      BY DEF Holder
    <3>6. CASE \E k \in Job \ {j} : OnGpu(k)
      BY <3>1, <3>2, <3>3, <3>6
    <3>7. CASE \A k \in Job \ {j} : ~OnGpu(k)
      <4>1. Holder = (IF OnGpu(j) THEN j ELSE None)
        BY <3>2, <3>4, <3>7
      <4>2. Holder' = (IF OnGpu(j)' THEN j ELSE None)
        BY <3>1, <3>3, <3>5, <3>7
      <4>3. QED
        BY <4>1, <4>2, ConstantsAssumption
           DEF Holder, Slot!Next, Slot!Acquire, Slot!Release
    <3>8. QED
      BY <3>6, <3>7
  <2>3. CASE UNCHANGED vars
    BY <2>1, <2>3 DEF vars
  <2>4. QED
    BY <2>1, <2>2, <2>3, OneStage
<1>3. Spec => []TypeOK /\ []GpuExclusive
  BY TypeCorrect, OneGpuChild, PTL
<1>4. QED
  BY <1>1, <1>2, <1>3, PTL DEF Spec, ImplementsSlot, Slot!Spec, Holder
=============================================================================

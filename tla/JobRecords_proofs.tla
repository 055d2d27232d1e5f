-------------------------- MODULE JobRecords_proofs --------------------------
(***************************************************************************)
(* What the persisted record of a job says is true, for every set of       *)
(* services, roots and jobs.  Under every fault a completed record means a *)
(* verified and promoted job, a cancelled one no promotion, and a terminal *)
(* one a stopped child, unless the submission gave the job up.             *)
(*                                                                         *)
(* Sound(j) is the strengthening, on top of IInv: what the program points  *)
(* of the worker and the canceller of j say about its record.  While the   *)
(* files hold out under the end of every submission (~SubmitFaults) a      *)
(* terminal record means a stopped child for every job, Ordered(j) holds   *)
(* as well, and with it the records follow the run states and one job at a *)
(* time is active in a root.                                               *)
(***************************************************************************)
EXTENDS GpuExclusion_proofs

\* An owner was started once, so no later service is taken for it.
OriginInv ==
    /\ live \subseteq started
    /\ \A j \in Job : rec[j].owner \in started \cup {None}

\* A record becomes terminal after its child, unless its submission gave the job up.
Stopping(j) ==
    /\ rec[j].state \in TerminalStates
          => (~Hot(j) /\ wpc[j] \notin {"begin", "spawn", "register", "bind", "permit"})
             \/ sub[j] = "failed"
    /\ rec[j].state \in ActiveStates /\ (Hot(j) \/ wpc[j] \in {"bind", "permit"})
          => rec[j].launched
    /\ sub[j] \in {"recorded", "leased"} => rec[j].state = "queued"
    /\ stage[j] \in {"descendants", "gone"} => code[j] # "none"

\* A canceller inside its section has the record to itself.
Cancelling(j) ==
    /\ cpc[j] = "terminate" => rec[j].state = "cancelling"
    /\ cpc[j] = "clear" => rec[j].state = "cancelled"
    /\ cpc[j] # "none" => rec[j].owner \in live

Verifying == {"verify", "reject", "pend", "promote"}

\* Once verification began no cancellation is accepted, and only a worker that
\* promoted its job completes a successful train job.
Verified(j) ==
    /\ wpc[j] \in Verifying =>
          /\ cpc[j] = "none" /\ rec[j].state \notin CancelStates
          /\ rec[j].state \in ActiveStates => rec[j].verifying /\ rec[j].code # "none"
    /\ wpc[j] = "promote" /\ rec[j].state \in ActiveStates => rec[j].evidence
    /\ wpc[j] = "final" /\ rec[j].state \in {"queued", "running"} /\ code[j] = "ok"
          /\ j \in Train => j \in promoted /\ rec[j].evidence

\* A promoted job is past every cancellation.
Promoted(j) ==
    j \in promoted =>
        /\ rec[j].state \notin {"absent", "cancelled"}
        /\ rec[j].owner \in live =>
              /\ wpc[j] \in {"final", "clear", "exit", "done"} /\ cpc[j] = "none"
              /\ rec[j].state \in ActiveStates =>
                    /\ rec[j].verifying /\ rec[j].code # "none"
                    /\ rec[j].state # "cancelling"

\* Nothing writes a completed record again.
Completed(j) ==
    rec[j].state = "completed" =>
        /\ wpc[j] \in {"none", "clear", "exit", "done"}
        /\ rec[j].code = "ok"
        /\ j \in Train => j \in promoted /\ rec[j].evidence

Sound(j) ==
    Stopping(j) /\ Cancelling(j) /\ Verified(j) /\ Promoted(j) /\ Completed(j)

\* The inductive invariant of the records.
RecordsInv == IInv /\ OriginInv /\ \A j \in Job : Sound(j)

------------------------------------------------------------------------------
(* What a step does to the jobs it is not about *)

\* An active record whose owner and child are gone.
Orphan(k) ==
    rec[k].state \in ActiveStates /\ rec[k].owner \notin live /\ ~RecordChildLive(k)

\* The record of k stays; a promotion may survive a crash before the record write.
Kept(k) ==
    /\ rec'[k] = rec[k]
    /\ k \in promoted' => k \in promoted \/ (Orphan(k) /\ Promotable(k))

\* The record of k is settled; it is completed only with a promotion.
SettledAs(k, st) ==
    /\ Orphan(k) /\ rec'[k] = [rec[k] EXCEPT !.state = st]
    /\ st = "completed" => Promotable(k) /\ k \in promoted'
    /\ k \in promoted' => k \in promoted \/ Promotable(k)

\* The record of k is written by the submission of s.
First(s, k) ==
    /\ rec[k].state = "absent" /\ rec'[k] = QueuedRecord(s) /\ s \in live'
    /\ sub'[k] = "recorded" /\ wpc'[k] = wpc[k] /\ cpc'[k] = cpc[k]
    /\ k \in promoted' => k \in promoted

\* The calls of k go on, or end with their service.
CallsGoOn(k) ==
    /\ sub'[k] = sub[k] /\ wpc'[k] = wpc[k] /\ cpc'[k] = cpc[k]
    /\ rec[k].owner \in live => rec[k].owner \in live'
CallsEnd(k) ==
    /\ sub'[k] = (IF sub[k] = "failed" THEN "failed" ELSE "done")
    /\ wpc'[k] = "done" /\ cpc'[k] = "none"
    /\ rec[k].owner \notin live'

Settling(k) == Kept(k) \/ \E st \in {"completed", "failed"} : SettledAs(k, st)

\* Reconciling a set of orphans settles those and keeps the others.
LEMMA ReconciledEffect ==
    ASSUME rec \in [Job -> Records], NEW s \in Service, NEW K \in SUBSET Reconcilable(s),
           NEW ok \in [K -> BOOLEAN], rec' = ReconciledRecords(K, ok),
           promoted' = ReconcilePromotions(K, ok), NEW k \in Job
    PROVE  Settling(k)
<1>1. CASE k \notin K
  BY <1>1 DEF ReconciledRecords, ReconcilePromotions, Settling, Kept
<1>2. CASE k \in K
  <2>1. Orphan(k)
    BY <1>2 DEF Reconcilable, Orphan
  <2>2. rec'[k] = [rec[k] EXCEPT !.state = IF Promotable(k) /\ ok[k] THEN "completed"
                                           ELSE "failed"]
    BY <1>2 DEF ReconciledRecords, Reconciled
  <2>3. k \in promoted' <=> k \in promoted \/ (Promotable(k) /\ ok[k])
    BY <1>2 DEF ReconcilePromotions
  <2>4. QED
    BY <2>1, <2>2, <2>3 DEF Settling, SettledAs
<1>3. QED
  BY <1>1, <1>2

\* What a step of a service does: records are settled or written for the first
\* time, calls end with their service, and no child is touched.
LEMMA ServiceEffects ==
    ASSUME IInv, OriginInv, NEW s \in Service, ServiceStep(s)
    PROVE  /\ stage' = stage /\ code' = code /\ permit' = permit
           /\ lease' \in {lease, NoLease} /\ promoted \subseteq promoted'
           /\ started \subseteq started' /\ live' \subseteq started'
           /\ \A p \in started : p \in live' => p \in live
           /\ \A k \in Job : \/ Settling(k) /\ (CallsGoOn(k) \/ CallsEnd(k))
                             \/ First(s, k)
<1>0. TypeOK /\ LiveInv /\ SubmitInv /\ rec \in [Job -> Records]
  BY DEF IInv, TypeOK
<1> USE <1>0 DEF OriginInv, hosts, children, callers, worker, locks
<1>1. CASE Start(s)
  <2>1. PICK ok \in [Reconcilable(s) -> BOOLEAN] :
           /\ rec' = ReconciledRecords(Reconcilable(s), ok)
           /\ promoted' = ReconcilePromotions(Reconcilable(s), ok)
    BY <1>1 DEF Start
  <2>2. \A k \in Job : Settling(k)
    BY <2>1, ReconciledEffect
  <2>3. QED
    BY <1>1, <2>1, <2>2 DEF Start, ReconcilePromotions, CallsGoOn
<1>2. ASSUME ProcessDies(s)
      PROVE  \A k \in Job : CallsGoOn(k) \/ CallsEnd(k)
  BY <1>2, Death DEF CallsGoOn, CallsEnd
<1>3. CASE Crash(s)
  BY <1>2, <1>3 DEF Crash, ProcessDies, Settling, Kept
<1>4. CASE Admission(s)
  <2>1. PICK K \in SUBSET Reconcilable(s) : \E ok \in [K -> BOOLEAN] :
           /\ rec' = ReconciledRecords(K, ok) /\ promoted' = ReconcilePromotions(K, ok)
    BY <1>4 DEF Admission
  <2>2. PICK ok \in [K -> BOOLEAN] :
           /\ rec' = ReconciledRecords(K, ok) /\ promoted' = ReconcilePromotions(K, ok)
    BY <2>1
  <2>3. \A k \in Job : Settling(k)
    BY <2>2, ReconciledEffect
  <2>4. QED
    BY <1>4, <2>2, <2>3 DEF Admission, ReconcilePromotions, CallsGoOn
<1>5. ASSUME NEW j \in Job, Reconcile(s, j)
      PROVE  /\ stage' = stage /\ code' = code /\ permit' = permit
             /\ lease' = lease /\ promoted \subseteq promoted'
             /\ started' = started /\ live' = live
             /\ \A k \in Job : Settling(k) /\ CallsGoOn(k)
  <2>1. PICK ok \in BOOLEAN :
           /\ rec' = [rec EXCEPT ![j] = Reconciled(j, ok)]
           /\ promoted' = ReconcilePromotions({j}, [k \in {j} |-> ok])
    BY <1>5 DEF Reconcile
  <2>2. \A k \in Job : k \in promoted' <=> k \in promoted \/ (k = j /\ Promotable(j) /\ ok)
    BY <2>1 DEF ReconcilePromotions
  <2>3. Orphan(j)
    BY <1>5 DEF Reconcile, Reconcilable, Orphan
  <2>4. Settling(j)
    BY <2>1, <2>2, <2>3 DEF Settling, SettledAs, Reconciled
  <2>5. \A k \in Job \ {j} : Settling(k)
    BY <2>1, <2>2 DEF Settling, Kept
  <2>6. QED
    BY <1>5, <2>1, <2>4, <2>5 DEF Reconcile, CallsGoOn, ReconcilePromotions
<1>6. ASSUME NEW j \in Job, ReconcileCrash(s, j)
      PROVE  /\ stage' = stage /\ code' = code /\ permit' = permit
             /\ lease' = lease /\ promoted \subseteq promoted'
             /\ started' = started /\ live' \subseteq live
             /\ \A k \in Job : Settling(k) /\ (CallsGoOn(k) \/ CallsEnd(k))
  <2>1. Orphan(j)
    BY <1>6 DEF ReconcileCrash, Reconcilable, Orphan
  <2>2. QED
    BY <1>2, <1>6, <2>1 DEF ReconcileCrash, ProcessDies, Settling, Kept
<1>7. ASSUME NEW j \in Job, SubmitRecord(s, j)
      PROVE  /\ stage' = stage /\ code' = code /\ permit' = permit
             /\ lease' = NoLease /\ promoted \subseteq promoted'
             /\ started' = started /\ live' = live
             /\ \A k \in Job : (Settling(k) /\ CallsGoOn(k)) \/ First(s, k)
  <2>1. PICK ok \in [Reconcilable(s) -> BOOLEAN] :
           /\ rec' = [ReconciledRecords(Reconcilable(s), ok) EXCEPT ![j] = QueuedRecord(s)]
           /\ promoted' = ReconcilePromotions(Reconcilable(s), ok)
    BY <1>7 DEF SubmitRecord
  <2>2. rec[j].state = "absent" /\ s \in live'
    BY <1>7 DEF SubmitRecord, CanLock
  <2>3. First(s, j)
    <3>1. rec'[j] = QueuedRecord(s)
      BY <2>1 DEF ReconciledRecords
    <3>2. sub'[j] = "recorded" /\ wpc' = wpc /\ cpc' = cpc
      BY <1>7 DEF SubmitRecord, TypeOK
    <3>3. j \notin Reconcilable(s)
      BY <2>2 DEF Reconcilable, ActiveStates
    <3>4. j \in promoted' => j \in promoted
      BY <2>1, <3>3 DEF ReconcilePromotions
    <3>5. QED
      BY <2>2, <3>1, <3>2, <3>4 DEF First
  <2>4. ASSUME NEW k \in Job \ {j} PROVE Settling(k) /\ CallsGoOn(k)
    <3>1. rec'[k] = ReconciledRecords(Reconcilable(s), ok)[k]
      BY <2>1 DEF ReconciledRecords
    <3>2. CASE k \notin Reconcilable(s)
      <4>1. rec'[k] = rec[k]
        BY <3>1, <3>2 DEF ReconciledRecords
      <4>2. QED
        BY <1>7, <2>1, <3>2, <4>1
           DEF SubmitRecord, ReconcilePromotions, Settling, Kept, CallsGoOn
    <3>3. CASE k \in Reconcilable(s)
      <4>1. Orphan(k)
        BY <3>3 DEF Reconcilable, Orphan
      <4>2. rec'[k] = [rec[k] EXCEPT !.state =
                          IF Promotable(k) /\ ok[k] THEN "completed" ELSE "failed"]
        BY <3>1, <3>3 DEF ReconciledRecords, Reconciled
      <4>3. k \in promoted' <=> k \in promoted \/ (Promotable(k) /\ ok[k])
        BY <2>1, <3>3 DEF ReconcilePromotions
      <4>4. Settling(k)
        BY <4>1, <4>2, <4>3 DEF Settling, SettledAs
      <4>5. QED
        BY <1>7, <4>4 DEF SubmitRecord, CallsGoOn
    <3>4. QED
      BY <3>2, <3>3
  <2>5. QED
    BY <1>7, <2>1, <2>3, <2>4 DEF SubmitRecord, ReconcilePromotions
<1>8. QED
  BY <1>1, <1>3, <1>4, <1>5, <1>6, <1>7 DEF ServiceStep, Poll

\* A step of one job leaves the others alone; only their leases may go.
LEMMA OtherJobs ==
    ASSUME TypeOK, NEW j \in Job, JobStep(j)
    PROVE  /\ live' = live /\ started' = started /\ promoted \subseteq promoted'
           /\ \A k \in Job \ {j} :
                 /\ rec'[k] = rec[k] /\ stage'[k] = stage[k] /\ code'[k] = code[k]
                 /\ sub'[k] = sub[k] /\ wpc'[k] = wpc[k] /\ cpc'[k] = cpc[k]
                 /\ k \in permit' <=> k \in permit
                 /\ k \in promoted' <=> k \in promoted
                 /\ LeaseIsOf(k)' => LeaseIsOf(k)
<1> USE ConstantsAssumption
        DEF TypeOK, LeaseIsOf, ClearedLease, NoLease, hosts, children, callers, worker,
            locks, Work, Killed
<1>1. CASE RunBegin(j) \/ RunSpawn(j) \/ RunSpawnFail(j) \/ RunRegister(j)
           \/ RunBind(j) \/ RunPermit(j) \/ RunPermitFail(j)
  BY <1>1 DEF RunBegin, RunSpawn, RunSpawnFail, RunRegister, RunBind, RunPermit,
              RunPermitFail
<1>2. CASE RunStop(j) \/ RunStopFail(j) \/ RunWait(j) \/ RunFinish(j)
           \/ RunTree(j) \/ RunAuthorize(j) \/ RunVerify(j) \/ RunPend(j)
           \/ RunPromote(j) \/ RunFinal(j) \/ RunClear(j) \/ RunExit(j)
  BY <1>2 DEF RunStop, RunStopFail, RunWait, RunFinish, RunTree, RunAuthorize, RunVerify,
              RunPend, RunPromote, RunFinal, RunClear, RunExit
<1>3. CASE ExceptStop(j) \/ ExceptSettle(j) \/ ExceptPersist(j) \/ ExceptSurvivor(j)
  BY <1>3 DEF ExceptStop, ExceptSettle, ExceptPersist, ExceptSurvivor
<1>4. CASE SubmitLease(j) \/ SubmitStart(j) \/ HandoffDone(j)
           \/ HandoffSnapshot(j) \/ HandoffFail(j) \/ CancelTerminate(j)
           \/ CancelTerminateFail(j) \/ CancelClear(j)
  BY <1>4 DEF SubmitLease, SubmitStart, HandoffDone, HandoffSnapshot, HandoffFail,
              FailedSubmission, CancelTerminate, CancelTerminateFail, CancelClear
<1>5. CASE ChildExec(j) \/ ChildGivesUp(j) \/ ChildExit(j) \/ DescendantsExit(j)
  BY <1>5 DEF ChildExec, ChildGivesUp, ChildExit, DescendantsExit
<1>6. CASE SubmitFail(j) \/ CancelRequest(j)
  BY <1>6 DEF SubmitFail, FailedSubmission, CancelRequest
<1>7. QED
  BY <1>1, <1>2, <1>3, <1>4, <1>5, <1>6
     DEF JobStep, WorkerStep, CallerStep, LaunchStep, CompletionStep, ExceptStep,
         ChildStep

------------------------------------------------------------------------------
(* Every step keeps the invariant *)

\* A service that starts was never started before, and records keep their owners.
LEMMA OriginStep == ASSUME RecordsInv, Next PROVE OriginInv'
<1>0. IInv /\ OriginInv /\ TypeOK /\ LiveInv
  BY DEF RecordsInv, IInv
<1>1. ASSUME NEW s \in Service, ServiceStep(s) PROVE OriginInv'
  <2>1. /\ started \subseteq started' /\ live' \subseteq started'
        /\ \A k \in Job : Settling(k) \/ First(s, k)
    BY <1>0, <1>1, ServiceEffects
  <2>2. ASSUME NEW k \in Job PROVE rec'[k].owner \in started' \cup {None}
    <3>1. CASE First(s, k)
      BY <2>1, <3>1 DEF First, QueuedRecord
    <3>2. CASE Settling(k)
      <4>1. rec[k] \in Records
        BY <1>0 DEF TypeOK
      <4>2. rec'[k].owner = rec[k].owner
        BY <3>2, <4>1 DEF Settling, Kept, SettledAs, Records
      <4>3. QED
        BY <1>0, <2>1, <4>2 DEF OriginInv
    <3>3. QED
      BY <2>1, <3>1, <3>2
  <2>3. QED
    BY <2>1, <2>2 DEF OriginInv
<1>2. ASSUME NEW j \in Job, JobStep(j) PROVE OriginInv'
  <2>1. \A k \in Job : rec'[k].owner = rec[k].owner
    BY <1>0, <1>2, JobRecords
  <2>2. live' = live /\ started' = started
    BY <1>0, <1>2, OtherJobs
  <2>3. QED
    BY <1>0, <2>1, <2>2 DEF OriginInv
<1>3. QED
  BY <1>1, <1>2 DEF Next

\* A service that reconciles or submits keeps what a record says.
LEMMA SoundServiceStep ==
    ASSUME RecordsInv, NEW s \in Service, ServiceStep(s), NEW k \in Job
    PROVE  Sound(k)'
<1>0. /\ IInv /\ OriginInv /\ TypeOK /\ LiveInv /\ SubmitInv /\ ChildInv /\ Sound(k)
      /\ rec[k] \in Records
  BY DEF RecordsInv, IInv, TypeOK
<1>1. /\ stage' = stage /\ code' = code /\ permit' = permit
      /\ lease' \in {lease, NoLease} /\ promoted \subseteq promoted'
      /\ rec[k].owner \in live' => rec[k].owner \in live
      /\ \/ Settling(k) /\ (CallsGoOn(k) \/ CallsEnd(k))
         \/ First(s, k)
  <2>1. TypeOK'
    BY <1>0, StepType DEF Next
  <2>2. None \notin live'
    BY <2>1, ConstantsAssumption DEF TypeOK
  <2>3. rec[k].owner \in started \cup {None}
    BY <1>0 DEF OriginInv
  <2>4. QED
    BY <1>0, <2>2, <2>3, ServiceEffects
<1>2. Hot(k)' <=> Hot(k)
  BY <1>1 DEF Hot, OnGpu
<1>3. LeaseIsOf(k)' => LeaseIsOf(k)
  BY <1>1, ConstantsAssumption DEF LeaseIsOf, NoLease
<1>4. CASE First(s, k)
  <2>1. /\ sub[k] = "none" /\ wpc[k] = "none" /\ stage[k] = "none" /\ cpc[k] = "none"
        /\ k \notin promoted
    BY <1>0, <1>4 DEF First, LiveInv, SubmitInv, ChildInv, Sound, Promoted
  <2>2. /\ rec'[k].state = "queued" /\ wpc'[k] = "none" /\ cpc'[k] = "none"
        /\ k \notin promoted' /\ ~Hot(k)'
    BY <1>2, <1>4, <2>1 DEF First, QueuedRecord, NoRecord, Hot, OnGpu
  <2>3. QED
    BY <1>0, <1>1, <1>4, <2>1, <2>2
       DEF Sound, Stopping, Cancelling, Verified, Promoted, Completed, TerminalStates,
           Verifying, First
<1>5. ASSUME Settling(k), CallsGoOn(k) \/ CallsEnd(k)
      PROVE  Sound(k)'
  <2>1. CASE Kept(k)
    <3>1. k \in promoted' /\ k \notin promoted => /\ rec[k].owner \notin live
                                                   /\ rec[k].state \in ActiveStates
      BY <2>1 DEF Kept, Orphan
    <3>2. Stopping(k)'
      BY <1>0, <1>1, <1>2, <1>3, <1>5, <2>1
         DEF Kept, CallsGoOn, CallsEnd, Sound, Stopping
    <3>3. Verified(k)' /\ Completed(k)'
      BY <1>0, <1>1, <1>5, <2>1
         DEF Kept, CallsGoOn, CallsEnd, Sound, Verified, Completed, Verifying
    <3>4. Promoted(k)'
      BY <1>0, <1>1, <1>5, <2>1, <3>1
         DEF Kept, CallsGoOn, CallsEnd, Sound, Promoted, ActiveStates
    <3>5. Cancelling(k)'
      BY <1>0, <1>5, <2>1 DEF Kept, CallsGoOn, CallsEnd, Sound, Cancelling
    <3>6. QED
      BY <3>2, <3>3, <3>4, <3>5 DEF Sound
  <2>2. ASSUME NEW st \in {"completed", "failed"}, SettledAs(k, st)
        PROVE  Sound(k)'
    <3>1. /\ rec'[k].state = st /\ rec'[k].owner = rec[k].owner
          /\ rec'[k].launched = rec[k].launched /\ rec'[k].code = rec[k].code
          /\ rec'[k].evidence = rec[k].evidence
      BY <1>0, <2>2 DEF SettledAs, Records
    <3>2. /\ rec[k].owner \notin live /\ rec[k].owner \notin live' /\ ~RecordChildLive(k)
          /\ rec[k].state \in ActiveStates
      BY <1>1, <2>2 DEF SettledAs, Orphan
    <3>3. /\ sub'[k] \in {"none", "failed", "done"} /\ wpc'[k] \in {"none", "done"}
          /\ cpc'[k] = "none"
      BY <1>0, <1>5, <3>2 DEF CallsGoOn, CallsEnd, LiveInv, Sound, Cancelling
    <3>4. ~Hot(k)
      BY <1>0, <3>2 DEF Sound, Stopping, RecordChildLive, ChildLive, Hot, OnGpu
    <3>5. Stopping(k)' /\ Cancelling(k)' /\ Verified(k)'
      BY <1>0, <1>1, <1>2, <3>3, <3>4
         DEF Sound, Stopping, Cancelling, Verified, Verifying
    <3>6. Promoted(k)'
      BY <3>1, <3>2 DEF Promoted
    <3>7. Completed(k)'
      BY <2>2, <3>1, <3>3 DEF Completed, SettledAs, Promotable
    <3>8. QED
      BY <3>5, <3>6, <3>7 DEF Sound
  <2>3. QED
    BY <1>5, <2>1, <2>2 DEF Settling
<1>6. QED
  BY <1>1, <1>4, <1>5

\* The child of a job is gone before its record becomes terminal, or was given up.
LEMMA StoppingStep ==
    ASSUME RecordsInv, NEW j \in Job, JobStep(j)
    PROVE  Stopping(j)'
<1>0. /\ TypeOK /\ LiveInv /\ LockInv /\ SubmitInv /\ ChildInv /\ MapInv
      /\ CoverInv /\ RecordInv /\ Sound(j) /\ rec[j] \in Records /\ snap[j] \in Records
  BY DEF RecordsInv, IInv, TypeOK
<1> USE ConstantsAssumption
<1> USE DEF TypeOK, LiveInv, LockInv, SubmitInv, ChildInv, MapInv,
            RecordInv, WorkerHolds, Sound, CoverInv, Covered, Stopping,
            Cancelling, Records, ChildLive, Hot, OnGpu, ActiveStates, CancelStates,
            TerminalStates, LeaseIsOf, ClearedLease, NoLease, Work, Killed, hosts,
            children, callers, worker, locks
<1>1. CASE RunBegin(j)
  BY <1>1, <1>0 DEF RunBegin, WorkerLocks, CanLock
<1>2. CASE RunRegister(j)
  BY <1>2, <1>0 DEF RunRegister, WorkerLocks, CanLock, RegisteredState
<1>3. CASE RunBind(j)
  BY <1>3, <1>0 DEF RunBind
<1>4. CASE RunSpawn(j) \/ RunSpawnFail(j) \/ RunPermit(j) \/ RunPermitFail(j)
  BY <1>4, <1>0 DEF RunSpawn, RunSpawnFail, RunPermit, RunPermitFail
<1>5. CASE RunFinish(j)
  BY <1>5, <1>0 DEF RunFinish, WorkerLocks, CanLock
<1>6. CASE RunStop(j) \/ RunStopFail(j) \/ RunWait(j) \/ RunTree(j)
  BY <1>6, <1>0 DEF RunStop, RunStopFail, RunWait, RunTree
<1>7. CASE RunAuthorize(j)
  BY <1>7, <1>0 DEF RunAuthorize, WorkerLocks, CanLock
<1>8. CASE RunPend(j)
  BY <1>8, <1>0 DEF RunPend, WorkerLocks, CanLock
<1>9. CASE RunVerify(j) \/ RunPromote(j)
  BY <1>9, <1>0 DEF RunVerify, RunPromote
<1>10. CASE RunFinal(j)
  BY <1>10, <1>0 DEF RunFinal, WorkerLocks, CanLock, FinalRecord, FinalState, States
<1>11. CASE RunClear(j) \/ RunExit(j)
  BY <1>11, <1>0 DEF RunClear, RunExit
<1>12. CASE ExceptPersist(j)
  BY <1>12, <1>0 DEF ExceptPersist
<1>13. CASE ExceptSurvivor(j)
  <2>1. CASE rec' = rec
    BY <1>0, <1>13, <2>1 DEF ExceptSurvivor
  <2>2. CASE rec' = [rec EXCEPT ![j].state = "cancelling"] /\ rec[j].state \notin TerminalStates
    <3>1. rec[j].state \in ActiveStates
      BY <1>0, <1>13, <2>2 DEF ExceptSurvivor, States
    <3>2. rec'[j].launched = rec[j].launched /\ rec'[j].state = "cancelling"
      BY <1>0, <2>2
    <3>3. /\ wpc'[j] = "exit" /\ stage' = stage /\ permit' = permit /\ code' = code
          /\ sub' = sub
      BY <1>0, <1>13 DEF ExceptSurvivor
    <3>4. sub[j] \notin {"recorded", "leased"}
      BY <1>0, <1>13 DEF ExceptSurvivor
    <3>5. QED
      BY <1>0, <3>1, <3>2, <3>3, <3>4
  <2>3. QED
    BY <1>13, <2>1, <2>2 DEF ExceptSurvivor
<1>14. CASE ExceptStop(j) \/ ExceptSettle(j)
  BY <1>14, <1>0 DEF ExceptStop, ExceptSettle, WorkerLocks, CanLock
<1>15. CASE SubmitFail(j)
  BY <1>15, <1>0 DEF SubmitFail, FailedSubmission
<1>16. CASE HandoffFail(j)
  BY <1>16, <1>0 DEF HandoffFail, FailedSubmission, WorkerLocks, CanLock
<1>17. CASE SubmitLease(j) \/ SubmitStart(j) \/ HandoffDone(j)
            \/ HandoffSnapshot(j)
  BY <1>17, <1>0
     DEF SubmitLease, SubmitStart, HandoffDone, HandoffSnapshot, QueuedRecord
<1>18. CASE CancelRequest(j)
  BY <1>18, <1>0 DEF CancelRequest, CanLock, VerificationInProgress, ProcessTreeAlive
<1>19. CASE CancelTerminate(j)
  BY <1>19, <1>0 DEF CancelTerminate
<1>20. CASE CancelTerminateFail(j) \/ CancelClear(j)
  BY <1>20, <1>0 DEF CancelTerminateFail, CancelClear
<1>21. CASE ChildExec(j) \/ ChildGivesUp(j) \/ ChildExit(j)
            \/ DescendantsExit(j)
  BY <1>21, <1>0 DEF ChildExec, ChildGivesUp, ChildExit, DescendantsExit
<1>22. QED
  BY <1>1, <1>2, <1>3, <1>4, <1>5, <1>6, <1>7, <1>8, <1>9, <1>10, <1>11, <1>12, <1>13,
     <1>14, <1>15, <1>16, <1>17, <1>18, <1>19, <1>20, <1>21
     DEF JobStep, WorkerStep, CallerStep, LaunchStep, CompletionStep, ExceptStep,
         ChildStep

\* The lock of the section keeps every other writer of the record out.
LEMMA CancellingStep ==
    ASSUME RecordsInv, NEW j \in Job, JobStep(j)
    PROVE  Cancelling(j)'
<1>0. /\ TypeOK /\ LiveInv /\ LockInv /\ SubmitInv /\ ChildInv /\ MapInv
      /\ CoverInv /\ RecordInv /\ Sound(j) /\ rec[j] \in Records /\ snap[j] \in Records
  BY DEF RecordsInv, IInv, TypeOK
<1> USE ConstantsAssumption
<1> USE DEF TypeOK, LiveInv, LockInv, SubmitInv, ChildInv, MapInv,
            RecordInv, WorkerHolds, Sound, Cancelling, Records, ChildLive, Hot, OnGpu,
            ActiveStates, CancelStates, TerminalStates, LeaseIsOf, ClearedLease,
            NoLease, Work, Killed, hosts, children, callers, worker, locks
<1>1. CASE RunBegin(j) \/ RunSpawn(j) \/ RunSpawnFail(j) \/ RunRegister(j)
           \/ RunBind(j) \/ RunPermit(j) \/ RunPermitFail(j)
  BY <1>1, <1>0
     DEF RunBegin, RunSpawn, RunSpawnFail, RunRegister, RunBind, RunPermit,
         RunPermitFail, WorkerLocks, CanLock, RegisteredState
<1>2. CASE RunStop(j) \/ RunStopFail(j) \/ RunWait(j) \/ RunFinish(j)
           \/ RunTree(j)
  BY <1>2, <1>0
     DEF RunStop, RunStopFail, RunWait, RunFinish, RunTree, WorkerLocks, CanLock
<1>3. CASE RunAuthorize(j) \/ RunVerify(j) \/ RunPend(j) \/ RunPromote(j)
  BY <1>3, <1>0 DEF RunAuthorize, RunVerify, RunPend, RunPromote, WorkerLocks, CanLock
<1>4. CASE RunFinal(j) \/ RunClear(j) \/ RunExit(j)
  BY <1>4, <1>0
     DEF RunFinal, RunClear, RunExit, WorkerLocks, CanLock, FinalRecord, FinalState,
         States
<1>5. CASE ExceptStop(j) \/ ExceptSettle(j) \/ ExceptPersist(j)
           \/ ExceptSurvivor(j)
  BY <1>5, <1>0
     DEF ExceptStop, ExceptSettle, ExceptPersist, ExceptSurvivor, WorkerLocks, CanLock
<1>6. CASE SubmitLease(j) \/ SubmitStart(j) \/ SubmitFail(j) \/ HandoffDone(j)
           \/ HandoffSnapshot(j) \/ HandoffFail(j)
  BY <1>6, <1>0
     DEF SubmitLease, SubmitStart, SubmitFail, FailedSubmission, HandoffDone,
         HandoffSnapshot, QueuedRecord, NoRecord,
         HandoffFail, RecordsFree, VerificationInProgress, WorkerLocks, CanLock
<1>7. CASE CancelRequest(j)
  BY <1>7, <1>0 DEF CancelRequest, CanLock, VerificationInProgress, ProcessTreeAlive
<1>8. CASE CancelTerminate(j)
  BY <1>8, <1>0 DEF CancelTerminate
<1>9. CASE CancelTerminateFail(j) \/ CancelClear(j)
  BY <1>9, <1>0 DEF CancelTerminateFail, CancelClear
<1>10. CASE ChildExec(j) \/ ChildGivesUp(j) \/ ChildExit(j)
            \/ DescendantsExit(j)
  BY <1>10, <1>0 DEF ChildExec, ChildGivesUp, ChildExit, DescendantsExit
<1>11. QED
  BY <1>1, <1>2, <1>3, <1>4, <1>5, <1>6, <1>7, <1>8, <1>9, <1>10
     DEF JobStep, WorkerStep, CallerStep, LaunchStep, CompletionStep, ExceptStep,
         ChildStep

\* Cancellation is refused from the moment verification is recorded.
LEMMA VerifiedStep ==
    ASSUME RecordsInv, NEW j \in Job, JobStep(j)
    PROVE  Verified(j)'
<1>0. /\ TypeOK /\ LiveInv /\ LockInv /\ SubmitInv /\ ChildInv /\ MapInv
      /\ CoverInv /\ RecordInv /\ Sound(j) /\ rec[j] \in Records /\ snap[j] \in Records
  BY DEF RecordsInv, IInv, TypeOK
<1> USE ConstantsAssumption
<1> USE DEF TypeOK, LiveInv, LockInv, SubmitInv, ChildInv, MapInv,
            RecordInv, WorkerHolds, Sound, Stopping, Verified, Verifying, Records,
            ChildLive, Hot, OnGpu, ActiveStates, CancelStates, TerminalStates,
            LeaseIsOf, ClearedLease, NoLease, Work, Killed, hosts, children, callers,
            worker, locks
<1>1. CASE RunBegin(j) \/ RunSpawn(j) \/ RunSpawnFail(j) \/ RunRegister(j)
           \/ RunBind(j) \/ RunPermit(j) \/ RunPermitFail(j)
  BY <1>1, <1>0
     DEF RunBegin, RunSpawn, RunSpawnFail, RunRegister, RunBind, RunPermit,
         RunPermitFail, WorkerLocks, CanLock, RegisteredState
<1>2. CASE RunStop(j) \/ RunStopFail(j) \/ RunWait(j) \/ RunFinish(j)
           \/ RunTree(j)
  BY <1>2, <1>0
     DEF RunStop, RunStopFail, RunWait, RunFinish, RunTree, WorkerLocks, CanLock
<1>3. CASE RunAuthorize(j)
  <2>1. CASE rec[j].state \in CancelStates
    BY <1>0, <1>3, <2>1 DEF RunAuthorize, WorkerLocks, CanLock
  <2>2. CASE rec[j].state \notin CancelStates
    <3>1. /\ wpc[j] = "authorize" /\ glock = None
          /\ rec' = [rec EXCEPT ![j] = [rec[j] EXCEPT !.verifying = TRUE, !.code = code[j]]]
          /\ wpc'[j] = IF j \in Train /\ code[j] = "ok" THEN "verify" ELSE "final"
          /\ cpc' = cpc /\ code' = code
      BY <1>0, <1>3, <2>2 DEF RunAuthorize, WorkerLocks, CanLock
    <3>2. cpc[j] = "none" /\ code[j] # "none"
      BY <1>0, <3>1
    <3>3. /\ rec'[j].state = rec[j].state /\ rec'[j].verifying
          /\ rec'[j].code = code[j]
      BY <1>0, <3>1
    <3>4. QED
      BY <2>2, <3>1, <3>2, <3>3
  <2>3. QED
    BY <1>3, <2>1, <2>2 DEF RunAuthorize
<1>4. CASE RunPromote(j)
  BY <1>4, <1>0 DEF RunPromote
<1>5. CASE RunVerify(j) \/ RunPend(j)
  BY <1>5, <1>0 DEF RunVerify, RunPend, WorkerLocks, CanLock
<1>6. CASE RunFinal(j) \/ RunClear(j) \/ RunExit(j)
  BY <1>6, <1>0
     DEF RunFinal, RunClear, RunExit, WorkerLocks, CanLock, FinalRecord, FinalState,
         States
<1>7. CASE ExceptStop(j) \/ ExceptSettle(j) \/ ExceptPersist(j)
           \/ ExceptSurvivor(j)
  BY <1>7, <1>0
     DEF ExceptStop, ExceptSettle, ExceptPersist, ExceptSurvivor, WorkerLocks, CanLock
<1>8. CASE SubmitLease(j) \/ SubmitStart(j) \/ SubmitFail(j) \/ HandoffDone(j)
           \/ HandoffSnapshot(j) \/ HandoffFail(j)
  BY <1>8, <1>0
     DEF SubmitLease, SubmitStart, SubmitFail, FailedSubmission, HandoffDone,
         HandoffSnapshot, QueuedRecord, NoRecord,
         HandoffFail, RecordsFree, VerificationInProgress, WorkerLocks, CanLock
<1>9. CASE CancelRequest(j)
  BY <1>9, <1>0 DEF CancelRequest, CanLock, VerificationInProgress, ProcessTreeAlive
<1>10. CASE CancelTerminate(j)
  BY <1>10, <1>0 DEF CancelTerminate
<1>11. CASE CancelTerminateFail(j) \/ CancelClear(j)
  BY <1>11, <1>0 DEF CancelTerminateFail, CancelClear
<1>12. CASE ChildExec(j) \/ ChildGivesUp(j) \/ ChildExit(j)
            \/ DescendantsExit(j)
  BY <1>12, <1>0 DEF ChildExec, ChildGivesUp, ChildExit, DescendantsExit
<1>13. QED
  BY <1>1, <1>2, <1>3, <1>4, <1>5, <1>6, <1>7, <1>8, <1>9, <1>10, <1>11, <1>12
     DEF JobStep, WorkerStep, CallerStep, LaunchStep, CompletionStep, ExceptStep,
         ChildStep

\* A promotion happens in a worker past its last cancellation point.
LEMMA PromotedStep ==
    ASSUME RecordsInv, NEW j \in Job, JobStep(j)
    PROVE  Promoted(j)'
<1>0. /\ TypeOK /\ LiveInv /\ LockInv /\ SubmitInv /\ ChildInv /\ MapInv
      /\ CoverInv /\ RecordInv /\ Sound(j) /\ rec[j] \in Records /\ snap[j] \in Records
  BY DEF RecordsInv, IInv, TypeOK
<1> USE ConstantsAssumption
<1> USE DEF TypeOK, LiveInv, LockInv, SubmitInv, ChildInv, MapInv,
            RecordInv, WorkerHolds, Sound, Verified, Verifying, Promoted, Cancelling,
            Records, ChildLive, Hot, OnGpu, ActiveStates, CancelStates, TerminalStates,
            LeaseIsOf, ClearedLease, NoLease, Work, Killed, hosts, children, callers,
            worker, locks
<1>1. CASE RunBegin(j) \/ RunSpawn(j) \/ RunSpawnFail(j) \/ RunRegister(j)
           \/ RunBind(j) \/ RunPermit(j) \/ RunPermitFail(j)
  BY <1>1, <1>0
     DEF RunBegin, RunSpawn, RunSpawnFail, RunRegister, RunBind, RunPermit,
         RunPermitFail, WorkerLocks, CanLock, RegisteredState
<1>2. CASE RunStop(j) \/ RunStopFail(j) \/ RunWait(j) \/ RunFinish(j)
           \/ RunTree(j)
  BY <1>2, <1>0
     DEF RunStop, RunStopFail, RunWait, RunFinish, RunTree, WorkerLocks, CanLock
<1>3. CASE RunAuthorize(j) \/ RunVerify(j) \/ RunPend(j) \/ RunPromote(j)
  BY <1>3, <1>0 DEF RunAuthorize, RunVerify, RunPend, RunPromote, WorkerLocks, CanLock
<1>4. CASE RunFinal(j)
  BY <1>4, <1>0 DEF RunFinal, WorkerLocks, CanLock, FinalRecord, FinalState, States
<1>5. CASE RunClear(j) \/ RunExit(j)
  BY <1>5, <1>0 DEF RunClear, RunExit
<1>6. CASE ExceptStop(j) \/ ExceptSettle(j) \/ ExceptPersist(j)
           \/ ExceptSurvivor(j)
  BY <1>6, <1>0
     DEF ExceptStop, ExceptSettle, ExceptPersist, ExceptSurvivor, WorkerLocks, CanLock
<1>7. CASE SubmitLease(j) \/ SubmitStart(j) \/ SubmitFail(j) \/ HandoffDone(j)
           \/ HandoffSnapshot(j) \/ HandoffFail(j)
  BY <1>7, <1>0
     DEF SubmitLease, SubmitStart, SubmitFail, FailedSubmission, HandoffDone,
         HandoffSnapshot, QueuedRecord, NoRecord,
         HandoffFail, RecordsFree, VerificationInProgress, WorkerLocks, CanLock
<1>8. CASE CancelRequest(j) \/ CancelTerminate(j) \/ CancelTerminateFail(j)
           \/ CancelClear(j)
  BY <1>8, <1>0
     DEF CancelRequest, CancelTerminate, CancelTerminateFail, CancelClear, CanLock,
         VerificationInProgress, ProcessTreeAlive
<1>9. CASE ChildExec(j) \/ ChildGivesUp(j) \/ ChildExit(j)
           \/ DescendantsExit(j)
  BY <1>9, <1>0 DEF ChildExec, ChildGivesUp, ChildExit, DescendantsExit
<1>10. QED
  BY <1>1, <1>2, <1>3, <1>4, <1>5, <1>6, <1>7, <1>8, <1>9
     DEF JobStep, WorkerStep, CallerStep, LaunchStep, CompletionStep, ExceptStep,
         ChildStep

\* Only the terminal write of a worker completes a record of its own job.
LEMMA CompletedStep ==
    ASSUME RecordsInv, NEW j \in Job, JobStep(j)
    PROVE  Completed(j)'
<1>0. /\ TypeOK /\ LiveInv /\ LockInv /\ SubmitInv /\ ChildInv /\ MapInv
      /\ CoverInv /\ RecordInv /\ Sound(j) /\ rec[j] \in Records /\ snap[j] \in Records
  BY DEF RecordsInv, IInv, TypeOK
<1> USE ConstantsAssumption
<1> USE DEF TypeOK, LiveInv, LockInv, SubmitInv, ChildInv, MapInv,
            RecordInv, WorkerHolds, Sound, Stopping, Verified, Verifying, Cancelling,
            Completed, Records, ChildLive, Hot, OnGpu, ActiveStates, CancelStates,
            TerminalStates, LeaseIsOf, ClearedLease, NoLease, Work, Killed, hosts,
            children, callers, worker, locks
<1>1. CASE RunBegin(j)
  BY <1>1, <1>0 DEF RunBegin, WorkerLocks, CanLock
<1>2. CASE RunRegister(j)
  BY <1>2, <1>0 DEF RunRegister, WorkerLocks, CanLock, RegisteredState
<1>3. CASE RunSpawn(j) \/ RunSpawnFail(j) \/ RunBind(j) \/ RunPermit(j)
           \/ RunPermitFail(j)
  BY <1>3, <1>0 DEF RunSpawn, RunSpawnFail, RunBind, RunPermit, RunPermitFail
<1>4. CASE RunFinish(j)
  BY <1>4, <1>0 DEF RunFinish, WorkerLocks, CanLock
<1>5. CASE RunStop(j) \/ RunStopFail(j) \/ RunWait(j) \/ RunTree(j)
  BY <1>5, <1>0 DEF RunStop, RunStopFail, RunWait, RunTree
<1>6. CASE RunAuthorize(j)
  <2>1. CASE rec' = rec
    BY <1>0, <1>6, <2>1 DEF RunAuthorize
  <2>2. CASE rec' = [rec EXCEPT ![j] = [rec[j] EXCEPT !.verifying = TRUE, !.code = code[j]]]
    BY <1>0, <1>6, <2>2 DEF RunAuthorize
  <2>3. QED
    BY <1>6, <2>1, <2>2 DEF RunAuthorize
<1>7. CASE RunPend(j)
  BY <1>7, <1>0 DEF RunPend, WorkerLocks, CanLock
<1>8. CASE RunPromote(j)
  BY <1>8, <1>0 DEF RunPromote
<1>9. CASE RunVerify(j)
  BY <1>9, <1>0 DEF RunVerify
<1>10. CASE RunFinal(j)
  BY <1>10, <1>0 DEF RunFinal, WorkerLocks, CanLock, FinalRecord, FinalState, States
<1>11. CASE RunClear(j) \/ RunExit(j)
  BY <1>11, <1>0 DEF RunClear, RunExit
<1>12. CASE ExceptPersist(j)
  BY <1>12, <1>0 DEF ExceptPersist
<1>13. CASE ExceptSurvivor(j)
  BY <1>13, <1>0 DEF ExceptSurvivor, WorkerLocks, CanLock
<1>14. CASE ExceptStop(j) \/ ExceptSettle(j)
  BY <1>14, <1>0 DEF ExceptStop, ExceptSettle, WorkerLocks, CanLock
<1>15. CASE SubmitFail(j)
  BY <1>15, <1>0 DEF SubmitFail, FailedSubmission
<1>16. CASE HandoffFail(j)
  BY <1>16, <1>0 DEF HandoffFail, FailedSubmission, WorkerLocks, CanLock
<1>17. CASE SubmitLease(j) \/ SubmitStart(j) \/ HandoffDone(j)
            \/ HandoffSnapshot(j)
  BY <1>17, <1>0
     DEF SubmitLease, SubmitStart, HandoffDone, HandoffSnapshot, QueuedRecord
<1>18. CASE CancelRequest(j)
  BY <1>18, <1>0 DEF CancelRequest, CanLock, VerificationInProgress, ProcessTreeAlive
<1>19. CASE CancelTerminate(j)
  BY <1>19, <1>0 DEF CancelTerminate
<1>20. CASE CancelTerminateFail(j) \/ CancelClear(j)
  BY <1>20, <1>0 DEF CancelTerminateFail, CancelClear
<1>21. CASE ChildExec(j) \/ ChildGivesUp(j) \/ ChildExit(j)
            \/ DescendantsExit(j)
  BY <1>21, <1>0 DEF ChildExec, ChildGivesUp, ChildExit, DescendantsExit
<1>22. QED
  BY <1>1, <1>2, <1>3, <1>4, <1>5, <1>6, <1>7, <1>8, <1>9, <1>10, <1>11, <1>12, <1>13,
     <1>14, <1>15, <1>16, <1>17, <1>18, <1>19, <1>20, <1>21
     DEF JobStep, WorkerStep, CallerStep, LaunchStep, CompletionStep, ExceptStep,
         ChildStep

\* A step keeps what every record says.
LEMMA RecordsStep == RecordsInv /\ [Next]_vars => RecordsInv'
<1> SUFFICES ASSUME RecordsInv, [Next]_vars PROVE RecordsInv'
  OBVIOUS
<1>1. IInv'
  BY NextIInv DEF RecordsInv
<1>2. CASE Next
  <2>1. OriginInv'
    BY <1>2, OriginStep
  <2>2. ASSUME NEW s \in Service, ServiceStep(s), NEW k \in Job PROVE Sound(k)'
    BY <2>2, SoundServiceStep
  <2>3. ASSUME NEW j \in Job, JobStep(j), NEW k \in Job PROVE Sound(k)'
    <3>1. CASE k = j
      BY <2>3, <3>1, StoppingStep, CancellingStep, VerifiedStep, PromotedStep,
         CompletedStep DEF Sound
    <3>2. CASE k # j
      <4>1. TypeOK /\ Sound(k)
        BY DEF RecordsInv, IInv
      <4>2. /\ live' = live /\ rec'[k] = rec[k] /\ stage'[k] = stage[k]
            /\ code'[k] = code[k] /\ sub'[k] = sub[k] /\ wpc'[k] = wpc[k]
            /\ cpc'[k] = cpc[k] /\ (k \in permit' <=> k \in permit)
            /\ (k \in promoted' <=> k \in promoted)
            /\ (LeaseIsOf(k)' => LeaseIsOf(k))
        BY <2>3, <3>2, <4>1, OtherJobs
      <4>3. QED
        BY <4>1, <4>2 DEF Sound, Stopping, Cancelling, Verified, Promoted, Completed, Hot,
                          OnGpu
    <3>3. QED
      BY <3>1, <3>2
  <2>4. QED
    BY <1>1, <1>2, <2>1, <2>2, <2>3 DEF Next, RecordsInv
<1>3. CASE UNCHANGED vars
  BY <1>1, <1>3
     DEF vars, RecordsInv, OriginInv, Sound, Stopping, Cancelling, Verified, Promoted,
         Completed, LeaseIsOf, Hot, OnGpu
<1>4. QED
  BY <1>2, <1>3

\* What the records say holds in every behaviour, with every fault.
THEOREM RecordsInvariant == Spec => []RecordsInv
<1>1. Init => RecordsInv
  <2> SUFFICES ASSUME Init PROVE RecordsInv
    OBVIOUS
  <2>1. IInv
    BY InitIInv
  <2>2. \A j \in Job : rec[j].state = "absent" /\ rec[j].owner = None
    BY DEF Init, NoRecord
  <2>3. OriginInv
    BY <2>2 DEF Init, OriginInv
  <2>4. ASSUME NEW j \in Job PROVE Sound(j)
    BY <2>2 DEF Init, Sound, Stopping, Cancelling, Verified, Promoted, Completed, Hot,
                OnGpu, TerminalStates, Verifying
  <2>5. QED
    BY <2>1, <2>3, <2>4 DEF RecordsInv
<1>2. RecordsInv /\ [Next]_vars => RecordsInv'
  BY RecordsStep
<1>3. QED
  BY <1>1, <1>2, PTL DEF Spec

\* Under every fault and crash the lease of a child and the truth of its record are
\* lost only where the submission gave the job up.
THEOREM LossConfined == Spec => []HandoffLossConfined
<1>1. RecordsInv => HandoffLossConfined
  BY DEF RecordsInv, IInv, CoverInv, Covered, Sound, Stopping, Hot, HandoffLossConfined
<1>2. QED
  BY <1>1, RecordsInvariant, PTL

\* A terminal record never describes a child that still uses the GPU, whatever
\* services crash and whichever of worker, canceller and reconciliation wrote it,
\* while the files hold out under the end of every submission.
THEOREM TerminalStopped == ASSUME ~SubmitFaults PROVE Spec => []TerminalMeansStopped
<1>1. RecordsInv => TerminalMeansStopped
  BY DEF RecordsInv, IInv, FaultInv, Sound, Stopping, Hot, TerminalMeansStopped
<1>2. QED
  BY <1>1, RecordsInvariant, PTL

\* A completed train job was verified and promoted after its child returned 0, also
\* when a later service completed it for a parent that crashed.
THEOREM CompletedPromoted == Spec => []CompletedMeansPromoted
<1>1. RecordsInv => CompletedMeansPromoted
  BY DEF RecordsInv, Sound, Completed, CompletedMeansPromoted
<1>2. QED
  BY <1>1, RecordsInvariant, PTL

\* A cancelled job leaves no promoted report behind: the promotion and an accepted
\* cancellation exclude each other, with a crash between them or without.
THEOREM CancelledUnpromoted == Spec => []CancelledMeansUnpromoted
<1>1. RecordsInv => CancelledMeansUnpromoted
  BY DEF RecordsInv, Sound, Promoted, CancelledMeansUnpromoted
<1>2. QED
  BY <1>1, RecordsInvariant, PTL

------------------------------------------------------------------------------
(* The run states: while the files hold out under the end of a submission *)

\* The worker's program point goes with the state of the record, and evidence is
\* recorded in "running" alone.
Ordered(j) ==
    /\ wpc[j] \in {"begin", "spawn", "register"} => rec[j].state \in {"queued", "cancelling"}
    /\ wpc[j] \in {"bind", "permit", "stop", "wait", "finish", "tree", "authorize", "final"}
          => rec[j].state \in {"running", "cancelling", "cancelled"}
    /\ wpc[j] \in Verifying => rec[j].state = "running"
    /\ wpc[j] = "persist" => rec[j].state \in ActiveStates
    /\ rec[j].evidence =>
          /\ rec[j].owner \in live
                => wpc[j] \in {"promote", "reject", "final", "clear", "exit", "done"}
          /\ rec[j].state \in ActiveStates =>
                rec[j].state = "running" /\ rec[j].verifying /\ rec[j].code # "none"

OrderInv == RecordsInv /\ \A j \in Job : Ordered(j)

\* A service that reconciles settles records without a worker.
LEMMA OrderedServiceStep ==
    ASSUME OrderInv, NEW s \in Service, ServiceStep(s), NEW k \in Job
    PROVE  Ordered(k)'
<1>0. /\ IInv /\ OriginInv /\ TypeOK /\ LiveInv /\ SubmitInv /\ Ordered(k)
      /\ rec[k] \in Records
  BY DEF OrderInv, RecordsInv, IInv, TypeOK
<1>1. /\ rec[k].owner \in live' => rec[k].owner \in live
      /\ \/ Settling(k) /\ (CallsGoOn(k) \/ CallsEnd(k))
         \/ First(s, k)
  <2>1. None \notin live'
    BY <1>0, StepType, ConstantsAssumption DEF Next, TypeOK
  <2>2. QED
    BY <1>0, <2>1, ServiceEffects DEF OriginInv
<1>2. CASE First(s, k)
  <2>1. wpc'[k] = "none" /\ ~rec'[k].evidence
    BY <1>0, <1>2 DEF First, LiveInv, SubmitInv, QueuedRecord, NoRecord
  <2>2. QED
    BY <2>1 DEF Ordered, Verifying
<1>3. CASE Kept(k) /\ (CallsGoOn(k) \/ CallsEnd(k))
  BY <1>0, <1>1, <1>3 DEF Ordered, Verifying, Kept, CallsGoOn, CallsEnd
<1>4. ASSUME NEW st \in {"completed", "failed"}, SettledAs(k, st),
             CallsGoOn(k) \/ CallsEnd(k)
      PROVE  Ordered(k)'
  <2>1. rec'[k].state = st /\ rec'[k].owner = rec[k].owner
    BY <1>0, <1>4 DEF SettledAs, Records
  <2>2. rec[k].owner \notin live /\ rec[k].owner \notin live'
    BY <1>1, <1>4 DEF SettledAs, Orphan
  <2>3. wpc'[k] \in {"none", "done"}
    BY <1>0, <1>4, <2>2 DEF CallsGoOn, CallsEnd, LiveInv
  <2>4. QED
    BY <2>1, <2>2, <2>3 DEF Ordered, Verifying, ActiveStates
<1>5. QED
  BY <1>1, <1>2, <1>3, <1>4 DEF Settling

\* A worker finds the record where it left it, or a cancellation.
LEMMA OrderedStep ==
    ASSUME ~SubmitFaults, OrderInv, NEW j \in Job, JobStep(j)
    PROVE  Ordered(j)'
<1>0. /\ TypeOK /\ LiveInv /\ LockInv /\ SubmitInv /\ ChildInv /\ FaultInv
      /\ Sound(j) /\ Ordered(j) /\ ~SubmitFaults /\ rec[j] \in Records
  BY DEF OrderInv, RecordsInv, IInv, TypeOK
<1> USE ConstantsAssumption
<1> USE DEF TypeOK, LiveInv, LockInv, SubmitInv, ChildInv, FaultInv, WorkerHolds,
            Sound, Stopping, Cancelling, Verified, Verifying, Ordered, Records, States,
            ActiveStates, CancelStates, TerminalStates, Work, Killed, hosts, children,
            callers, worker, locks
<1>1. CASE RunBegin(j)
  BY <1>1, <1>0 DEF RunBegin, WorkerLocks, CanLock
<1>2. CASE RunRegister(j)
  BY <1>2, <1>0 DEF RunRegister, WorkerLocks, CanLock, RegisteredState
<1>3. CASE RunBind(j)
  BY <1>3, <1>0 DEF RunBind
<1>4. CASE RunSpawn(j) \/ RunSpawnFail(j) \/ RunPermit(j) \/ RunPermitFail(j)
  BY <1>4, <1>0 DEF RunSpawn, RunSpawnFail, RunPermit, RunPermitFail
<1>5. CASE RunFinish(j)
  BY <1>5, <1>0 DEF RunFinish, WorkerLocks, CanLock
<1>6. CASE RunStop(j) \/ RunStopFail(j) \/ RunWait(j) \/ RunTree(j)
  BY <1>6, <1>0 DEF RunStop, RunStopFail, RunWait, RunTree
<1>7. CASE RunAuthorize(j)
  <2>1. CASE rec[j].state \in CancelStates
    BY <1>0, <1>7, <2>1 DEF RunAuthorize
  <2>2. CASE rec[j].state \notin CancelStates
    <3>1. /\ wpc[j] = "authorize" /\ wpc'[j] \in {"verify", "final"} /\ promoted' = promoted
          /\ rec' = [rec EXCEPT ![j] = [rec[j] EXCEPT !.verifying = TRUE, !.code = code[j]]]
      BY <1>0, <1>7, <2>2 DEF RunAuthorize
    <3>2. /\ rec'[j].state = rec[j].state /\ rec'[j].evidence = rec[j].evidence
          /\ rec'[j].owner = rec[j].owner
      BY <1>0, <3>1
    <3>3. rec[j].state = "running"
      BY <1>0, <2>2, <3>1
    <3>4. ~rec[j].evidence
      BY <1>0, <3>1
    <3>5. QED
      BY <3>1, <3>2, <3>3, <3>4, <2>2
  <2>3. QED
    BY <1>7, <2>1, <2>2 DEF RunAuthorize
<1>8. CASE RunPend(j)
  BY <1>8, <1>0 DEF RunPend, WorkerLocks, CanLock
<1>9. CASE RunVerify(j) \/ RunPromote(j)
  BY <1>9, <1>0 DEF RunVerify, RunPromote
<1>10. CASE RunFinal(j)
  BY <1>10, <1>0 DEF RunFinal, WorkerLocks, CanLock, FinalRecord, FinalState, States
<1>11. CASE RunClear(j) \/ RunExit(j)
  BY <1>11, <1>0 DEF RunClear, RunExit
<1>12. CASE ExceptPersist(j)
  BY <1>12, <1>0 DEF ExceptPersist
<1>13. CASE ExceptSurvivor(j)
  <2>1. wpc[j] = "survivor" /\ wpc'[j] = "exit"
    BY <1>0, <1>13 DEF ExceptSurvivor
  <2>2. ~rec[j].evidence
    BY <1>0, <2>1
  <2>3. rec' = rec \/ rec' = [rec EXCEPT ![j].state = "cancelling"]
    BY <1>13 DEF ExceptSurvivor
  <2>4. ~rec'[j].evidence
    BY <1>0, <2>2, <2>3
  <2>5. QED
    BY <2>1, <2>4
<1>14. CASE ExceptStop(j) \/ ExceptSettle(j)
  BY <1>14, <1>0 DEF ExceptStop, ExceptSettle, WorkerLocks, CanLock
<1>15. CASE SubmitFail(j)
  <2>1. /\ rec' = [rec EXCEPT ![j] = [rec[j] EXCEPT !.state = "failed"]]
        /\ wpc' = wpc /\ wpc[j] = "none" /\ live' = live
    BY <1>0, <1>15 DEF SubmitFail, FailedSubmission
  <2>2. /\ rec'[j].state = "failed" /\ rec'[j].evidence = rec[j].evidence
        /\ rec'[j].owner = rec[j].owner
    BY <1>0, <2>1
  <2>3. QED
    BY <1>0, <2>1, <2>2
<1>16. CASE HandoffFail(j)
  BY <1>16, <1>0 DEF HandoffFail
<1>17. CASE SubmitLease(j) \/ SubmitStart(j) \/ HandoffDone(j)
            \/ HandoffSnapshot(j)
  BY <1>17, <1>0
     DEF SubmitLease, SubmitStart, HandoffDone, HandoffSnapshot, QueuedRecord
<1>18. CASE CancelRequest(j)
  BY <1>18, <1>0 DEF CancelRequest, CanLock, VerificationInProgress, ProcessTreeAlive
<1>19. CASE CancelTerminate(j)
  BY <1>19, <1>0 DEF CancelTerminate
<1>20. CASE CancelTerminateFail(j) \/ CancelClear(j)
  BY <1>20, <1>0 DEF CancelTerminateFail, CancelClear
<1>21. CASE ChildExec(j) \/ ChildGivesUp(j) \/ ChildExit(j)
            \/ DescendantsExit(j)
  BY <1>21, <1>0 DEF ChildExec, ChildGivesUp, ChildExit, DescendantsExit
<1>22. QED
  BY <1>1, <1>2, <1>3, <1>4, <1>5, <1>6, <1>7, <1>8, <1>9, <1>10, <1>11, <1>12, <1>13,
     <1>14, <1>15, <1>16, <1>17, <1>18, <1>19, <1>20, <1>21
     DEF JobStep, WorkerStep, CallerStep, LaunchStep, CompletionStep, ExceptStep,
         ChildStep

\* What a step of a job makes of its record is an arrow of the run states.
LEMMA JobLifecycle ==
    ASSUME ~SubmitFaults, OrderInv, NEW j \in Job, JobStep(j)
    PROVE  /\ rec'[j].state # rec[j].state =>
              /\ rec'[j].state \in Lifecycle!Successors(rec[j].state)
              /\ rec[j].state # "absent"
           /\ j \in promoted' /\ j \notin promoted => rec[j].state = "running"
<1>0. /\ TypeOK /\ LiveInv /\ LockInv /\ SubmitInv /\ ChildInv /\ FaultInv
      /\ Sound(j) /\ Ordered(j) /\ ~SubmitFaults /\ rec[j] \in Records
  BY DEF OrderInv, RecordsInv, IInv, TypeOK
<1> USE ConstantsAssumption
<1> USE DEF TypeOK, LiveInv, LockInv, SubmitInv, ChildInv, FaultInv, WorkerHolds,
            Sound, Stopping, Cancelling, Verified, Verifying, Ordered,
            Lifecycle!Successors, Records, States, ActiveStates, CancelStates,
            TerminalStates, Work, Killed, hosts, children, callers, worker, locks
<1>1. CASE RunBegin(j)
  BY <1>1, <1>0 DEF RunBegin, WorkerLocks, CanLock
<1>2. CASE RunRegister(j)
  BY <1>2, <1>0 DEF RunRegister, WorkerLocks, CanLock, RegisteredState
<1>3. CASE RunSpawn(j) \/ RunSpawnFail(j) \/ RunBind(j) \/ RunPermit(j)
           \/ RunPermitFail(j)
  BY <1>3, <1>0 DEF RunSpawn, RunSpawnFail, RunBind, RunPermit, RunPermitFail
<1>4. CASE RunFinish(j)
  BY <1>4, <1>0 DEF RunFinish, WorkerLocks, CanLock
<1>5. CASE RunStop(j) \/ RunStopFail(j) \/ RunWait(j) \/ RunTree(j)
  BY <1>5, <1>0 DEF RunStop, RunStopFail, RunWait, RunTree
<1>6. CASE RunAuthorize(j)
  <2>1. CASE rec[j].state \in CancelStates
    BY <1>0, <1>6, <2>1 DEF RunAuthorize
  <2>2. CASE rec[j].state \notin CancelStates
    <3>1. /\ wpc[j] = "authorize" /\ wpc'[j] \in {"verify", "final"} /\ promoted' = promoted
          /\ rec' = [rec EXCEPT ![j] = [rec[j] EXCEPT !.verifying = TRUE, !.code = code[j]]]
      BY <1>0, <1>6, <2>2 DEF RunAuthorize
    <3>2. /\ rec'[j].state = rec[j].state /\ rec'[j].evidence = rec[j].evidence
          /\ rec'[j].owner = rec[j].owner
      BY <1>0, <3>1
    <3>3. rec[j].state = "running"
      BY <1>0, <2>2, <3>1
    <3>4. ~rec[j].evidence
      BY <1>0, <3>1
    <3>5. QED
      BY <3>1, <3>2, <3>3, <3>4, <2>2
  <2>3. QED
    BY <1>6, <2>1, <2>2 DEF RunAuthorize
<1>7. CASE RunPend(j)
  BY <1>7, <1>0 DEF RunPend, WorkerLocks, CanLock
<1>8. CASE RunVerify(j) \/ RunPromote(j)
  BY <1>8, <1>0 DEF RunVerify, RunPromote
<1>9. CASE RunFinal(j)
  BY <1>9, <1>0 DEF RunFinal, WorkerLocks, CanLock, FinalRecord, FinalState, States
<1>10. CASE RunClear(j) \/ RunExit(j)
  BY <1>10, <1>0 DEF RunClear, RunExit
<1>11. CASE ExceptPersist(j)
  BY <1>11, <1>0 DEF ExceptPersist
<1>12. CASE ExceptSurvivor(j)
  BY <1>12, <1>0 DEF ExceptSurvivor, WorkerLocks, CanLock
<1>13. CASE ExceptStop(j) \/ ExceptSettle(j)
  BY <1>13, <1>0 DEF ExceptStop, ExceptSettle, WorkerLocks, CanLock
<1>14. CASE SubmitFail(j)
  <2>1. rec' = [rec EXCEPT ![j] = [rec[j] EXCEPT !.state = "failed"]] /\ promoted' = promoted
    BY <1>0, <1>14 DEF SubmitFail, FailedSubmission
  <2>2. rec[j].state = "queued"
    BY <1>0, <1>14 DEF SubmitFail
  <2>3. rec'[j].state = "failed"
    BY <1>0, <2>1
  <2>4. QED
    BY <2>1, <2>2, <2>3
<1>15. CASE HandoffFail(j)
  BY <1>15, <1>0 DEF HandoffFail
<1>16. CASE SubmitLease(j) \/ SubmitStart(j) \/ HandoffDone(j)
            \/ HandoffSnapshot(j)
  BY <1>16, <1>0
     DEF SubmitLease, SubmitStart, HandoffDone, HandoffSnapshot, QueuedRecord
<1>17. CASE CancelRequest(j)
  BY <1>17, <1>0 DEF CancelRequest, CanLock, VerificationInProgress, ProcessTreeAlive
<1>18. CASE CancelTerminate(j)
  BY <1>18, <1>0 DEF CancelTerminate
<1>19. CASE CancelTerminateFail(j) \/ CancelClear(j)
  BY <1>19, <1>0 DEF CancelTerminateFail, CancelClear
<1>20. CASE ChildExec(j) \/ ChildGivesUp(j) \/ ChildExit(j)
            \/ DescendantsExit(j)
  BY <1>20, <1>0 DEF ChildExec, ChildGivesUp, ChildExit, DescendantsExit
<1>21. QED
  BY <1>1, <1>2, <1>3, <1>4, <1>5, <1>6, <1>7, <1>8, <1>9, <1>10, <1>11, <1>12, <1>13,
     <1>14, <1>15, <1>16, <1>17, <1>18, <1>19, <1>20
     DEF JobStep, WorkerStep, CallerStep, LaunchStep, CompletionStep, ExceptStep,
         ChildStep

\* A step keeps the order of states.
LEMMA OrderStep == ASSUME ~SubmitFaults PROVE OrderInv /\ [Next]_vars => OrderInv'
<1> SUFFICES ASSUME OrderInv, [Next]_vars PROVE OrderInv'
  OBVIOUS
<1>1. RecordsInv'
  BY RecordsStep DEF OrderInv
<1>2. CASE Next
  <2>1. ASSUME NEW s \in Service, ServiceStep(s), NEW k \in Job PROVE Ordered(k)'
    BY <2>1, OrderedServiceStep
  <2>2. ASSUME NEW j \in Job, JobStep(j), NEW k \in Job PROVE Ordered(k)'
    <3>1. CASE k = j
      BY <2>2, <3>1, OrderedStep
    <3>2. CASE k # j
      <4>1. TypeOK /\ Ordered(k)
        BY DEF OrderInv, RecordsInv, IInv
      <4>2. live' = live /\ rec'[k] = rec[k] /\ wpc'[k] = wpc[k]
        BY <2>2, <3>2, <4>1, OtherJobs
      <4>3. QED
        BY <4>1, <4>2 DEF Ordered
    <3>3. QED
      BY <3>1, <3>2
  <2>3. QED
    BY <1>1, <1>2, <2>1, <2>2 DEF Next, OrderInv
<1>3. CASE UNCHANGED vars
  BY <1>1, <1>3 DEF vars, OrderInv, Ordered
<1>4. QED
  BY <1>2, <1>3

\* The order of states holds in every behaviour without submission faults.
THEOREM OrderInvariant == ASSUME ~SubmitFaults PROVE Spec => []OrderInv
<1>1. Init => \A j \in Job : Ordered(j)
  BY DEF Init, Ordered, Verifying, NoRecord
<1>2. Spec => []RecordsInv
  BY RecordsInvariant
<1>3. OrderInv /\ [Next]_vars => OrderInv'
  BY OrderStep
<1>4. Init /\ RecordsInv => OrderInv
  BY <1>1 DEF OrderInv
<1>5. QED
  BY <1>2, <1>3, <1>4, PTL DEF Spec

\* What a step of a service makes of a record is an arrow of the run states: only a
\* record with evidence, which is running, is completed.
LEMMA ServiceLifecycle ==
    ASSUME OrderInv, NEW s \in Service, ServiceStep(s), NEW k \in Job
    PROVE  /\ rec'[k].state # rec[k].state =>
                 rec'[k].state \in Lifecycle!Successors(rec[k].state)
           /\ k \in promoted' /\ k \notin promoted => rec[k].state = "running"
<1>1. Settling(k) \/ First(s, k)
  BY ServiceEffects DEF OrderInv, RecordsInv
<1>2. Ordered(k) /\ rec[k] \in Records
  BY DEF OrderInv, RecordsInv, IInv, TypeOK
<1>3. CASE First(s, k)
  BY <1>3 DEF First, QueuedRecord, NoRecord, Lifecycle!Successors
<1>4. CASE Kept(k)
  BY <1>2, <1>4 DEF Kept, Orphan, Promotable, Ordered
<1>5. ASSUME NEW st \in {"completed", "failed"}, SettledAs(k, st)
      PROVE  /\ rec'[k].state # rec[k].state =>
                   rec'[k].state \in Lifecycle!Successors(rec[k].state)
             /\ k \in promoted' /\ k \notin promoted => rec[k].state = "running"
  <2>1. rec'[k].state = st /\ rec[k].state \in ActiveStates
    BY <1>2, <1>5 DEF SettledAs, Orphan, Records
  <2>2. Promotable(k) => rec[k].state = "running"
    BY <1>2, <2>1 DEF Promotable, Ordered
  <2>3. QED
    BY <1>5, <2>1, <2>2 DEF SettledAs, ActiveStates, Lifecycle!Successors
<1>6. QED
  BY <1>1, <1>3, <1>4, <1>5 DEF Settling

\* Every record follows the documented run states, and "running" becomes "completed"
\* only together with a promotion.
THEOREM LifecycleRefinement == ASSUME ~SubmitFaults PROVE Spec => ImplementsLifecycle
<1>1. Init => Lifecycle!Init
  BY DEF Init, Lifecycle!Init, NoRecord
<1>2. OrderInv /\ [Next]_vars
         => [Lifecycle!Next]_<<[j \in Job |-> rec[j].state], promoted>>
  <2> SUFFICES ASSUME OrderInv, [Next]_vars
               PROVE  [Lifecycle!Next]_<<[j \in Job |-> rec[j].state], promoted>>
    OBVIOUS
  <2>0. CASE UNCHANGED vars
    BY <2>0 DEF vars
  <2>1. ASSUME Next PROVE Lifecycle!Next
    <3>1. OrderInv'
      BY <2>1, OrderStep
    <3>2. \A k \in Job : rec'[k].state = "completed" /\ k \in Train => k \in promoted'
      BY <3>1 DEF OrderInv, RecordsInv, Sound, Completed
    <3>3. ASSUME NEW k \in Job
          PROVE  /\ rec'[k].state # rec[k].state =>
                       rec'[k].state \in Lifecycle!Successors(rec[k].state)
                 /\ k \in promoted' /\ k \notin promoted => rec[k].state = "running"
      <4>1. TypeOK
        BY DEF OrderInv, RecordsInv, IInv
      <4>2. ASSUME NEW j \in Job, JobStep(j), j # k
            PROVE  rec'[k] = rec[k] /\ (k \in promoted' <=> k \in promoted)
        BY <4>1, <4>2, OtherJobs
      <4>3. QED
        BY <2>1, <4>2, ServiceLifecycle, JobLifecycle DEF Next
    <3>4. promoted \subseteq promoted' /\ promoted' \subseteq Job
      <4>1. promoted \subseteq promoted'
        BY <2>1, ServiceEffects, OtherJobs DEF Next, OrderInv, RecordsInv, IInv
      <4>2. QED
        BY <3>1, <4>1 DEF OrderInv, RecordsInv, IInv, TypeOK
    <3>5. QED
      BY <3>2, <3>3, <3>4 DEF Lifecycle!Next
  <2>2. QED
    BY <2>0, <2>1
<1>3. QED
  BY <1>1, <1>2, OrderInvariant, PTL DEF Spec, ImplementsLifecycle, Lifecycle!Spec

\* A terminal record never changes its state again.
THEOREM TerminalFinal == ASSUME ~SubmitFaults PROVE Spec => TerminalIsFinal
<1>1. OrderInv /\ [Next]_vars
         => [\A j \in Job : rec[j].state \in TerminalStates
                              => rec'[j].state = rec[j].state]_vars
  <2> SUFFICES ASSUME OrderInv, Next, NEW j \in Job, rec[j].state \in TerminalStates
               PROVE  rec'[j].state = rec[j].state
    OBVIOUS
  <2>1. Lifecycle!Successors(rec[j].state) = {}
    BY DEF TerminalStates, Lifecycle!Successors
  <2>2. ASSUME NEW k \in Job, JobStep(k) PROVE rec'[j].state = rec[j].state
    BY <2>1, <2>2, OtherJobs, JobLifecycle DEF OrderInv, RecordsInv, IInv
  <2>3. QED
    BY <2>1, <2>2, ServiceLifecycle DEF Next
<1>2. QED
  BY <1>1, OrderInvariant, PTL DEF Spec, TerminalIsFinal

\* A step that is not a submission activates no record.
LEMMA OnlySubmissionsActivate ==
    ASSUME ~SubmitFaults, OrderInv, Next, NEW k \in Job,
           rec'[k].state \in ActiveStates,
           \A s \in Service : ~First(s, k)
    PROVE  rec[k].state \in ActiveStates /\ rec'[k].owner = rec[k].owner
<1>0. TypeOK /\ LiveInv /\ OrderInv /\ rec[k] \in Records
  BY DEF OrderInv, RecordsInv, IInv, TypeOK
<1>1. ASSUME NEW s \in Service, ServiceStep(s)
      PROVE  rec[k].state \in ActiveStates /\ rec'[k].owner = rec[k].owner
  <2>1. Settling(k)
    BY <1>1, ServiceEffects DEF OrderInv, RecordsInv
  <2>2. QED
    BY <1>0, <2>1 DEF Settling, Kept, SettledAs, Orphan, Records
<1>2. ASSUME NEW j \in Job, JobStep(j)
      PROVE  rec[k].state \in ActiveStates /\ rec'[k].owner = rec[k].owner
  <2>1. rec'[k].owner = rec[k].owner
    BY <1>0, <1>2, JobRecords
  <2>2. CASE k # j
    BY <1>0, <1>2, <2>1, <2>2, OtherJobs
  <2>3. CASE k = j
    <3>1. rec[k].state \in States
      BY <1>0 DEF Records
    <3>2. QED
      BY <1>2, <2>1, <2>3, <3>1, JobLifecycle
         DEF Lifecycle!Successors, States, ActiveStates, TerminalStates
  <2>4. QED
    BY <2>2, <2>3
<1>3. QED
  BY <1>1, <1>2 DEF Next

\* A submission finds every other active record of its root settled.
LEMMA SubmissionFindsNoneActive ==
    ASSUME TypeOK, NEW s \in Service, NEW j \in Job, SubmitRecord(s, j),
           NEW k \in Job \ {j}, rec'[k].state \in ActiveStates
    PROVE  rec'[j].owner = s /\ RootOf[rec'[k].owner] # RootOf[s]
<1>1. PICK ok \in [Reconcilable(s) -> BOOLEAN] :
         rec' = [ReconciledRecords(Reconcilable(s), ok) EXCEPT ![j] = QueuedRecord(s)]
  BY DEF SubmitRecord
<1>2. rec'[j].owner = s
  BY <1>1 DEF ReconciledRecords, QueuedRecord, NoRecord
<1>3. rec'[k] = ReconciledRecords(Reconcilable(s), ok)[k] /\ rec[k] \in Records
  BY <1>1 DEF ReconciledRecords, TypeOK
<1>4. k \notin Reconcilable(s)
  BY <1>3 DEF ReconciledRecords, Reconciled, Records, ActiveStates
<1>5. rec'[k] = rec[k]
  BY <1>3, <1>4 DEF ReconciledRecords
<1>6. QED
  BY <1>2, <1>4, <1>5 DEF SubmitRecord, RootOfJob

\* At most one record of a state root is active, whatever services of the root run,
\* crash and reconcile: a submission is refused beside a job that is active.
THEOREM OneActive == ASSUME ~SubmitFaults PROVE Spec => []OneActiveRecordPerRoot
<1>1. Init => OneActiveRecordPerRoot
  BY DEF Init, OneActiveRecordPerRoot, NoRecord, ActiveStates
<1>2. OrderInv /\ OneActiveRecordPerRoot /\ [Next]_vars => OneActiveRecordPerRoot'
  <2> SUFFICES ASSUME OrderInv, OneActiveRecordPerRoot, [Next]_vars,
                      NEW j \in Job, NEW k \in Job,
                      rec'[j].state \in ActiveStates, rec'[k].state \in ActiveStates,
                      RootOf[rec'[j].owner] = RootOf[rec'[k].owner], j # k
               PROVE  FALSE
    BY DEF OneActiveRecordPerRoot, RootOfJob
  <2>0. TypeOK /\ LiveInv
    BY DEF OrderInv, RecordsInv, IInv
  <2>1. CASE UNCHANGED vars
    BY <2>1 DEF vars, OneActiveRecordPerRoot, RootOfJob
  <2>2. ASSUME NEW s \in Service, NEW i \in Job, SubmitRecord(s, i) PROVE FALSE
    <3>1. CASE i = j
      BY <2>0, <2>2, <3>1, SubmissionFindsNoneActive
    <3>2. CASE i = k
      BY <2>0, <2>2, <3>2, SubmissionFindsNoneActive
    <3>3. CASE i # j /\ i # k
      <4>1. ASSUME NEW r \in Service, First(r, j) \/ First(r, k) PROVE FALSE
        BY <2>0, <2>2, <3>3, <4>1 DEF First, SubmitRecord, LiveInv, TypeOK
      <4>2. Next
        BY <2>2 DEF Next, ServiceStep
      <4>3. QED
        BY <4>1, <4>2, OnlySubmissionsActivate DEF OneActiveRecordPerRoot, RootOfJob
    <3>4. QED
      BY <3>1, <3>2, <3>3
  <2>3. ASSUME Next, \A s \in Service, i \in Job : ~SubmitRecord(s, i) PROVE FALSE
    <3>1. ASSUME NEW i \in Job, NEW r \in Service, First(r, i) PROVE FALSE
      <4>1. sub[i] = "none" /\ rec[i].owner = None /\ sub'[i] = "recorded"
        BY <2>0, <3>1 DEF First, LiveInv
      <4>2. ASSUME NEW s \in Service, ServiceStep(s) PROVE sub'[i] \in {sub[i], "done"}
        BY <2>3, <4>2
           DEF ServiceStep, Poll, Start, Crash, Admission, Reconcile, ReconcileCrash,
               ProcessDies, callers
      <4>3. ASSUME NEW h \in Job, JobStep(h)
            PROVE  rec[i].state # "absent" \/ rec'[i].state = rec[i].state
        <5>1. CASE i = h
          BY <2>3, <4>3, <5>1, JobLifecycle
        <5>2. CASE i # h
          BY <2>0, <4>3, <5>2, OtherJobs
        <5>3. QED
          BY <5>1, <5>2
      <4>4. rec'[i].state = "queued" /\ rec[i].state = "absent"
        BY <3>1 DEF First, QueuedRecord, NoRecord
      <4>5. QED
        BY <2>3, <4>1, <4>2, <4>3, <4>4 DEF Next
    <3>2. QED
      BY <2>3, <3>1, OnlySubmissionsActivate DEF OneActiveRecordPerRoot, RootOfJob
  <2>4. QED
    BY <2>1, <2>2, <2>3
<1>3. QED
  BY <1>1, <1>2, OrderInvariant, PTL DEF Spec
=============================================================================

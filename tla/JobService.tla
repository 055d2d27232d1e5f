----------------------------- MODULE JobService -----------------------------
(***************************************************************************)
(* The managed job service of src/aptus/execution.py.                      *)
(*                                                                         *)
(* Several service processes, each bound to one state root, run managed    *)
(* jobs through one GPU lease that is global to the host.  A job is served *)
(* by a submitting call, by a worker thread and possibly by a cancelling   *)
(* call, all inside the service that owns it, and by one child process,    *)
(* the permit launcher, which survives a crash of its service.             *)
(*                                                                         *)
(* Three locks are modelled.  glock is the host-global lease lock together *)
(* with the records lock of the holder's root (the code always takes the   *)
(* latter inside the former); slock[s] is the RLock of the service object. *)
(* A section that writes several files keeps them over several steps, so a *)
(* crash, a child or a reader may come between two writes.  Reconciliation *)
(* by polling takes only slock and the records lock.                       *)
(*                                                                         *)
(* Abstractions: process identities are exact (a pid is never mistaken for *)
(* a later process with the same number), the platform is POSIX, record    *)
(* files are never corrupted, and a record keeps only the fields that some *)
(* decision reads.                                                         *)
(***************************************************************************)
EXTENDS Naturals, FiniteSets

CONSTANTS
    Service,            \* service processes; a restart is another Service
    Job,                \* job identities (uuid4, never reused)
    Root,               \* state roots
    RootOf,             \* the state root of each service
    Train,              \* the jobs whose action is "train"
    None,
    SubmitFaults,       \* may the files fail under the end of a submission?
    TerminationFaults   \* may a process group survive SIGKILL?

ASSUME ConstantsAssumption ==
    /\ RootOf \in [Service -> Root]
    /\ Train \subseteq Job
    /\ None \notin Service /\ None \notin Job
    /\ Service \cap Job = {}
    /\ SubmitFaults \in BOOLEAN /\ TerminationFaults \in BOOLEAN

VARIABLES
    live,       \* the long-lived Aptus processes that run now
    started,    \* services that were ever started
    rec,        \* the persisted job records
    lease,      \* the host-global lease file
    stage,      \* what the process group of a job's child is doing
    code,       \* the exit status of the group leader
    permit,     \* jobs whose permit file exists
    sub,        \* the submitting call of a job
    wpc,        \* the worker thread of a job
    cpc,        \* the cancelling call of a job
    owned,      \* what _threads and _processes of the owner hold
    glock,      \* the job in whose name the global lease lock is held
    slock,      \* the job whose submission keeps the service lock
    promoted,   \* train jobs with a parent promotion receipt in the report
    snap        \* the record snapshot a failed handoff works with

vars == <<live, started, rec, lease, stage, code, permit, sub, wpc, cpc, owned,
          glock, slock, promoted, snap>>

worker   == <<wpc, owned>>
callers  == <<sub, cpc, snap>>
children == <<stage, code>>
hosts    == <<live, started>>
locks    == <<glock, slock>>

------------------------------------------------------------------------------
(* States and records *)

ActiveStates   == {"queued", "running", "cancelling"}
CancelStates   == {"cancelling", "cancelled"}
TerminalStates == {"completed", "failed", "cancelled"}

NoRecord ==
    [state |-> "absent", owner |-> None, launched |-> FALSE, finished |-> FALSE,
     code |-> "none", verifying |-> FALSE, evidence |-> FALSE]

\* The record submit() persists before it creates the lease.
QueuedRecord(s) == [NoRecord EXCEPT !.state = "queued", !.owner = s]

NoLease == [id |-> None, owner |-> None, proc |-> None]

\* The child group still has a process: the launcher that waits for its permit,
\* the action it executed, or descendants that outlived the group leader.
ChildLive(j) == stage[j] \in {"launcher", "action", "descendants"}

\* The child was let through the permit: the GPU work of the job is running.
OnGpu(j) == stage[j] \in {"action", "descendants"}

\* _process_tree_alive: killpg(pgid, 0) also succeeds while the exited leader
\* has not been reaped by the worker's wait().
ProcessTreeAlive(j) == ChildLive(j) \/ (stage[j] = "gone" /\ wpc[j] = "wait")

ProcessLive(p) == p \in live \/ (p \in Job /\ ChildLive(p))

LeaseRecordState == IF lease.id \in Job THEN rec[lease.id].state ELSE "absent"

\* Mutants of LeaseStale: the bound child is forgotten; a lease without an owner
\* waits for its record.
LeaseStaleWithoutChild ==
    \/ LeaseRecordState \in TerminalStates \cup {"absent"} /\ ~ProcessLive(lease.proc)
    \/ lease.owner \notin live
LeaseStaleByRecord ==
    LeaseRecordState \in TerminalStates \cup {"absent"} /\ ~ProcessLive(lease.proc)

\* The three ways a lease may be stale.
LeaseStale ==
    LET ownerLive == lease.owner \in live
        childLive == ProcessLive(lease.proc)
    IN  \/ LeaseRecordState \in TerminalStates /\ ~childLive
        \/ LeaseRecordState = "absent" /\ ~childLive
        \/ ~ownerLive /\ ~childLive

LeaseAvailable == lease = NoLease \/ LeaseStale

LeaseIsOf(j) == lease.id = j

\* Mutant: whatever lease there is goes.
ClearedAnyLease(j) == NoLease

\* _clear_global_lease: the lease of another job stays.
ClearedLease(j) == IF LeaseIsOf(j) THEN NoLease ELSE lease

RootOfJob(j) == RootOf[rec[j].owner]

\* The lock sections: _lock of service s, the global lease lock, and the records
\* lock of its root, taken together.
CanLock(s) == s \in live /\ glock = None /\ slock[s] = None

\* get() and recovery take the service lock and the records lock of the root.
RecordsFree(s) ==
    /\ s \in live /\ slock[s] = None
    /\ glock # None => RootOfJob(glock) # RootOf[s]

------------------------------------------------------------------------------
(* Reconciliation of records whose owner is gone *)

RecordChildLive(j) == rec[j].launched /\ ChildLive(j)

\* Mutants of Reconcilable: a live child is ignored; a launched record is left alone.
ReconcilableWithChild(s) ==
    {j \in Job : /\ rec[j].state \in ActiveStates
                 /\ RootOfJob(j) = RootOf[s]
                 /\ rec[j].owner \notin live}
ReconcilableQueued(s) ==
    {j \in Job : /\ rec[j].state = "queued"
                 /\ RootOfJob(j) = RootOf[s]
                 /\ rec[j].owner \notin live}

Reconcilable(s) ==
    {j \in Job : /\ rec[j].state \in ActiveStates
                 /\ RootOfJob(j) = RootOf[s]
                 /\ rec[j].owner \notin live
                 /\ ~RecordChildLive(j)}

\* Mutant: a return code of 0 is enough.
PromotableByCode(j) ==
    j \in Train /\ rec[j].code = "ok" /\ (rec[j].launched => rec[j].finished)

\* Verified pending evidence of a train job whose child timing is complete.
Promotable(j) ==
    /\ j \in Train /\ rec[j].code = "ok" /\ rec[j].evidence
    /\ rec[j].launched => rec[j].finished

\* _reconcile_external_record; ok says whether the promotion succeeds.
Reconciled(j, ok) ==
    [rec[j] EXCEPT !.state = IF Promotable(j) /\ ok THEN "completed" ELSE "failed"]

\* The records after those of K were reconciled with the promotion results ok.
ReconciledRecords(K, ok) ==
    [j \in Job |-> IF j \in K THEN Reconciled(j, ok[j]) ELSE rec[j]]

ReconcilePromotions(K, ok) == promoted \cup {j \in K : Promotable(j) /\ ok[j]}

------------------------------------------------------------------------------
Init ==
    /\ live = {} /\ started = {}
    /\ rec = [j \in Job |-> NoRecord]
    /\ lease = NoLease
    /\ stage = [j \in Job |-> "none"]
    /\ code = [j \in Job |-> "none"]
    /\ permit = {}
    /\ sub = [j \in Job |-> "none"]
    /\ wpc = [j \in Job |-> "none"]
    /\ cpc = [j \in Job |-> "none"]
    /\ owned = [j \in Job |-> "no"]
    /\ glock = None
    /\ slock = [s \in Service |-> None]
    /\ promoted = {}
    /\ snap = [j \in Job |-> NoRecord]

(* Service processes *)

\* JobService.__init__: recovery of the interrupted jobs of the root.
Start(s) ==
    /\ s \notin started
    /\ glock # None => RootOfJob(glock) # RootOf[s]
    /\ live' = live \cup {s} /\ started' = started \cup {s}
    /\ \E ok \in [Reconcilable(s) -> BOOLEAN] :
          /\ rec' = ReconciledRecords(Reconcilable(s), ok)
          /\ promoted' = ReconcilePromotions(Reconcilable(s), ok)
    /\ UNCHANGED <<lease, children, permit, callers, worker, locks>>

\* A service process vanishes with its threads, its maps and its locks; its
\* files and its children stay.
ProcessDies(s) ==
    LET mine == {j \in Job : rec[j].owner = s}
    IN  /\ s \in live
        /\ live' = live \ {s}
        /\ sub' = [j \in Job |-> IF j \in mine /\ sub[j] # "failed" THEN "done"
                                ELSE sub[j]]
        /\ wpc' = [j \in Job |-> IF j \in mine THEN "done" ELSE wpc[j]]
        /\ cpc' = [j \in Job |-> IF j \in mine THEN "none" ELSE cpc[j]]
        /\ owned' = [j \in Job |-> IF j \in mine THEN "no" ELSE owned[j]]
        /\ snap' = [j \in Job |-> IF j \in mine THEN NoRecord ELSE snap[j]]
        /\ glock' = IF glock \in mine THEN None ELSE glock
        /\ slock' = [slock EXCEPT ![s] = None]
        /\ UNCHANGED <<started, rec, lease, children, permit>>

Crash(s) == ProcessDies(s) /\ UNCHANGED promoted

\* get() or list() polls a record whose owner is gone.
Reconcile(s, j) ==
    /\ RecordsFree(s) /\ j \in Reconcilable(s)
    /\ \E ok \in BOOLEAN :
          /\ rec' = [rec EXCEPT ![j] = Reconciled(j, ok)]
          /\ promoted' = ReconcilePromotions({j}, [k \in {j} |-> ok])
    /\ UNCHANGED <<hosts, lease, children, permit, callers, worker, locks>>

\* The polling service dies after the promotion and before the record write.
ReconcileCrash(s, j) ==
    /\ RecordsFree(s) /\ j \in Reconcilable(s) /\ Promotable(j)
    /\ promoted' = promoted \cup {j}
    /\ ProcessDies(s)

------------------------------------------------------------------------------
(* Submission *)

\* Admission that does not lead to a record: validation_guard, or a submission
\* refused because a job is active or a prerequisite fails.  The stale lease and
\* the reconciled records are persisted all the same.
Admission(s) ==
    /\ CanLock(s) /\ LeaseAvailable
    /\ lease' = NoLease
    /\ \E K \in SUBSET Reconcilable(s) : \E ok \in [K -> BOOLEAN] :
          /\ rec' = ReconciledRecords(K, ok)
          /\ promoted' = ReconcilePromotions(K, ok)
    /\ UNCHANGED <<hosts, children, permit, callers, worker, locks>>

\* Mutant: the records of the root are not asked for an active job.
SubmitRecordBesides(s, j) ==
    /\ CanLock(s) /\ LeaseAvailable
    /\ rec[j].state = "absent"
    /\ lease' = NoLease
    /\ rec' = [rec EXCEPT ![j] = QueuedRecord(s)]
    /\ sub' = [sub EXCEPT ![j] = "recorded"]
    /\ glock' = j /\ slock' = [slock EXCEPT ![s] = j]
    /\ UNCHANGED <<hosts, children, permit, worker, cpc, snap, promoted>>

\* submit() up to the first write of the record; the locks are kept.
SubmitRecord(s, j) ==
    /\ CanLock(s) /\ LeaseAvailable
    /\ rec[j].state = "absent"
    /\ \A k \in Job : rec[k].state \in ActiveStates /\ RootOfJob(k) = RootOf[s]
                        => k \in Reconcilable(s)
    /\ lease' = NoLease
    /\ \E ok \in [Reconcilable(s) -> BOOLEAN] :
          /\ rec' = [ReconciledRecords(Reconcilable(s), ok)
                        EXCEPT ![j] = QueuedRecord(s)]
          /\ promoted' = ReconcilePromotions(Reconcilable(s), ok)
    /\ sub' = [sub EXCEPT ![j] = "recorded"]
    /\ glock' = j /\ slock' = [slock EXCEPT ![s] = j]
    /\ UNCHANGED <<hosts, children, permit, worker, cpc, snap>>

\* submit(): create the lease, then release every lock but the service lock.
SubmitLease(j) ==
    /\ sub[j] = "recorded"
    /\ lease' = [id |-> j, owner |-> rec[j].owner, proc |-> None]
    /\ sub' = [sub EXCEPT ![j] = "leased"]
    /\ glock' = None
    /\ UNCHANGED <<hosts, rec, children, permit, worker, cpc, snap, slock, promoted>>

\* _fail_persisted_submission: the record r becomes "failed" and the lease of the
\* job goes, whatever became of its child.  Neither write is certain: an error of
\* the lease is noted in the record, and a record that could not be written is
\* only told to the caller.
FailedSubmission(j, r) ==
    /\ \/ rec' = [rec EXCEPT ![j] = [r EXCEPT !.state = "failed"]]
       \/ SubmitFaults /\ UNCHANGED rec
    /\ \/ lease' = ClearedLease(j)
       \/ SubmitFaults /\ UNCHANGED lease

\* submit() before a worker exists: the event sink, the lease, the before_start
\* callback or the thread start failed.
SubmitFail(j) ==
    /\ \/ sub[j] = "recorded"
       \/ sub[j] = "leased" /\ glock = None
    /\ FailedSubmission(j, rec[j])
    /\ sub' = [sub EXCEPT ![j] = "done"]
    /\ glock' = None /\ slock' = [slock EXCEPT ![rec[j].owner] = None]
    /\ UNCHANGED <<hosts, children, permit, worker, cpc, snap, promoted>>

\* submit(): the pre-start callback returned; register and start the worker.
SubmitStart(j) ==
    /\ sub[j] = "leased"
    /\ sub' = [sub EXCEPT ![j] = IF SubmitFaults THEN "handoff" ELSE "done"]
    /\ owned' = [owned EXCEPT ![j] = "thread"]
    /\ wpc' = [wpc EXCEPT ![j] = "begin"]
    /\ slock' = [slock EXCEPT ![rec[j].owner] = None]
    /\ UNCHANGED <<hosts, rec, lease, children, permit, cpc, glock, promoted, snap>>

\* submit(): the get() that ends it returns; or, after it raised, a lock that the
\* failure needs raises too, and the call ends without a write.
HandoffDone(j) ==
    /\ sub[j] \in {"handoff", "snapshot"}
    /\ sub' = [sub EXCEPT ![j] = "done"]
    /\ snap' = [snap EXCEPT ![j] = NoRecord]
    /\ UNCHANGED <<hosts, rec, lease, children, permit, worker, cpc, locks, promoted>>

\* Mutant: cancel() is never refused.
VerificationIgnored(j) == FALSE

\* cancel() refuses while the parent verifies what the child left.
VerificationInProgress(j) ==
    rec[j].state \in ActiveStates /\ rec[j].verifying /\ rec[j].code # "none"

\* submit(): get() raised.  Whether cancel() answered (what it wrote are steps of
\* their own) or raised before its first write, the record is read once more; one
\* that cannot be read is replaced by the queued one submit() still holds.  A
\* terminal record ends the call.
HandoffSnapshot(j) ==
    /\ sub[j] = "handoff"
    /\ RecordsFree(rec[j].owner)
    /\ \E read \in {rec[j], QueuedRecord(rec[j].owner)} :
          IF read.state \in TerminalStates
          THEN sub' = [sub EXCEPT ![j] = "done"] /\ UNCHANGED snap
          ELSE /\ sub' = [sub EXCEPT ![j] = "snapshot"]
               /\ snap' = [snap EXCEPT ![j] = read]
    /\ UNCHANGED <<hosts, rec, lease, children, permit, worker, cpc, locks, promoted>>

\* submit(): it gives the job up beside a worker and a child that may go on.
HandoffFail(j) ==
    /\ sub[j] = "snapshot"
    /\ CanLock(rec[j].owner)
    /\ FailedSubmission(j, snap[j])
    /\ sub' = [sub EXCEPT ![j] = "failed"]
    /\ snap' = [snap EXCEPT ![j] = NoRecord]
    /\ UNCHANGED <<hosts, children, permit, worker, cpc, locks, promoted>>

------------------------------------------------------------------------------
(* The worker thread: _run *)

\* The worker of j goes from one program point to another.
Work(j, from, to) == wpc[j] = from /\ wpc' = [wpc EXCEPT ![j] = to]

\* A worker section begins: it needs all three locks.
WorkerLocks(j) == CanLock(rec[j].owner)

\* The first section: a job that was cancelled while queued never launches.
RunBegin(j) ==
    /\ WorkerLocks(j)
    /\ IF rec[j].state \in CancelStates
       THEN /\ Work(j, "begin", "clear")
            /\ rec' = [rec EXCEPT ![j].state = "cancelled"]
            /\ glock' = j
       ELSE Work(j, "begin", "spawn") /\ UNCHANGED <<rec, glock>>
    /\ UNCHANGED <<hosts, lease, children, permit, callers, owned, slock, promoted>>

\* The bundle binding was rechecked, a left-over permit removed and the permit
\* launcher started in a process group of its own.
RunSpawn(j) ==
    /\ Work(j, "spawn", "register")
    /\ permit' = permit \ {j}
    /\ stage' = [stage EXCEPT ![j] = "launcher"]
    /\ UNCHANGED <<hosts, rec, lease, code, callers, owned, locks, promoted>>

\* The binding check, the launch specification or Popen failed.
RunSpawnFail(j) ==
    /\ Work(j, "spawn", "except")
    /\ UNCHANGED <<hosts, rec, lease, children, permit, callers, owned, locks, promoted>>

\* Mutant of RegisteredState: a cancellation before the registration is overwritten.
RegisteredAlways(j) == "running"

RegisteredState(j) ==
    IF rec[j].state \in CancelStates THEN rec[j].state ELSE "running"

\* Registration, first write: the process and, unless a cancellation came first,
\* the state "running".
RunRegister(j) ==
    /\ WorkerLocks(j) /\ Work(j, "register", "bind")
    /\ owned' = [owned EXCEPT ![j] = "process"]
    /\ rec' = [rec EXCEPT ![j] =
                  [rec[j] EXCEPT !.launched = TRUE, !.state = RegisteredState(j)]]
    /\ glock' = j
    /\ UNCHANGED <<hosts, lease, children, permit, callers, slock, promoted>>

\* Registration, second write: bind the lease to the child.  A lease that is no
\* longer this job's raises, and a cancelled job goes without a permit.
RunBind(j) ==
    /\ wpc[j] = "bind"
    /\ IF LeaseIsOf(j)
       THEN /\ lease' = [lease EXCEPT !.proc = j]
            /\ IF rec[j].state \in CancelStates
               THEN Work(j, "bind", "stop") /\ glock' = None
               ELSE Work(j, "bind", "permit") /\ UNCHANGED glock
       ELSE Work(j, "bind", "except") /\ glock' = None /\ UNCHANGED lease
    /\ UNCHANGED <<hosts, rec, children, permit, callers, owned, slock, promoted>>

\* Registration, third write: the permit.
RunPermit(j) ==
    /\ Work(j, "permit", "wait")
    /\ permit' = permit \cup {j}
    /\ glock' = None
    /\ UNCHANGED <<hosts, rec, lease, children, callers, owned, slock, promoted>>

\* on_process_registered or the second binding check raised.
RunPermitFail(j) ==
    /\ Work(j, "permit", "except")
    /\ glock' = None
    /\ UNCHANGED <<hosts, rec, lease, children, permit, callers, owned, slock, promoted>>

\* _terminate_process returned: no process of the group of j is left.
Killed(j) ==
    /\ stage' = [stage EXCEPT ![j] = "gone"]
    /\ code' = [code EXCEPT ![j] = IF @ = "none" THEN "bad" ELSE @]

\* A job cancelled before its registration: its launcher is terminated.
RunStop(j) ==
    /\ Work(j, "stop", "wait") /\ Killed(j)
    /\ UNCHANGED <<hosts, rec, lease, permit, callers, owned, locks, promoted>>

RunStopFail(j) ==
    /\ TerminationFaults /\ ChildLive(j)
    /\ Work(j, "stop", "except")
    /\ UNCHANGED <<hosts, rec, lease, children, permit, callers, owned, locks, promoted>>

\* process.wait(): the group leader exited, descendants may be left.
RunWait(j) ==
    /\ stage[j] \in {"descendants", "gone"}
    /\ Work(j, "wait", "finish")
    /\ UNCHANGED <<hosts, rec, lease, children, permit, callers, owned, locks, promoted>>

\* Persist the finish boundary and the return code.
RunFinish(j) ==
    /\ WorkerLocks(j) /\ Work(j, "finish", "tree")
    /\ rec' = [rec EXCEPT ![j] =
                  [rec[j] EXCEPT !.finished = TRUE, !.code = code[j]]]
    /\ UNCHANGED <<hosts, lease, children, permit, callers, owned, locks, promoted>>

\* Descendants that outlived the leader raise.
RunTree(j) ==
    /\ IF ProcessTreeAlive(j) THEN Work(j, "tree", "except")
                              ELSE Work(j, "tree", "authorize")
    /\ UNCHANGED <<hosts, rec, lease, children, permit, callers, owned, locks, promoted>>

\* Completion verification begins and is not cancellable any more; only a train
\* job whose child returned 0 has evidence to verify.
RunAuthorize(j) ==
    /\ WorkerLocks(j)
    /\ IF rec[j].state \in CancelStates
       THEN Work(j, "authorize", "final") /\ UNCHANGED rec
       ELSE /\ rec' = [rec EXCEPT ![j] =
                          [rec[j] EXCEPT !.verifying = TRUE, !.code = code[j]]]
            /\ Work(j, "authorize",
                    IF j \in Train /\ code[j] = "ok" THEN "verify" ELSE "final")
    /\ UNCHANGED <<hosts, lease, children, permit, callers, owned, locks, promoted>>

\* _verify_train_artifacts accepts or refuses the artifacts.
RunVerify(j) ==
    /\ Work(j, "verify", "pend") \/ Work(j, "verify", "reject")
    /\ UNCHANGED <<hosts, rec, lease, children, permit, callers, owned, locks, promoted>>

\* Verified pending evidence is persisted before the promotion.
RunPend(j) ==
    /\ WorkerLocks(j) /\ Work(j, "pend", "promote")
    /\ rec' = [rec EXCEPT ![j].evidence = TRUE]
    /\ UNCHANGED <<hosts, lease, children, permit, callers, owned, locks, promoted>>

\* _promote_train_attestation under the report lock of the bundle.
RunPromote(j) ==
    /\ \/ Work(j, "promote", "final") /\ promoted' = promoted \cup {j}
       \/ Work(j, "promote", "reject") /\ UNCHANGED promoted
    /\ UNCHANGED <<hosts, rec, lease, children, permit, callers, owned, locks>>

\* What the worker makes of an active record; "reject" is a completion error.
FinalState(j) ==
    IF rec[j].state = "cancelling" THEN "cancelled"
    ELSE IF code[j] = "ok" /\ wpc[j] = "final" THEN "completed" ELSE "failed"

FinalRecord(j) ==
    IF rec[j].state \in TerminalStates THEN rec[j]
    ELSE [rec[j] EXCEPT !.code = code[j], !.state = FinalState(j)]

\* The terminal write; a record that is terminal already keeps its state.
RunFinal(j) ==
    /\ WorkerLocks(j) /\ (Work(j, "final", "clear") \/ Work(j, "reject", "clear"))
    /\ rec' = [rec EXCEPT ![j] = FinalRecord(j)]
    /\ glock' = j
    /\ UNCHANGED <<hosts, lease, children, permit, callers, owned, slock, promoted>>

\* The end of the section: clear the lease.
RunClear(j) ==
    /\ Work(j, "clear", "exit")
    /\ lease' = ClearedLease(j)
    /\ glock' = None
    /\ UNCHANGED <<hosts, rec, children, permit, callers, owned, slock, promoted>>

\* The exception handler: what is left of the process tree is terminated.
ExceptStop(j) ==
    /\ \/ Work(j, "except", "settle")
          /\ IF ChildLive(j) THEN Killed(j) ELSE UNCHANGED children
       \/ /\ TerminationFaults /\ ChildLive(j)
          /\ Work(j, "except", "survivor") /\ UNCHANGED children
    /\ UNCHANGED <<hosts, rec, lease, permit, callers, owned, locks, promoted>>

\* Mutant: the record is not looked at again, and the lock of the section is kept.
ExceptSettleLocked(j) ==
    /\ WorkerLocks(j)
    /\ IF rec[j].state \in TerminalStates
       THEN Work(j, "settle", "exit") /\ glock' = j /\ UNCHANGED lease
       ELSE Work(j, "settle", "persist") /\ lease' = ClearedLease(j) /\ glock' = j
    /\ UNCHANGED <<hosts, rec, children, permit, callers, owned, slock, promoted>>

\* The handler's section: a record that is not terminal yet is failed, and the
\* lease goes before the record is written.
ExceptSettle(j) ==
    /\ WorkerLocks(j)
    /\ IF rec[j].state \in TerminalStates
       THEN Work(j, "settle", "exit") /\ UNCHANGED <<lease, glock>>
       ELSE Work(j, "settle", "persist") /\ lease' = ClearedLease(j) /\ glock' = j
    /\ UNCHANGED <<hosts, rec, children, permit, callers, owned, slock, promoted>>

ExceptPersist(j) ==
    /\ Work(j, "persist", "exit")
    /\ rec' = [rec EXCEPT ![j] =
                  [rec[j] EXCEPT !.state = "failed",
                                 !.launched = rec[j].launched \/ stage[j] # "none",
                                 !.finished = rec[j].finished \/ stage[j] # "none"]]
    /\ glock' = None
    /\ UNCHANGED <<hosts, lease, children, permit, callers, owned, slock, promoted>>

\* The tree could not be confirmed stopped: the record stays active.
ExceptSurvivor(j) ==
    /\ WorkerLocks(j) /\ Work(j, "survivor", "exit")
    /\ IF rec[j].state \in TerminalStates
       THEN UNCHANGED rec
       ELSE rec' = [rec EXCEPT ![j].state = "cancelling"]
    /\ UNCHANGED <<hosts, lease, children, permit, callers, owned, locks, promoted>>

\* finally: forget the worker and remove the permit.
RunExit(j) ==
    /\ Work(j, "exit", "done")
    /\ slock[rec[j].owner] = None
    /\ glock # None => rec[glock].owner # rec[j].owner
    /\ owned' = [owned EXCEPT ![j] = "no"]
    /\ permit' = permit \ {j}
    /\ UNCHANGED <<hosts, rec, lease, children, callers, locks, promoted>>

------------------------------------------------------------------------------
(* cancel() *)

\* The part of cancel() under the locks, up to the write of "cancelling".  A
\* registered process tree that still lives is terminated before they are released.
CancelRequest(j) ==
    /\ rec[j].state \in ActiveStates /\ ~VerificationInProgress(j)
    /\ owned[j] # "no"
    /\ CanLock(rec[j].owner)
    /\ LET registered == owned[j] = "process"
           dead == registered /\ ~ProcessTreeAlive(j)
       IN  /\ rec' = [rec EXCEPT ![j] =
                         [rec[j] EXCEPT !.state = "cancelling",
                                        !.finished = rec[j].finished \/ dead]]
           /\ IF registered /\ ~dead
              THEN cpc' = [cpc EXCEPT ![j] = "terminate"] /\ glock' = j
              ELSE UNCHANGED <<cpc, glock>>
    /\ UNCHANGED <<hosts, lease, children, permit, worker, sub, snap, slock, promoted>>

\* The tree was terminated: the record becomes "cancelled".
CancelTerminate(j) ==
    /\ cpc[j] = "terminate"
    /\ cpc' = [cpc EXCEPT ![j] = "clear"]
    /\ Killed(j)
    /\ rec' = [rec EXCEPT ![j] = [rec[j] EXCEPT !.state = "cancelled",
                                              !.code = code'[j], !.finished = TRUE]]
    /\ UNCHANGED <<hosts, lease, permit, worker, sub, snap, locks, promoted>>

\* The tree could not be confirmed stopped: the record stays "cancelling".
CancelTerminateFail(j) ==
    /\ TerminationFaults /\ ChildLive(j)
    /\ cpc[j] = "terminate"
    /\ cpc' = [cpc EXCEPT ![j] = "none"]
    /\ glock' = None
    /\ UNCHANGED <<hosts, rec, lease, children, permit, worker, sub, snap, slock, promoted>>

CancelClear(j) ==
    /\ cpc[j] = "clear"
    /\ cpc' = [cpc EXCEPT ![j] = "none"]
    /\ lease' = ClearedLease(j)
    /\ glock' = None
    /\ UNCHANGED <<hosts, rec, children, permit, worker, sub, snap, slock, promoted>>

------------------------------------------------------------------------------
(* The child: the permit launcher and what it executes *)

\* The permit is there and the manifest is intact: execvpe.
ChildExec(j) ==
    /\ stage[j] = "launcher" /\ j \in permit
    /\ stage' = [stage EXCEPT ![j] = "action"]
    /\ UNCHANGED <<hosts, rec, lease, code, permit, callers, worker, locks, promoted>>

\* The launcher gives up: no permit within 30 seconds, or a changed bundle.
ChildGivesUp(j) ==
    /\ stage[j] = "launcher"
    /\ stage' = [stage EXCEPT ![j] = "gone"]
    /\ code' = [code EXCEPT ![j] = "bad"]
    /\ UNCHANGED <<hosts, rec, lease, permit, callers, worker, locks, promoted>>

\* The action exits, alone or leaving descendants in its group.
ChildExit(j) ==
    /\ stage[j] = "action"
    /\ \E rest \in {"gone", "descendants"}, status \in {"ok", "bad"} :
          /\ stage' = [stage EXCEPT ![j] = rest]
          /\ code' = [code EXCEPT ![j] = status]
    /\ UNCHANGED <<hosts, rec, lease, permit, callers, worker, locks, promoted>>

\* The last descendant exits.
DescendantsExit(j) ==
    /\ stage[j] = "descendants"
    /\ stage' = [stage EXCEPT ![j] = "gone"]
    /\ UNCHANGED <<hosts, rec, lease, code, permit, callers, worker, locks, promoted>>

------------------------------------------------------------------------------
Poll(s) == \E j \in Job : Reconcile(s, j)

ServiceStep(s) ==
    \/ Start(s) \/ Crash(s) \/ Admission(s) \/ Poll(s)
    \/ \E j \in Job : ReconcileCrash(s, j) \/ SubmitRecord(s, j)

\* What a call that has begun does next; SubmitFail is a fault and not listed.
CallerStep(j) ==
    \/ SubmitLease(j) \/ SubmitStart(j)
    \/ HandoffDone(j) \/ HandoffSnapshot(j) \/ HandoffFail(j)
    \/ CancelTerminate(j) \/ CancelTerminateFail(j) \/ CancelClear(j)

LaunchStep(j) ==
    \/ RunBegin(j) \/ RunSpawn(j) \/ RunSpawnFail(j) \/ RunRegister(j)
    \/ RunBind(j) \/ RunPermit(j) \/ RunPermitFail(j)

CompletionStep(j) ==
    \/ RunStop(j) \/ RunStopFail(j) \/ RunWait(j) \/ RunFinish(j) \/ RunTree(j)
    \/ RunAuthorize(j) \/ RunVerify(j) \/ RunPend(j) \/ RunPromote(j)
    \/ RunFinal(j) \/ RunClear(j) \/ RunExit(j)

ExceptStep(j) ==
    \/ ExceptStop(j) \/ ExceptSettle(j) \/ ExceptPersist(j) \/ ExceptSurvivor(j)

WorkerStep(j) == LaunchStep(j) \/ CompletionStep(j) \/ ExceptStep(j)

ChildStep(j) ==
    \/ ChildExec(j) \/ ChildGivesUp(j) \/ ChildExit(j) \/ DescendantsExit(j)

JobStep(j) ==
    \/ CallerStep(j) \/ SubmitFail(j) \/ CancelRequest(j)
    \/ WorkerStep(j) \/ ChildStep(j)

Next == (\E s \in Service : ServiceStep(s)) \/ (\E j \in Job : JobStep(j))

Spec == Init /\ [][Next]_vars

\* Threads that run are scheduled, every started call and child ends, and an
\* operator's client keeps polling; nothing makes a service start, crash or be
\* asked to submit or cancel.
Fairness ==
    /\ \A j \in Job : /\ WF_vars(CallerStep(j))
                      /\ WF_vars(WorkerStep(j))
                      /\ WF_vars(ChildStep(j))
    /\ \A s \in Service : WF_vars(Poll(s))

FairSpec == Spec /\ Fairness

------------------------------------------------------------------------------
(* Properties *)

States == {"absent"} \cup ActiveStates \cup TerminalStates
Codes  == {"none", "ok", "bad"}

Records == [state : States, owner : Service \cup {None}, launched : BOOLEAN,
            finished : BOOLEAN, code : Codes, verifying : BOOLEAN, evidence : BOOLEAN]

WorkerPoints ==
    {"none", "begin", "spawn", "register", "bind", "permit", "stop", "wait", "finish",
     "tree", "authorize", "verify", "reject", "pend", "promote", "final", "clear",
     "except", "settle", "persist", "survivor", "exit", "done"}

TypeOK ==
    /\ live \subseteq Service /\ started \subseteq Service
    /\ rec \in [Job -> Records] /\ snap \in [Job -> Records]
    /\ lease \in [id : Job \cup {None}, owner : Service \cup {None},
                  proc : Job \cup {None}]
    /\ stage \in [Job -> {"none", "launcher", "action", "descendants", "gone"}]
    /\ code \in [Job -> Codes]
    /\ permit \subseteq Job /\ promoted \subseteq Job
    /\ sub \in [Job -> {"none", "recorded", "leased", "handoff", "snapshot", "failed",
                    "done"}]
    /\ wpc \in [Job -> WorkerPoints]
    /\ cpc \in [Job -> {"none", "terminate", "clear"}]
    /\ owned \in [Job -> {"no", "thread", "process"}]
    /\ glock \in Job \cup {None}
    /\ slock \in [Service -> Job \cup {None}]

\* V0.2 runs one local GPU job at a time across all state roots
\* (_require_global_lease_available): the children that passed their permit never
\* overlap, whatever services crash and restart.
GpuExclusive == \A j, k \in Job : OnGpu(j) /\ OnGpu(k) => j = k

\* A child that runs the GPU is always named by the lease, so that any process on
\* the host can see it: the lease is bound before the permit is written and is
\* neither cleared nor reclaimed before the group is gone.
LeaseCoversChild == \A j \in Job : OnGpu(j) => lease.id = j /\ lease.proc = j

\* The lease of a child and the truth of its record are lost in one way only: the
\* submission gave the job up (JobSubmissionFailure, SUBMISSION_HANDOFF_FAILED)
\* while the record was active.  No other call, crash, fault or race does it.
HandoffLossConfined ==
    \A j \in Job : OnGpu(j) /\ sub[j] # "failed" =>
        /\ lease.id = j /\ lease.proc = j
        /\ rec[j].state \notin TerminalStates

\* Records of one state root: at most one is active (_require_no_active_job).
OneActiveRecordPerRoot ==
    \A j, k \in Job :
        /\ rec[j].state \in ActiveStates /\ rec[k].state \in ActiveStates
        /\ RootOfJob(j) = RootOfJob(k)
        => j = k

\* A terminal record never describes a child that still uses the GPU
\* (run-states.md: cancelled means that owned process termination completed).
TerminalMeansStopped ==
    \A j \in Job : rec[j].state \in TerminalStates => ~OnGpu(j)

\* A completed train job was verified and promoted by a parent after its child
\* returned 0; Aptus never infers success from a dead process alone.
CompletedMeansPromoted ==
    \A j \in Job : rec[j].state = "completed" =>
        /\ rec[j].code = "ok"
        /\ j \in Train => j \in promoted /\ rec[j].evidence

\* A cancelled job leaves no promoted report behind (run-states.md: cancelled is
\* termination "without success promotion").
CancelledMeansUnpromoted ==
    \A j \in Job : rec[j].state = "cancelled" => j \notin promoted

\* Terminal records never change their state again (run-states.md, "Terminal: Yes"),
\* whatever worker, canceller, failed handoff or other service still writes.
TerminalIsFinal ==
    [][\A j \in Job : rec[j].state \in TerminalStates
                        => rec'[j].state = rec[j].state]_vars

Slot == INSTANCE GpuSlot WITH
    User <- Job,
    holder <- IF \E j \in Job : OnGpu(j) THEN CHOOSE j \in Job : OnGpu(j) ELSE None

Lifecycle == INSTANCE RunStates WITH
    state <- [j \in Job |-> rec[j].state], attested <- promoted

\* The children of all services use the GPU one at a time, with a moment between
\* two of them in which none does: JobService implements GpuSlot.
ImplementsSlot == Slot!Spec

\* Every persisted record follows the documented run states, whatever crashes,
\* cancellations and reconciliations interleave: JobService implements RunStates.
ImplementsLifecycle == Lifecycle!Spec

\* An active job of a live service ends: its threads are never stuck on a lock, a
\* lease or a child that stopped.
OwnedJobEnds ==
    \A j \in Job :
        (rec[j].state \in ActiveStates /\ rec[j].owner \in live)
            ~> (rec[j].state \in TerminalStates \/ rec[j].owner \notin live)

\* A record whose owner died is settled by whatever service lives on its root.
OrphanedRecordEnds ==
    \A j \in Job :
        (rec[j].state \in ActiveStates /\ rec[j].owner \notin live)
            ~> (rec[j].state \in ActiveStates
                    => \A s \in live : RootOf[s] # RootOfJob(j))

\* The lease never blocks the host for good: it is cleared or becomes stale.
LeaseFreed == []<>LeaseAvailable
=============================================================================

---------------------------- MODULE PortableLease ----------------------------
(***************************************************************************)
(* The portable side of the host-global GPU lease: runtime_lease.py, which *)
(* every generated bundle carries, beside the managed service that shares  *)
(* the lease file with it.                                                 *)
(*                                                                         *)
(* A bundle program is a process.  One that has children (validate.py,     *)
(* preflight.py, run.py) creates or borrows the lease, runs its children   *)
(* one after the other under it and gives it back; one that has none       *)
(* (train.py) checks the lease once and then uses the GPU.  Every child    *)
(* leads a process group of its own, so that ending a program does not end *)
(* the programs it launched.  Each "with _lease_lock" section is one step. *)
(*                                                                         *)
(* Of the managed service only the steps on the lease are kept (JobService *)
(* has the rest): its owner lives, and its child is bound before it runs.  *)
(* Abstractions: POSIX, exact process identities, every killed group dies. *)
(***************************************************************************)
EXTENDS Naturals, FiniteSets

CONSTANTS
    Program,        \* processes of bundle programs
    Parent,         \* the program that launches each, None for a user's shell
    Managed,        \* jobs of the managed service
    Daemon,         \* the managed service process
    None,
    Killable,       \* programs that may die at any moment (SIGKILL)
    Interruptible   \* programs whose terminal may send Ctrl-C

ASSUME TreeAssumption ==
    /\ Parent \in [Program -> Program \cup {None}]
    /\ Killable \subseteq Program /\ Interruptible \subseteq Program
    /\ None \notin Program \cup Managed \cup {Daemon}
    /\ Program \cap Managed = {} /\ Daemon \notin Program \cup Managed

VARIABLES
    lease,      \* the lease file
    alive,      \* live processes
    strays,     \* groups whose leader exited and left descendants
    pc,         \* where each program is
    env,        \* APTUS_GPU_LEASE_TOKEN of each program
    how,        \* how a program came by the lease
    lent,       \* the binding a borrower found
    prev,       \* the binding run_with_lease found
    kid,        \* the child that run_with_lease runs
    todo,       \* children still to be launched
    mpc         \* the managed jobs

vars == <<lease, alive, strays, pc, env, how, lent, prev, kid, todo, mpc>>

loan == <<how, lent>>
call == <<prev, kid, todo>>

------------------------------------------------------------------------------
Children(p) == {c \in Program : Parent[c] = p}

Wrapper(p) == Children(p) # {}

NoLease   == [token |-> None, owner |-> None, proc |-> None, group |-> None]
NoBinding == [proc |-> None, group |-> None]

Binding == [proc |-> lease.proc, group |-> lease.group]

\* The lease file with another process binding.
Rebound(b) == [lease EXCEPT !.proc = b.proc, !.group = b.group]

GroupLive(g) == g \in alive \cup strays

ChildLive == lease.proc \in alive \/ GroupLive(lease.group)

\* _lease_live: owner, process or group.
LeaseLive == lease.owner \in alive \/ ChildLive

\* require_execution_lease succeeds for p.
HasLease(p) == env[p] # None /\ lease.token = env[p] /\ LeaseLive

IsPortable == lease.token \in Program

\* JobService reads the record the lease names; a portable lease names none.
RecordTerminal == lease.token \in Managed /\ mpc[lease.token] \in {"clear", "done"}

\* Mutant: a lease is as stale as the process that owns it.
OwnerGone == lease.owner \notin alive

ManagedStale ==
    \/ RecordTerminal /\ ~ChildLive
    \/ IsPortable /\ ~ChildLive
    \/ ~LeaseLive

\* The GPU is used by p or by what p left behind.
OnGpu(p) == pc[p] = "gpu" \/ p \in strays

Init ==
    /\ lease = NoLease
    /\ alive = {Daemon} /\ strays = {}
    /\ pc = [p \in Program |-> "none"]
    /\ env = [p \in Program |-> None]
    /\ how = [p \in Program |-> "none"]
    /\ lent = [p \in Program |-> NoBinding]
    /\ prev = [p \in Program |-> NoBinding]
    /\ kid = [p \in Program |-> None]
    /\ todo = [p \in Program |-> Children(p)]
    /\ mpc = [m \in Managed |-> "none"]

Go(p, from, to) == pc[p] = from /\ pc' = [pc EXCEPT ![p] = to]

\* The process of p ends with its last step.
GoEnd(p, from) == Go(p, from, "done") /\ alive' = alive \ {p}

------------------------------------------------------------------------------
(* portable_execution_lease *)

\* A user runs a bundle program from a shell without a token.
StartTop(p) ==
    /\ Parent[p] = None
    /\ Go(p, "none", "enter")
    /\ alive' = alive \cup {p}
    /\ UNCHANGED <<lease, strays, env, loan, call, mpc>>

\* The inherited token names the lease: borrow it and bind it to this process.
Borrow(p) ==
    /\ Wrapper(p) /\ HasLease(p)
    /\ Go(p, "enter", "body")
    /\ lent' = [lent EXCEPT ![p] = Binding]
    /\ lease' = Rebound([proc |-> p, group |-> None])
    /\ how' = [how EXCEPT ![p] = "borrowed"]
    /\ UNCHANGED <<alive, strays, env, call, mpc>>

\* There is no lease, or a dead one is removed: create one.
Create(p) ==
    /\ Wrapper(p) /\ ~LeaseLive
    /\ Go(p, "enter", "body")
    /\ lease' = [token |-> p, owner |-> p, proc |-> p, group |-> None]
    /\ env' = [env EXCEPT ![p] = p]
    /\ how' = [how EXCEPT ![p] = "created"]
    /\ UNCHANGED <<alive, strays, lent, call, mpc>>

\* Another action is active: the program ends.
Refuse(p) ==
    /\ Wrapper(p) /\ LeaseLive /\ ~HasLease(p)
    /\ GoEnd(p, "enter")
    /\ UNCHANGED <<lease, strays, env, loan, call, mpc>>

\* The end of the "with" body, also on an error: give the lease back.  The owner
\* leaves it in place as long as a bound child lives.
Leave(p) ==
    /\ GoEnd(p, "leave")
    /\ lease' = IF lease.token # env[p] THEN lease
                ELSE IF how[p] = "borrowed" THEN Rebound(lent[p])
                ELSE IF (lease.proc # p /\ lease.proc \in alive) \/ GroupLive(lease.group)
                     THEN lease ELSE NoLease
    /\ UNCHANGED <<strays, env, loan, call, mpc>>

\* A body that has no more to launch, or whose last child failed, ends.
BodyEnds(p) ==
    /\ Go(p, "body", "leave")
    /\ UNCHANGED <<lease, alive, strays, env, loan, call, mpc>>

------------------------------------------------------------------------------
(* run_with_lease *)

\* require_execution_lease before the launch; without the lease it raises.
Check(p, c) ==
    /\ c \in todo[p]
    /\ IF HasLease(p) THEN Go(p, "body", "spawn") ELSE Go(p, "body", "leave")
    /\ kid' = [kid EXCEPT ![p] = c] /\ todo' = [todo EXCEPT ![p] = @ \ {c}]
    /\ prev' = [prev EXCEPT ![p] = NoBinding]
    /\ UNCHANGED <<lease, alive, strays, env, loan, mpc>>

\* Popen with start_new_session: the child inherits the token.
Spawn(p) ==
    LET c == kid[p]
    IN  /\ pc[p] = "spawn"
        /\ pc' = [pc EXCEPT ![p] = "bind", ![c] = "enter"]
        /\ alive' = alive \cup {c}
        /\ env' = [env EXCEPT ![c] = env[p]]
        /\ UNCHANGED <<lease, strays, loan, call, mpc>>

SpawnFail(p) ==
    /\ Go(p, "spawn", "leave")
    /\ UNCHANGED <<lease, alive, strays, env, loan, call, mpc>>

\* Bind the lease to the child; a lease that changed meanwhile raises.
Bind(p) ==
    /\ IF lease.token = env[p]
       THEN /\ Go(p, "bind", "wait")
            /\ prev' = [prev EXCEPT ![p] = Binding]
            /\ lease' = Rebound([proc |-> kid[p], group |-> kid[p]])
       ELSE Go(p, "bind", "abort") /\ UNCHANGED <<lease, prev>>
    /\ UNCHANGED <<alive, strays, env, loan, kid, todo, mpc>>

\* process.wait() returned; descendants left in the child's group raise.
Wait(p) ==
    /\ kid[p] \notin alive
    /\ IF GroupLive(kid[p]) THEN Go(p, "wait", "abort") ELSE Go(p, "wait", "restore")
    /\ UNCHANGED <<lease, alive, strays, env, loan, call, mpc>>

\* _terminate_posix_group: the group of the child dies at once, without running the
\* child's own "finally", and what the child launched itself is in other groups.
Abort(p) ==
    LET c == kid[p]
    IN  /\ pc[p] = "abort"
        /\ pc' = [pc EXCEPT ![p] = "unwind", ![c] = "killed"]
        /\ alive' = alive \ {c} /\ strays' = strays \ {c}
        /\ UNCHANGED <<lease, env, loan, call, mpc>>

\* "finally": the binding goes back to what it was before the launch, or to the
\* owner when the child was never bound.
Restore(p) ==
    /\ Go(p, "restore", "body") \/ Go(p, "unwind", "leave")
    /\ lease' = IF lease.token # env[p] THEN lease
                ELSE IF prev[p] # NoBinding THEN Rebound(prev[p])
                ELSE Rebound([proc |-> lease.owner, group |-> None])
    /\ UNCHANGED <<alive, strays, env, loan, call, mpc>>

\* KeyboardInterrupt in a body or while the child is bound and waited for.
Interrupt(p) ==
    /\ p \in Interruptible
    /\ \/ Go(p, "body", "leave")
       \/ Go(p, "bind", "abort") \/ Go(p, "wait", "abort")
    /\ UNCHANGED <<lease, alive, strays, env, loan, call, mpc>>

------------------------------------------------------------------------------
(* train.py, and processes that die *)

\* require_execution_lease in the process that will use the GPU.
Require(p) ==
    /\ ~Wrapper(p)
    /\ IF HasLease(p) THEN Go(p, "enter", "gpu") /\ UNCHANGED alive
                      ELSE GoEnd(p, "enter")
    /\ UNCHANGED <<lease, strays, env, loan, call, mpc>>

\* The program ends, perhaps leaving descendants in its group.
GpuEnds(p) ==
    /\ GoEnd(p, "gpu")
    /\ strays' = strays \/ strays' = strays \cup {p}
    /\ UNCHANGED <<lease, env, loan, call, mpc>>

StraysEnd(p) ==
    /\ p \in strays /\ strays' = strays \ {p}
    /\ UNCHANGED <<lease, alive, pc, env, loan, call, mpc>>

Kill(p) ==
    /\ p \in Killable /\ p \in alive
    /\ pc' = [pc EXCEPT ![p] = "killed"] /\ alive' = alive \ {p}
    /\ UNCHANGED <<lease, strays, env, loan, call, mpc>>

------------------------------------------------------------------------------
(* The managed service on the same lease *)

\* Mutant: a lease without a record is free.
AdmitRecordless(m) ==
    /\ mpc[m] = "none" /\ (lease = NoLease \/ IsPortable \/ ManagedStale)
    /\ lease' = [token |-> m, owner |-> Daemon, proc |-> None, group |-> None]
    /\ mpc' = [mpc EXCEPT ![m] = "leased"]
    /\ UNCHANGED <<alive, strays, pc, env, loan, call>>

\* _require_global_lease_available and _create_global_lease.
Admit(m) ==
    /\ mpc[m] = "none" /\ (lease = NoLease \/ ManagedStale)
    /\ lease' = [token |-> m, owner |-> Daemon, proc |-> None, group |-> None]
    /\ mpc' = [mpc EXCEPT ![m] = "leased"]
    /\ UNCHANGED <<alive, strays, pc, env, loan, call>>

\* The launcher is bound to the lease and let through.
Launch(m) ==
    /\ mpc[m] = "leased" /\ lease.token = m
    /\ lease' = Rebound([proc |-> m, group |-> m])
    /\ alive' = alive \cup {m}
    /\ mpc' = [mpc EXCEPT ![m] = "gpu"]
    /\ UNCHANGED <<strays, pc, env, loan, call>>

\* The child is gone, and the record terminal.
JobEnds(m) ==
    /\ mpc[m] = "gpu"
    /\ alive' = alive \ {m}
    /\ mpc' = [mpc EXCEPT ![m] = "clear"]
    /\ UNCHANGED <<lease, strays, pc, env, loan, call>>

\* Mutant: a lease that is bound to a child is not cleared.
ClearUnbound(m) ==
    /\ mpc[m] = "clear"
    /\ lease' = IF lease.token = m /\ lease.proc = None THEN NoLease ELSE lease
    /\ mpc' = [mpc EXCEPT ![m] = "done"]
    /\ UNCHANGED <<alive, strays, pc, env, loan, call>>

\* _clear_global_lease.
Clear(m) ==
    /\ mpc[m] = "clear"
    /\ lease' = IF lease.token = m THEN NoLease ELSE lease
    /\ mpc' = [mpc EXCEPT ![m] = "done"]
    /\ UNCHANGED <<alive, strays, pc, env, loan, call>>

------------------------------------------------------------------------------
ProgramStep(p) ==
    \/ Borrow(p) \/ Create(p) \/ Refuse(p) \/ Leave(p) \/ BodyEnds(p)
    \/ \E c \in todo[p] : Check(p, c)
    \/ Spawn(p) \/ SpawnFail(p) \/ Bind(p) \/ Wait(p) \/ Abort(p) \/ Restore(p)
    \/ Require(p) \/ GpuEnds(p) \/ StraysEnd(p)

ManagedStep(m) == Launch(m) \/ JobEnds(m) \/ Clear(m)

Next ==
    \/ \E p \in Program : StartTop(p) \/ ProgramStep(p) \/ Interrupt(p) \/ Kill(p)
    \/ \E m \in Managed : Admit(m) \/ ManagedStep(m)

Spec == Init /\ [][Next]_vars

\* Processes are scheduled and the work they do ends; nobody is obliged to start,
\* interrupt or kill one, or to submit a job.
Fairness ==
    /\ \A p \in Program : WF_vars(ProgramStep(p))
    /\ \A m \in Managed : WF_vars(ManagedStep(m))

FairSpec == Spec /\ Fairness

------------------------------------------------------------------------------
(* Properties *)

Holders  == Program \cup Managed
Bindings == [proc : Holders \cup {None}, group : Holders \cup {None}]

TypeOK ==
    /\ lease \in [token : Holders \cup {None}, owner : Holders \cup {Daemon, None},
                  proc : Holders \cup {None}, group : Holders \cup {None}]
    /\ alive \subseteq Holders \cup {Daemon} /\ strays \subseteq Program
    /\ pc \in [Program -> {"none", "enter", "body", "spawn", "bind", "wait", "abort",
                           "restore", "unwind", "leave", "gpu", "done", "killed"}]
    /\ env \in [Program -> Program \cup {None}]
    /\ how \in [Program -> {"none", "created", "borrowed"}]
    /\ lent \in [Program -> Bindings] /\ prev \in [Program -> Bindings]
    /\ kid \in [Program -> Program \cup {None}] /\ todo \in [Program -> SUBSET Program]
    /\ mpc \in [Managed -> {"none", "leased", "gpu", "clear", "done"}]

GpuUsers == {p \in Program : OnGpu(p)} \cup {m \in Managed : mpc[m] = "gpu"}

\* "Only one Aptus GPU action may run for this local user and host" (_active_error):
\* portable programs of any nesting and managed jobs never use the GPU together.
OneGpuAction == \A x, y \in GpuUsers : x = y

\* Whoever uses the GPU is covered: neither a portable program nor the managed
\* service would take the lease for free while it does.
GpuUseIsVisible == GpuUsers # {} => LeaseLive /\ ~ManagedStale

\* The lease is not blocked for good by any chain of borrowed and restored bindings.
LeaseFreed == []<>(lease = NoLease \/ (~LeaseLive /\ ManagedStale))
=============================================================================

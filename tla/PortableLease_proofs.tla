------------------------ MODULE PortableLease_proofs ------------------------
(***************************************************************************)
(* OneGpuAction and GpuUseIsVisible for every number of bundle programs,   *)
(* of managed jobs and of children of a program, and that PortableLease    *)
(* implements GpuSlot (runtime_lease.py and the programs that use it).     *)
(*                                                                         *)
(* Two hypotheses, met by every bundle and by the run of PortableLease:    *)
(* BundleTree is the shape of the programs, OrderlyFaults says which may   *)
(* be killed or interrupted; beyond it the code does lose the lease (the   *)
(* run on Ctrl-C in validate.py).                                          *)
(*                                                                         *)
(* Neither invariant is inductive.  PInv adds, for each kind of program,   *)
(* what its program point says of the lease: a launcher of GPU programs    *)
(* holds it and is bound to it, or has bound its child, from the check     *)
(* before the launch until the child is gone; the program above it holds   *)
(* it from its own check until the launcher below has borrowed it.         *)
(***************************************************************************)
EXTENDS PortableLease, TLAPS

\* preflight.py and run.py: a program that launches programs that use the GPU.
Runner(r) == Wrapper(r) /\ \A c \in Children(r) : ~Wrapper(c)

\* validate.py launches preflight.py and nothing else, from a shell.
BundleTree ==
    \A p \in Program :
        Wrapper(p) /\ Parent[p] # None
            => Parent[Parent[p]] = None /\ Children(Parent[p]) = {p}

\* Whoever watches a GPU program is not killed, and Ctrl-C reaches that one first.
OrderlyFaults ==
    /\ \A p \in Killable : ~Runner(p)
    /\ \A p \in Interruptible : Wrapper(p) => Runner(p)

------------------------------------------------------------------------------
(* The inductive invariant *)

Unstarted == {"none", "enter"}
Watching  == {"bind", "wait", "abort"}

\* The lease is p's to use, and it is bound to p, or to p as a child was bound.
Held(p)  == env[p] # None /\ lease.token = env[p]
Own(p)   == lease.proc = p /\ lease.group \in {None, p}
Bound(p) == lease.proc = p /\ lease.group = p

OwnBinding(p) == [proc : {p}, group : {None, p}]

\* A portable lease is owned by the program that created it.
LeaseInv == lease.token \in Program => lease.owner = lease.token

\* Which processes live, and where programs with and without children can be.
ProcInv ==
    /\ Daemon \in alive
    /\ \A p \in Program :
        /\ p \in alive <=> pc[p] \notin {"none", "done", "killed"}
        /\ p \in strays => ~Wrapper(p) /\ pc[p] = "done"
        /\ ~Wrapper(p) => pc[p] \in {"none", "enter", "gpu", "done", "killed"}
        /\ Wrapper(p) => pc[p] # "gpu"
    /\ \A m \in Managed : m \in alive <=> mpc[m] = "gpu"

\* A token names a program that has created a lease, and is inherited; only the orphan
\* of a killed program creates one of its own.
EnvInv ==
    \A p \in Program :
        /\ pc[p] = "none" => env[p] = None
        /\ pc[p] \notin {"none", "enter", "done", "killed"} => env[p] # None
        /\ env[p] # None => env[p] \in Program /\ pc[env[p]] \notin Unstarted
        /\ Wrapper(p) => env[p] \in {None, p, Parent[p]}
        /\ pc[p] = "enter" => env[p] # p
        /\ ~Wrapper(p) /\ Parent[p] = None => env[p] = None
        /\ Parent[p] # None /\ pc[p] # "none" =>
              /\ env[Parent[p]] # None /\ pc[Parent[p]] \notin Unstarted
              /\ env[p] \in {p, env[Parent[p]]}
              /\ ~Wrapper(p) => env[p] = env[Parent[p]]
              /\ env[p] = p => pc[Parent[p]] = "killed"

\* A program watches its one child that lives, until it is killed itself.
KidInv ==
    \A p \in Program :
        /\ pc[p] \in {"spawn", "bind", "wait", "abort", "restore", "unwind"}
               => kid[p] \in Children(p) \ todo[p]
        /\ pc[p] = "spawn" => pc[kid[p]] = "none"
        /\ pc[p] \in Watching => pc[kid[p]] # "none"
        /\ todo[p] \subseteq Children(p)
        /\ \A c \in todo[p] : pc[c] = "none"
        /\ \A c \in Children(p) :
              /\ c \in alive => pc[p] = "killed" \/ (kid[p] = c /\ pc[p] \in Watching)
              /\ pc[p] \in Unstarted => pc[c] = "none"

\* A leaf that has not looked at the lease is watched, or cannot pass the check.
EnterOf(c) ==
    \/ kid[Parent[c]] = c /\ pc[Parent[c]] \in Watching
    \/ pc[Parent[c]] = "killed" /\ lease.token # env[c]

EnterInv ==
    \A c \in Program :
        pc[c] = "enter" /\ Parent[c] # None /\ ~Wrapper(c) => EnterOf(c)

\* What uses the GPU is watched by a parent that holds the lease, and bound to it.
GpuOf(c) ==
    /\ Parent[c] # None /\ kid[Parent[c]] = c /\ pc[Parent[c]] \in Watching
    /\ Held(Parent[c])
    /\ Own(Parent[c]) \/ Bound(c)

GpuInv == \A c \in Program : OnGpu(c) => GpuOf(c)

\* A launcher of GPU programs that launches or watches is bound, or has bound its child.
RunnerOf(r) ==
    /\ pc[r] \in {"spawn", "bind"} => Held(r)
    /\ Held(r) /\ pc[r] \in {"body", "spawn", "bind"} => Own(r)
    /\ Held(r) /\ pc[r] \in {"wait", "abort"} => Own(r) \/ Bound(kid[r])
    /\ pc[r] \in {"wait", "restore"} => prev[r] \in OwnBinding(r)

RunnerInv == \A r \in Program : Runner(r) => RunnerOf(r)

\* A program above a launcher is bound until that has borrowed, and gives up its child
\* only when the lease has changed hands.
OuterOf(p) ==
    /\ pc[p] = "spawn" \/ (pc[p] = "body" /\ todo[p] # {}) => Held(p) /\ Own(p)
    /\ \A q \in Children(p) :
          /\ pc[q] = "enter" /\ pc[p] \in {"bind", "wait"} =>
                Held(p) /\ lease.proc \in {p, q}
          /\ pc[p] = "abort" => pc[q] # "enter" /\ ~Held(p)

OuterInv == \A p \in Program : Wrapper(p) /\ ~Runner(p) => OuterOf(p)

\* A managed job that was admitted names the lease, and its child is bound.
ManagedInv ==
    \A m \in Managed :
        /\ mpc[m] \in {"leased", "gpu"} => lease.token = m /\ lease.owner = Daemon
        /\ mpc[m] = "gpu" => lease.proc = m
PInv ==
    /\ TypeOK /\ LeaseInv /\ ProcInv /\ EnvInv /\ KidInv
    /\ EnterInv /\ GpuInv /\ RunnerInv /\ OuterInv /\ ManagedInv

------------------------------------------------------------------------------
(* The lease file *)

\* The values of lease in TypeOK.
Leases == [token : Holders \cup {None}, owner : Holders \cup {Daemon, None},
           proc : Holders \cup {None}, group : Holders \cup {None}]

PCs == {"none", "enter", "body", "spawn", "bind", "wait", "abort",
        "restore", "unwind", "leave", "gpu", "done", "killed"}

\* The rest of TypeOK that the steps need.
Tables ==
    /\ pc \in [Program -> PCs] /\ env \in [Program -> Program \cup {None}]
    /\ how \in [Program -> {"none", "created", "borrowed"}]
    /\ lent \in [Program -> Bindings] /\ prev \in [Program -> Bindings]
    /\ kid \in [Program -> Program \cup {None}] /\ todo \in [Program -> SUBSET Program]
    /\ mpc \in [Managed -> {"none", "leased", "gpu", "clear", "done"}]

\* The tables have their types.
LEMMA TablesTyped == TypeOK => Tables
  BY DEF TypeOK, Tables, PCs

\* Rebound changes the binding of the lease and nothing else.
LEMMA ReboundFields ==
  ASSUME TypeOK, NEW b \in Bindings
  PROVE  /\ Rebound(b).token = lease.token /\ Rebound(b).owner = lease.owner
         /\ Rebound(b).proc = b.proc /\ Rebound(b).group = b.group
         /\ Rebound(b) \in Leases
  BY DEF TypeOK, Rebound, Bindings, Leases

\* The fields of bindings and of the absent lease.
LEMMA BindingFields ==
  ASSUME TypeOK
  PROVE  /\ NoBinding \in Bindings /\ Binding \in Bindings
         /\ \A x, y \in Holders \cup {None} :
               LET b == [proc |-> x, group |-> y]
               IN  b \in Bindings /\ b.proc = x /\ b.group = y
         /\ NoLease \in Leases
         /\ NoLease.token = None /\ NoLease.owner = None
         /\ NoLease.proc = None /\ NoLease.group = None
  BY DEF TypeOK, NoBinding, Binding, Bindings, Leases, NoLease

\* Token and owner stay.
Keeps == lease'.token = lease.token /\ lease'.owner = lease.owner

\* What the lease is after the steps of a program that write it: borrow, bind, give back
\* (in place, restored, or removed) and restore.
LEMMA AfterLease ==
  ASSUME TypeOK, KidInv, LeaseInv, EnvInv, NEW p \in Program
  PROVE  /\ Borrow(p) => Keeps /\ lease'.proc = p /\ lease'.group = None
         /\ Bind(p) /\ lease.token = env[p]
              => Keeps /\ lease'.proc = kid[p] /\ lease'.group = kid[p]
         /\ Leave(p) => \/ lease' = lease
                        \/ /\ lease.token = env[p] /\ Keeps
                           /\ how[p] = "borrowed"
                           /\ lease'.proc = lent[p].proc /\ lease'.group = lent[p].group
                        \/ /\ lease.token = env[p] /\ lease'.token = None
                           /\ ~((lease.proc # p /\ lease.proc \in alive) \/ GroupLive(lease.group))
         /\ Restore(p) => \/ lease' = lease /\ lease.token # env[p]
                          \/ /\ lease.token = env[p] /\ Keeps
                             /\ prev[p] # NoBinding
                             /\ lease'.proc = prev[p].proc /\ lease'.group = prev[p].group
                          \/ /\ lease.token = env[p] /\ Keeps
                             /\ prev[p] = NoBinding /\ lease'.proc = lease.owner
                             /\ lease'.group = None
<1> USE ReboundFields, BindingFields, TreeAssumption
<1>0. /\ lent[p] \in Bindings /\ prev[p] \in Bindings
      /\ p \in Holders /\ None \in Holders \cup {None}
  BY DEF TypeOK, Holders
<1>1. Borrow(p) => Keeps /\ lease'.proc = p /\ lease'.group = None
  BY <1>0 DEF Borrow, Keeps
<1>2. Bind(p) /\ lease.token = env[p]
        => Keeps /\ lease'.proc = kid[p] /\ lease'.group = kid[p]
  <2>1. Bind(p) => kid[p] \in Holders
    BY DEF KidInv, Bind, Go, TypeOK, Holders, Children
  <2> QED BY <2>1 DEF Bind, Keeps
<1>3. Leave(p) => \/ lease' = lease
                  \/ /\ lease.token = env[p] /\ Keeps
                     /\ how[p] = "borrowed"
                     /\ lease'.proc = lent[p].proc /\ lease'.group = lent[p].group
                  \/ /\ lease.token = env[p] /\ lease'.token = None
                     /\ ~((lease.proc # p /\ lease.proc \in alive) \/ GroupLive(lease.group))
  BY <1>0 DEF Leave, Keeps
<1>4. Restore(p) => \/ lease' = lease /\ lease.token # env[p]
                    \/ /\ lease.token = env[p] /\ Keeps
                       /\ prev[p] # NoBinding
                       /\ lease'.proc = prev[p].proc /\ lease'.group = prev[p].group
                    \/ /\ lease.token = env[p] /\ Keeps
                       /\ prev[p] = NoBinding /\ lease'.proc = lease.owner
                       /\ lease'.group = None
  <2> SUFFICES ASSUME Restore(p), lease.token = env[p], prev[p] = NoBinding
               PROVE  Keeps /\ lease'.proc = lease.owner /\ lease'.group = None
    BY <1>0 DEF Restore, Keeps
  <2>1. env[p] # None /\ env[p] \in Program
    BY DEF Restore, Go, EnvInv, TypeOK
  <2>2. lease.owner \in Holders
    BY <2>1 DEF LeaseInv, Holders
  <2> QED BY <2>2 DEF Restore, Keeps
<1> QED BY <1>1, <1>2, <1>3, <1>4

\* What the lease is after the steps of the managed service.
LEMMA AfterManaged ==
  ASSUME TypeOK, NEW m \in Managed
  PROVE  /\ Admit(m) => /\ lease'.token = m /\ lease'.owner = Daemon
                        /\ lease'.proc = None /\ lease'.group = None
         /\ Launch(m) => Keeps /\ lease'.proc = m /\ lease'.group = m
         /\ Clear(m) => lease' = lease \/ (lease'.token = None /\ lease.token = m)
<1>1. m \in Holders
  BY DEF Holders
<1> QED BY <1>1, ReboundFields, BindingFields DEF Admit, Launch, Clear, Keeps

\* Nobody takes the lease for free while a program it is bound to lives.
LEMMA Covered ==
  ASSUME TypeOK, EnvInv, NEW r \in Program, Held(r), ChildLive
  PROVE  LeaseLive /\ ~ManagedStale /\ lease # NoLease
<1>1. lease.token \in Program /\ lease.token \notin Managed /\ lease.token # None
  BY TreeAssumption DEF Held, EnvInv
<1> QED BY <1>1 DEF LeaseLive, ManagedStale, RecordTerminal, IsPortable, NoLease

------------------------------------------------------------------------------
(* The tree of programs *)

\* A program above a launcher was started from a shell and has that one child.
LEMMA OuterShape ==
  ASSUME BundleTree, NEW o \in Program, Wrapper(o), ~Runner(o)
  PROVE  /\ Parent[o] = None
         /\ \E q \in Program : Children(o) = {q} /\ Parent[q] = o /\ Runner(q)
<1>1. PICK q \in Children(o) : Wrapper(q)
  BY DEF Runner
<1>2. q \in Program /\ Parent[q] = o /\ Parent[q] # None
  BY TreeAssumption DEF Children
<1>3. Parent[o] = None /\ Children(o) = {q}
  BY <1>1, <1>2 DEF BundleTree
<1>4. ASSUME NEW c \in Children(q) PROVE ~Wrapper(c)
  BY <1>2, <1>4, TreeAssumption DEF BundleTree, Children
<1> QED BY <1>1, <1>2, <1>3, <1>4 DEF Runner

\* The parent of a program without children is a launcher.
LEMMA RunnerShape ==
  ASSUME BundleTree, NEW c \in Program, Parent[c] # None, ~Wrapper(c)
  PROVE  Parent[c] \in Program /\ c \in Children(Parent[c]) /\ Runner(Parent[c])
<1>1. Parent[c] \in Program /\ c \in Children(Parent[c])
  BY TreeAssumption DEF Children
<1>2. Wrapper(Parent[c])
  BY <1>1 DEF Wrapper, Children
<1> QED BY <1>1, <1>2, OuterShape DEF Runner

\* Two programs with children and the same token are a launcher that lives and the
\* program above it, which waits for it or was killed.
LEMMA OneHolder ==
  ASSUME BundleTree, TypeOK, EnvInv, ProcInv, KidInv, NEW r \in Program, Runner(r),
         env[r] # None, r \in alive, NEW p \in Program, Wrapper(p), p # r,
         env[p] = env[r]
  PROVE  /\ Parent[r] = p /\ Parent[p] = None /\ env[p] = p
         /\ pc[p] = "killed" \/ (kid[p] = r /\ pc[p] \in Watching)
<1>1. /\ env[r] \in {r, Parent[r]} /\ env[p] \in {p, Parent[p]} /\ env[r] \in Program
      /\ p # None /\ r # None /\ Wrapper(r)
  BY TreeAssumption DEF EnvInv, Runner
<1>2. Parent[r] = p
  <2>1. CASE env[r] = r
    <3>1. Parent[p] = r
      BY <1>1, <2>1
    <3> QED BY <3>1 DEF Runner, Children
  <2>2. CASE env[r] = Parent[r] /\ env[p] = Parent[p]
    <3>1. p \in Children(env[r]) /\ r \in Children(env[r])
      BY <2>2 DEF Children
    <3> QED BY <1>1, <2>2, <3>1 DEF BundleTree
  <2> QED BY <1>1, <2>1, <2>2
<1>3. Parent[p] = None
  BY <1>1, <1>2 DEF BundleTree
<1>4. r \in Children(p)
  BY <1>2 DEF Children
<1> QED BY <1>1, <1>2, <1>3, <1>4 DEF KidInv

------------------------------------------------------------------------------
(* Every step keeps every part of the invariant *)

\* A step keeps the types.
LEMMA TypeStep ==
  ASSUME BundleTree, OrderlyFaults, PInv, Next
  PROVE  TypeOK'
<1>0. TypeOK /\ LeaseInv /\ KidInv /\ EnvInv
  BY TablesTyped DEF PInv
<1> USE TreeAssumption, <1>0 DEF Go, GoEnd, call, loan, TypeOK, Leases, Holders, LeaseInv,
     KidInv, EnvInv, Children
<1>1. ASSUME NEW p \in Program, StartTop(p) PROVE TypeOK'
  BY <1>1 DEF StartTop
<1>2. ASSUME NEW p \in Program, Borrow(p) PROVE TypeOK'
  BY <1>2, ReboundFields, BindingFields DEF Borrow
<1>3. ASSUME NEW p \in Program, Create(p) PROVE TypeOK'
  BY <1>3 DEF Create
<1>4. ASSUME NEW p \in Program, Refuse(p) PROVE TypeOK'
  BY <1>4 DEF Refuse
<1>5. ASSUME NEW p \in Program, Leave(p) PROVE TypeOK'
  BY <1>5, ReboundFields, BindingFields DEF Leave
<1>6. ASSUME NEW p \in Program, BodyEnds(p) PROVE TypeOK'
  BY <1>6 DEF BodyEnds
<1>7. ASSUME NEW p \in Program, Spawn(p) PROVE TypeOK'
  BY <1>7 DEF Spawn
<1>8. ASSUME NEW p \in Program, SpawnFail(p) PROVE TypeOK'
  BY <1>8 DEF SpawnFail
<1>9. ASSUME NEW p \in Program, Bind(p) PROVE TypeOK'
  <2>1. kid[p] \in Holders
    BY <1>9 DEF Bind
  <2>2. CASE lease.token = env[p]
    <3>1. [proc |-> kid[p], group |-> kid[p]] \in Bindings
      BY <2>1 DEF Bindings
    <3>4. lease' = Rebound([proc |-> kid[p], group |-> kid[p]])
      BY <1>9, <2>2 DEF Bind
    <3>5. lease' \in Leases
      <4> HIDE DEF Leases
      <4> QED BY <3>1, <3>4, ReboundFields
    <3>2. Binding \in Bindings
      BY BindingFields
    <3>3. prev' \in [Program -> Bindings]
      BY <1>9, <2>2, <3>2 DEF Bind
    <3>6. pc' \in [Program -> {"none", "enter", "body", "spawn", "bind", "wait", "abort",
                           "restore", "unwind", "leave", "gpu", "done", "killed"}]
      BY <1>9, <2>2 DEF Bind
    <3> QED BY <1>9, <2>2, <3>5, <3>3, <3>6 DEF Bind, loan
  <2> QED BY <1>9, <2>2 DEF Bind
<1>10. ASSUME NEW p \in Program, Wait(p) PROVE TypeOK'
  BY <1>10 DEF Wait
<1>11. ASSUME NEW p \in Program, Abort(p) PROVE TypeOK'
  BY <1>11 DEF Abort
<1>12. ASSUME NEW p \in Program, Restore(p) PROVE TypeOK'
  <2>1. lease' \in Leases
    <3>1. CASE lease.token # env[p]
      BY <1>12, <3>1 DEF Restore
    <3>2. CASE lease.token = env[p] /\ prev[p] # NoBinding
      BY <1>12, <3>2, ReboundFields, BindingFields DEF Restore
    <3>3. CASE lease.token = env[p] /\ prev[p] = NoBinding
      <4>1. lease.token \in Program
        BY <1>12, <3>3 DEF Restore
      <4> QED BY <1>12, <3>3, <4>1, ReboundFields, BindingFields DEF Restore
    <3> QED BY <3>1, <3>2, <3>3
  <2> QED BY <1>12, <2>1 DEF Restore
<1>13. ASSUME NEW p \in Program, Interrupt(p) PROVE TypeOK'
  <2>1. \E to \in {"leave", "abort"} : pc' = [pc EXCEPT ![p] = to]
    BY <1>13 DEF Interrupt
  <2> QED BY <1>13, <2>1 DEF Interrupt, loan, call
<1>14. ASSUME NEW p \in Program, Require(p) PROVE TypeOK'
  BY <1>14 DEF Require
<1>15. ASSUME NEW p \in Program, GpuEnds(p) PROVE TypeOK'
  BY <1>15 DEF GpuEnds
<1>16. ASSUME NEW p \in Program, StraysEnd(p) PROVE TypeOK'
  BY <1>16 DEF StraysEnd
<1>17. ASSUME NEW p \in Program, Kill(p) PROVE TypeOK'
  BY <1>17 DEF Kill
<1>18. ASSUME NEW p \in Program, NEW c \in todo[p], Check(p, c) PROVE TypeOK'
  <2>1. c \in Program /\ NoBinding \in Bindings
    BY BindingFields
  <2>2. prev' \in [Program -> Bindings] /\ kid' \in [Program -> Program \cup {None}]
        /\ todo' \in [Program -> SUBSET Program]
    BY <1>18, <2>1 DEF Check
  <2>3. pc' = [pc EXCEPT ![p] = "spawn"] \/ pc' = [pc EXCEPT ![p] = "leave"]
    BY <1>18 DEF Check
  <2> QED BY <1>18, <2>2, <2>3 DEF Check, loan
<1>19. ASSUME NEW m \in Managed, Admit(m) PROVE TypeOK'
  BY <1>19 DEF Admit
<1>20. ASSUME NEW m \in Managed, Launch(m) PROVE TypeOK'
  BY <1>20, ReboundFields, BindingFields DEF Launch
<1>21. ASSUME NEW m \in Managed, JobEnds(m) PROVE TypeOK'
  BY <1>21 DEF JobEnds
<1>22. ASSUME NEW m \in Managed, Clear(m) PROVE TypeOK'
  BY <1>22, ReboundFields, BindingFields DEF Clear
<1>23. QED
  BY <1>1, <1>2, <1>3, <1>4, <1>5, <1>6, <1>7, <1>8, <1>9, <1>10, <1>11, <1>12, <1>13, <1>14,
       <1>15, <1>16, <1>17, <1>18, <1>19, <1>20, <1>21, <1>22 DEF Next, ProgramStep, ManagedStep

\* A portable lease stays with the program that created it.
LEMMA LeaseStep ==
  ASSUME BundleTree, OrderlyFaults, PInv, Next
  PROVE  LeaseInv'
<1>0. TypeOK /\ KidInv /\ LeaseInv /\ EnvInv
  BY TablesTyped DEF PInv
<1> USE TreeAssumption, <1>0 DEF Go, GoEnd, call, loan, TypeOK, LeaseInv, Holders, EnvInv
<1>1. ASSUME NEW p \in Program, StartTop(p) PROVE LeaseInv'
  BY <1>1 DEF StartTop
<1>2. ASSUME NEW p \in Program, Borrow(p) PROVE LeaseInv'
  BY <1>2, ReboundFields, BindingFields DEF Borrow
<1>3. ASSUME NEW p \in Program, Create(p) PROVE LeaseInv'
  BY <1>3 DEF Create
<1>4. ASSUME NEW p \in Program, Refuse(p) PROVE LeaseInv'
  BY <1>4 DEF Refuse
<1>5. ASSUME NEW p \in Program, Leave(p) PROVE LeaseInv'
  BY <1>5, ReboundFields, BindingFields DEF Leave
<1>6. ASSUME NEW p \in Program, BodyEnds(p) PROVE LeaseInv'
  BY <1>6 DEF BodyEnds
<1>7. ASSUME NEW p \in Program, Spawn(p) PROVE LeaseInv'
  BY <1>7 DEF Spawn
<1>8. ASSUME NEW p \in Program, SpawnFail(p) PROVE LeaseInv'
  BY <1>8 DEF SpawnFail
<1>9. ASSUME NEW p \in Program, Bind(p) PROVE LeaseInv'
  <2>1. lease' = lease \/ (lease'.token = lease.token /\ lease'.owner = lease.owner)
    BY <1>9, AfterLease DEF Bind, Keeps
  <2> QED BY <2>1
<1>10. ASSUME NEW p \in Program, Wait(p) PROVE LeaseInv'
  BY <1>10 DEF Wait
<1>11. ASSUME NEW p \in Program, Abort(p) PROVE LeaseInv'
  BY <1>11 DEF Abort
<1>12. ASSUME NEW p \in Program, Restore(p) PROVE LeaseInv'
  BY <1>12, ReboundFields, BindingFields DEF Restore
<1>13. ASSUME NEW p \in Program, Interrupt(p) PROVE LeaseInv'
  BY <1>13 DEF Interrupt
<1>14. ASSUME NEW p \in Program, Require(p) PROVE LeaseInv'
  BY <1>14 DEF Require
<1>15. ASSUME NEW p \in Program, GpuEnds(p) PROVE LeaseInv'
  BY <1>15 DEF GpuEnds
<1>16. ASSUME NEW p \in Program, StraysEnd(p) PROVE LeaseInv'
  BY <1>16 DEF StraysEnd
<1>17. ASSUME NEW p \in Program, Kill(p) PROVE LeaseInv'
  BY <1>17 DEF Kill
<1>18. ASSUME NEW p \in Program, NEW c \in todo[p], Check(p, c) PROVE LeaseInv'
  BY <1>18 DEF Check
<1>19. ASSUME NEW m \in Managed, Admit(m) PROVE LeaseInv'
  BY <1>19 DEF Admit
<1>20. ASSUME NEW m \in Managed, Launch(m) PROVE LeaseInv'
  BY <1>20, ReboundFields, BindingFields DEF Launch
<1>21. ASSUME NEW m \in Managed, JobEnds(m) PROVE LeaseInv'
  BY <1>21 DEF JobEnds
<1>22. ASSUME NEW m \in Managed, Clear(m) PROVE LeaseInv'
  BY <1>22, ReboundFields, BindingFields DEF Clear
<1>23. QED
  BY <1>1, <1>2, <1>3, <1>4, <1>5, <1>6, <1>7, <1>8, <1>9, <1>10, <1>11, <1>12, <1>13, <1>14,
       <1>15, <1>16, <1>17, <1>18, <1>19, <1>20, <1>21, <1>22 DEF Next, ProgramStep, ManagedStep

\* A step keeps the processes and the program points in accord.
LEMMA ProcStep ==
  ASSUME BundleTree, OrderlyFaults, PInv, Next
  PROVE  ProcInv'
<1>0. TypeOK /\ ProcInv /\ KidInv /\ GpuInv
  BY TablesTyped DEF PInv
<1> USE TreeAssumption, <1>0 DEF Go, GoEnd, call, loan, TypeOK, ProcInv, KidInv, Wrapper,
     Children, OnGpu
<1>1. ASSUME NEW p \in Program, StartTop(p) PROVE ProcInv'
  BY <1>1 DEF StartTop
<1>2. ASSUME NEW p \in Program, Borrow(p) PROVE ProcInv'
  BY <1>2 DEF Borrow
<1>3. ASSUME NEW p \in Program, Create(p) PROVE ProcInv'
  BY <1>3 DEF Create
<1>4. ASSUME NEW p \in Program, Refuse(p) PROVE ProcInv'
  BY <1>4 DEF Refuse
<1>5. ASSUME NEW p \in Program, Leave(p) PROVE ProcInv'
  BY <1>5 DEF Leave
<1>6. ASSUME NEW p \in Program, BodyEnds(p) PROVE ProcInv'
  BY <1>6 DEF BodyEnds
<1>7. ASSUME NEW p \in Program, Spawn(p) PROVE ProcInv'
  BY <1>7 DEF Spawn
<1>8. ASSUME NEW p \in Program, SpawnFail(p) PROVE ProcInv'
  BY <1>8 DEF SpawnFail
<1>9. ASSUME NEW p \in Program, Bind(p) PROVE ProcInv'
  BY <1>9 DEF Bind
<1>10. ASSUME NEW p \in Program, Wait(p) PROVE ProcInv'
  BY <1>10 DEF Wait
<1>11. ASSUME NEW p \in Program, Abort(p) PROVE ProcInv'
  BY <1>11 DEF Abort
<1>12. ASSUME NEW p \in Program, Restore(p) PROVE ProcInv'
  BY <1>12 DEF Restore
<1>13. ASSUME NEW p \in Program, Interrupt(p) PROVE ProcInv'
  BY <1>13 DEF Interrupt
<1>14. ASSUME NEW p \in Program, Require(p) PROVE ProcInv'
  BY <1>14 DEF Require
<1>15. ASSUME NEW p \in Program, GpuEnds(p) PROVE ProcInv'
  BY <1>15 DEF GpuEnds
<1>16. ASSUME NEW p \in Program, StraysEnd(p) PROVE ProcInv'
  BY <1>16 DEF StraysEnd
<1>17. ASSUME NEW p \in Program, Kill(p) PROVE ProcInv'
  BY <1>17 DEF Kill
<1>18. ASSUME NEW p \in Program, NEW c \in todo[p], Check(p, c) PROVE ProcInv'
  BY <1>18 DEF Check
<1>19. ASSUME NEW m \in Managed, Admit(m) PROVE ProcInv'
  BY <1>19 DEF Admit
<1>20. ASSUME NEW m \in Managed, Launch(m) PROVE ProcInv'
  BY <1>20 DEF Launch
<1>21. ASSUME NEW m \in Managed, JobEnds(m) PROVE ProcInv'
  BY <1>21 DEF JobEnds
<1>22. ASSUME NEW m \in Managed, Clear(m) PROVE ProcInv'
  BY <1>22 DEF Clear
<1>23. QED
  BY <1>1, <1>2, <1>3, <1>4, <1>5, <1>6, <1>7, <1>8, <1>9, <1>10, <1>11, <1>12, <1>13, <1>14,
       <1>15, <1>16, <1>17, <1>18, <1>19, <1>20, <1>21, <1>22 DEF Next, ProgramStep, ManagedStep

\* A step keeps the tokens in accord: a program below a live one finds its lease.
LEMMA EnvStep ==
  ASSUME BundleTree, OrderlyFaults, PInv, Next
  PROVE  EnvInv'
<1>0. TypeOK /\ ProcInv /\ EnvInv /\ KidInv /\ OuterInv
  BY TablesTyped DEF PInv
<1> USE TreeAssumption, <1>0 DEF Go, GoEnd, call, loan, TypeOK, EnvInv, Unstarted, Wrapper,
     Children
<1>1. ASSUME NEW p \in Program, StartTop(p) PROVE EnvInv'
  BY <1>1 DEF StartTop
<1>2. ASSUME NEW p \in Program, Borrow(p) PROVE EnvInv'
  BY <1>2 DEF Borrow, HasLease, ProcInv
<1>3. ASSUME NEW p \in Program, Create(p) PROVE EnvInv'
  <2>1. Parent[p] # None => pc[Parent[p]] = "killed"
    <3> SUFFICES ASSUME Parent[p] # None, pc[Parent[p]] # "killed"
                 PROVE  FALSE
      OBVIOUS
    <3>1. Parent[p] \in Program /\ p \in Children(Parent[p]) /\ p \in alive
      BY <1>3 DEF Create, ProcInv
    <3>2. kid[Parent[p]] = p /\ pc[Parent[p]] \in {"bind", "wait", "abort"}
      BY <3>1 DEF KidInv, Watching
    <3>3. Wrapper(Parent[p]) /\ ~Runner(Parent[p])
      BY <1>3, <3>1 DEF Create, Runner
    <3>4. lease.proc \in {Parent[p], p} /\ Parent[p] \in alive
      BY <1>3, <3>1, <3>2, <3>3 DEF OuterInv, OuterOf, Create, ProcInv
    <3> QED BY <1>3, <3>1, <3>4 DEF Create, LeaseLive, ChildLive
  <2>2. \A c \in Children(p) : pc[c] = "none"
    BY <1>3 DEF KidInv, Create
  <2> QED BY <1>3, <2>1, <2>2 DEF Create
<1>4. ASSUME NEW p \in Program, Refuse(p) PROVE EnvInv'
  BY <1>4 DEF Refuse
<1>5. ASSUME NEW p \in Program, Leave(p) PROVE EnvInv'
  BY <1>5 DEF Leave
<1>6. ASSUME NEW p \in Program, BodyEnds(p) PROVE EnvInv'
  BY <1>6 DEF BodyEnds
<1>7. ASSUME NEW p \in Program, Spawn(p) PROVE EnvInv'
  BY <1>7 DEF Spawn, KidInv, BundleTree
<1>8. ASSUME NEW p \in Program, SpawnFail(p) PROVE EnvInv'
  BY <1>8 DEF SpawnFail
<1>9. ASSUME NEW p \in Program, Bind(p) PROVE EnvInv'
  BY <1>9 DEF Bind
<1>10. ASSUME NEW p \in Program, Wait(p) PROVE EnvInv'
  BY <1>10 DEF Wait
<1>11. ASSUME NEW p \in Program, Abort(p) PROVE EnvInv'
  BY <1>11 DEF Abort, KidInv, Watching, OuterInv, OuterOf, Held, Runner
<1>12. ASSUME NEW p \in Program, Restore(p) PROVE EnvInv'
  BY <1>12 DEF Restore
<1>13. ASSUME NEW p \in Program, Interrupt(p) PROVE EnvInv'
  BY <1>13 DEF Interrupt
<1>14. ASSUME NEW p \in Program, Require(p) PROVE EnvInv'
  BY <1>14 DEF Require, HasLease, ProcInv
<1>15. ASSUME NEW p \in Program, GpuEnds(p) PROVE EnvInv'
  BY <1>15 DEF GpuEnds
<1>16. ASSUME NEW p \in Program, StraysEnd(p) PROVE EnvInv'
  BY <1>16 DEF StraysEnd
<1>17. ASSUME NEW p \in Program, Kill(p) PROVE EnvInv'
  BY <1>17 DEF Kill, ProcInv
<1>18. ASSUME NEW p \in Program, NEW c \in todo[p], Check(p, c) PROVE EnvInv'
  BY <1>18 DEF Check
<1>19. ASSUME NEW m \in Managed, Admit(m) PROVE EnvInv'
  BY <1>19 DEF Admit
<1>20. ASSUME NEW m \in Managed, Launch(m) PROVE EnvInv'
  BY <1>20 DEF Launch
<1>21. ASSUME NEW m \in Managed, JobEnds(m) PROVE EnvInv'
  BY <1>21 DEF JobEnds
<1>22. ASSUME NEW m \in Managed, Clear(m) PROVE EnvInv'
  BY <1>22 DEF Clear
<1>23. QED
  BY <1>1, <1>2, <1>3, <1>4, <1>5, <1>6, <1>7, <1>8, <1>9, <1>10, <1>11, <1>12, <1>13, <1>14,
       <1>15, <1>16, <1>17, <1>18, <1>19, <1>20, <1>21, <1>22 DEF Next, ProgramStep, ManagedStep

\* A step keeps every live child watched.
LEMMA KidStep ==
  ASSUME BundleTree, OrderlyFaults, PInv, Next
  PROVE  KidInv'
<1>0. TypeOK /\ ProcInv /\ EnvInv /\ KidInv
  BY TablesTyped DEF PInv
<1> USE TreeAssumption, <1>0 DEF Go, GoEnd, call, loan, TypeOK, ProcInv, EnvInv, KidInv,
     Wrapper, Children, Unstarted, Watching
<1>1. ASSUME NEW p \in Program, StartTop(p) PROVE KidInv'
  BY <1>1 DEF StartTop
<1>2. ASSUME NEW p \in Program, Borrow(p) PROVE KidInv'
  BY <1>2 DEF Borrow
<1>3. ASSUME NEW p \in Program, Create(p) PROVE KidInv'
  BY <1>3 DEF Create
<1>4. ASSUME NEW p \in Program, Refuse(p) PROVE KidInv'
  BY <1>4 DEF Refuse
<1>5. ASSUME NEW p \in Program, Leave(p) PROVE KidInv'
  BY <1>5 DEF Leave
<1>6. ASSUME NEW p \in Program, BodyEnds(p) PROVE KidInv'
  BY <1>6 DEF BodyEnds
<1>7. ASSUME NEW p \in Program, Spawn(p) PROVE KidInv'
  BY <1>7 DEF Spawn
<1>8. ASSUME NEW p \in Program, SpawnFail(p) PROVE KidInv'
  BY <1>8 DEF SpawnFail
<1>9. ASSUME NEW p \in Program, Bind(p) PROVE KidInv'
  BY <1>9 DEF Bind
<1>10. ASSUME NEW p \in Program, Wait(p) PROVE KidInv'
  BY <1>10 DEF Wait
<1>11. ASSUME NEW p \in Program, Abort(p) PROVE KidInv'
  BY <1>11 DEF Abort
<1>12. ASSUME NEW p \in Program, Restore(p) PROVE KidInv'
  BY <1>12 DEF Restore
<1>13. ASSUME NEW p \in Program, Interrupt(p) PROVE KidInv'
  BY <1>13 DEF Interrupt
<1>14. ASSUME NEW p \in Program, Require(p) PROVE KidInv'
  BY <1>14 DEF Require
<1>15. ASSUME NEW p \in Program, GpuEnds(p) PROVE KidInv'
  BY <1>15 DEF GpuEnds
<1>16. ASSUME NEW p \in Program, StraysEnd(p) PROVE KidInv'
  BY <1>16 DEF StraysEnd
<1>17. ASSUME NEW p \in Program, Kill(p) PROVE KidInv'
  BY <1>17 DEF Kill
<1>18. ASSUME NEW p \in Program, NEW c \in todo[p], Check(p, c) PROVE KidInv'
  BY <1>18 DEF Check
<1>19. ASSUME NEW m \in Managed, Admit(m) PROVE KidInv'
  BY <1>19 DEF Admit
<1>20. ASSUME NEW m \in Managed, Launch(m) PROVE KidInv'
  BY <1>20 DEF Launch
<1>21. ASSUME NEW m \in Managed, JobEnds(m) PROVE KidInv'
  BY <1>21 DEF JobEnds
<1>22. ASSUME NEW m \in Managed, Clear(m) PROVE KidInv'
  BY <1>22 DEF Clear
<1>23. QED
  BY <1>1, <1>2, <1>3, <1>4, <1>5, <1>6, <1>7, <1>8, <1>9, <1>10, <1>11, <1>12, <1>13, <1>14,
       <1>15, <1>16, <1>17, <1>18, <1>19, <1>20, <1>21, <1>22 DEF Next, ProgramStep, ManagedStep

\* A program that has not looked at the lease stays watched, or locked out.
LEMMA EnterStep ==
  ASSUME BundleTree, OrderlyFaults, PInv, Next
  PROVE  EnterInv'
<1>0. TypeOK /\ Tables /\ LeaseInv /\ ProcInv /\ EnvInv /\ KidInv /\ EnterInv /\ OuterInv /\
     BundleTree /\ OrderlyFaults
  BY TablesTyped DEF PInv
<1> USE TreeAssumption, <1>0 DEF Go, GoEnd, call, loan, EnterOf, Watching
<1> SUFFICES ASSUME NEW c \in Program, Parent[c] # None, ~Wrapper(c), pc'[c] = "enter"
             PROVE  EnterOf(c)'
  BY DEF EnterInv, EnterOf
<1>a. /\ Parent[c] \in Program /\ Wrapper(Parent[c]) /\ c \in Children(Parent[c])
      /\ pc[c] = "enter" => EnterOf(c) /\ env[c] # None
  BY DEF EnterInv, EnterOf, EnvInv, Wrapper, Children
<1> USE <1>a
<1>1. ASSUME NEW p \in Program, StartTop(p) PROVE EnterOf(c)'
  BY <1>1 DEF StartTop
<1>2. ASSUME NEW p \in Program, Borrow(p) PROVE EnterOf(c)'
  <2>1. lease'.token = lease.token
    BY <1>2, AfterLease DEF Keeps
  <2> QED BY <1>2, <2>1 DEF Borrow, Tables
<1>3. ASSUME NEW p \in Program, Create(p) PROVE EnterOf(c)'
  <2>1. pc[c] = "enter" /\ c # p /\ env'[c] = env[c] /\ env[c] # p
    BY <1>3 DEF Create, Tables, EnvInv, Unstarted
  <2> QED BY <1>3, <2>1 DEF Create, Tables
<1>4. ASSUME NEW p \in Program, Refuse(p) PROVE EnterOf(c)'
  BY <1>4 DEF Refuse
<1>5. ASSUME NEW p \in Program, Leave(p) PROVE EnterOf(c)'
  <2>1. lease'.token \in {lease.token, None}
    BY <1>5, AfterLease DEF Keeps
  <2> QED BY <1>5, <2>1 DEF Leave, Tables
<1>6. ASSUME NEW p \in Program, BodyEnds(p) PROVE EnterOf(c)'
  BY <1>6 DEF BodyEnds
<1>7. ASSUME NEW p \in Program, Spawn(p) PROVE EnterOf(c)'
  BY <1>7 DEF Spawn, Tables, KidInv, Children
<1>8. ASSUME NEW p \in Program, SpawnFail(p) PROVE EnterOf(c)'
  BY <1>8 DEF SpawnFail
<1>9. ASSUME NEW p \in Program, Bind(p) PROVE EnterOf(c)'
  <2>1. lease'.token = lease.token
    BY <1>9, AfterLease DEF Keeps, Bind
  <2>2. pc' = [pc EXCEPT ![p] = "wait"] \/ pc' = [pc EXCEPT ![p] = "abort"]
    BY <1>9 DEF Bind
  <2>3. pc[p] = "bind" /\ UNCHANGED <<env, kid>>
    BY <1>9 DEF Bind
  <2> QED BY <2>1, <2>2, <2>3 DEF Tables
<1>10. ASSUME NEW p \in Program, Wait(p) PROVE EnterOf(c)'
  BY <1>10 DEF Wait, Tables, ProcInv
<1>11. ASSUME NEW p \in Program, Abort(p) PROVE EnterOf(c)'
  <2>1. /\ pc[p] = "abort" /\ kid[p] \in Children(p) /\ UNCHANGED <<lease, env, kid>>
        /\ pc' = [pc EXCEPT ![p] = "unwind", ![kid[p]] = "killed"]
    BY <1>11 DEF Abort, KidInv
  <2>2. c # kid[p] /\ c # p /\ pc[c] = "enter"
    BY <2>1 DEF Tables
  <2>3. Parent[c] # p
    BY <2>1, <2>2
  <2>4. CASE Parent[c] # kid[p]
    BY <2>1, <2>2, <2>3, <2>4 DEF Tables
  <2>5. CASE Parent[c] = kid[p]
    <3>1. Wrapper(p) /\ ~Runner(p) /\ Parent[kid[p]] = p
      BY <2>1, <2>5 DEF Wrapper, Runner, Children
    <3>2. lease.token # env[p] /\ env[p] = p
      <4>1. Parent[p] = None
        BY <2>1, <2>5, <3>1 DEF BundleTree
      <4>2. env[p] # None /\ env[p] \in {None, p, Parent[p]}
        BY <2>1, <3>1 DEF EnvInv
      <4> QED BY <2>1, <3>1, <4>1, <4>2 DEF OuterInv, OuterOf, Held
    <3>3. env[c] = env[kid[p]] /\ env[kid[p]] \in {kid[p], env[p]}
      BY <2>1, <2>2, <2>5, <3>1 DEF EnvInv, Children, Unstarted
    <3>4. env[kid[p]] # kid[p]
      BY <2>1, <2>2, <2>5, <3>1 DEF EnvInv, Children, Unstarted
    <3> QED BY <2>1, <2>5, <3>2, <3>3, <3>4, <2>2 DEF Tables
  <2> QED BY <2>4, <2>5
<1>12. ASSUME NEW p \in Program, Restore(p) PROVE EnterOf(c)'
  <2>1. lease'.token = lease.token
    BY <1>12, AfterLease DEF Keeps
  <2> QED BY <1>12, <2>1 DEF Restore, Tables
<1>13. ASSUME NEW p \in Program, Interrupt(p) PROVE EnterOf(c)'
  BY <1>13 DEF Interrupt, Tables
<1>14. ASSUME NEW p \in Program, Require(p) PROVE EnterOf(c)'
  BY <1>14 DEF Require, Tables
<1>15. ASSUME NEW p \in Program, GpuEnds(p) PROVE EnterOf(c)'
  BY <1>15 DEF GpuEnds
<1>16. ASSUME NEW p \in Program, StraysEnd(p) PROVE EnterOf(c)'
  BY <1>16 DEF StraysEnd
<1>17. ASSUME NEW p \in Program, Kill(p) PROVE EnterOf(c)'
  <2>1. pc[p] # "killed" /\ (p = Parent[c] => Runner(p))
    BY <1>17 DEF Kill, ProcInv, Runner, BundleTree, Wrapper, Children
  <2> QED BY <1>17, <2>1 DEF Kill, OrderlyFaults
<1>18. ASSUME NEW p \in Program, NEW d \in todo[p], Check(p, d) PROVE EnterOf(c)'
  BY <1>18 DEF Check, Tables
<1>19. ASSUME NEW m \in Managed, Admit(m) PROVE EnterOf(c)'
  BY <1>19 DEF Admit, Tables
<1>20. ASSUME NEW m \in Managed, Launch(m) PROVE EnterOf(c)'
  <2>1. lease'.token = lease.token
    BY <1>20, AfterManaged DEF Keeps
  <2> QED BY <1>20, <2>1 DEF Launch
<1>21. ASSUME NEW m \in Managed, JobEnds(m) PROVE EnterOf(c)'
  BY <1>21 DEF JobEnds
<1>22. ASSUME NEW m \in Managed, Clear(m) PROVE EnterOf(c)'
  BY <1>22, AfterManaged DEF Clear, Tables, EnvInv
<1>23. QED
  BY <1>1, <1>2, <1>3, <1>4, <1>5, <1>6, <1>7, <1>8, <1>9, <1>10, <1>11, <1>12, <1>13, <1>14,
       <1>15, <1>16, <1>17, <1>18, <1>19, <1>20, <1>21, <1>22 DEF Next, ProgramStep, ManagedStep

\* A step keeps what uses the GPU bound to the lease.
LEMMA GpuStep ==
  ASSUME BundleTree, OrderlyFaults, PInv, Next
  PROVE  GpuInv'
<1>0. BundleTree /\ TypeOK /\ Tables /\ LeaseInv /\ ProcInv /\ EnvInv /\ KidInv /\ EnterInv /\
     GpuInv /\ RunnerInv /\ OuterInv
  BY TablesTyped DEF PInv
<1> USE TreeAssumption, <1>0 DEF Go, GoEnd, call, loan
<1> SUFFICES ASSUME BundleTree, OrderlyFaults, NEW c \in Program, OnGpu(c)' PROVE GpuOf(c)'
  BY DEF GpuInv
<1> DEFINE w == Parent[c]
<1>a. ASSUME OnGpu(c)
      PROVE  /\ GpuOf(c) /\ c \in alive \cup strays /\ c \notin Managed /\ c # None
             /\ w \in Program /\ w # None /\ Runner(w) /\ w \in alive /\ Wrapper(w)
             /\ env[w] # None /\ lease.token = env[w] /\ ~Wrapper(c) /\ ChildLive
             /\ c # w
  <2>1. GpuOf(c) /\ ~Wrapper(c) /\ c \in alive \cup strays
    BY <1>a DEF GpuInv, OnGpu, ProcInv
  <2>2. w \in Program /\ Runner(w) /\ Wrapper(w)
    BY <2>1, RunnerShape DEF GpuOf, Runner
  <2>3. w \in alive
    BY <2>1, <2>2 DEF GpuOf, Watching, ProcInv
  <2> QED BY <2>1, <2>2, <2>3 DEF GpuOf, Held, Own, Bound, ChildLive, GroupLive
<1>b. ASSUME NEW p \in Program, OnGpu(c), Wrapper(p), env[p] = lease.token, p # w
      PROVE  /\ Parent[w] = p /\ Parent[p] = None /\ env[p] = p
             /\ pc[p] = "killed" \/ (kid[p] = w /\ pc[p] \in Watching)
  BY <1>a, <1>b, OneHolder
<1>1. ASSUME NEW p \in Program, StartTop(p) PROVE GpuOf(c)'
  BY <1>1, <1>a DEF StartTop, OnGpu, GpuOf, Held, Own, Bound, Tables, Watching
<1>2. ASSUME NEW p \in Program, Borrow(p) PROVE GpuOf(c)'
  <2>1. /\ pc[p] = "enter" /\ Wrapper(p) /\ env[p] = lease.token /\ OnGpu(c)
    BY <1>2 DEF Borrow, HasLease, OnGpu, Tables
  <2>2. env[p] # p
    BY <2>1 DEF EnvInv
  <2> QED BY <1>a, <1>b, <2>1, <2>2 DEF GpuOf, Watching
<1>3. ASSUME NEW p \in Program, Create(p) PROVE GpuOf(c)'
  <2>1. OnGpu(c)
    BY <1>3 DEF Create, OnGpu, Tables
  <2> QED BY <1>3, <1>a, <2>1 DEF Create, LeaseLive
<1>4. ASSUME NEW p \in Program, Refuse(p) PROVE GpuOf(c)'
  BY <1>4, <1>a DEF Refuse, OnGpu, GpuOf, Held, Own, Bound, Tables, Watching
<1>5. ASSUME NEW p \in Program, Leave(p) PROVE GpuOf(c)'
  <2>1. OnGpu(c) /\ pc[p] = "leave" /\ Wrapper(p) /\ UNCHANGED <<env, kid>>
    BY <1>5 DEF Leave, OnGpu, Tables, ProcInv
  <2>2. p # w
    BY <1>a, <2>1 DEF GpuOf, Watching
  <2>3. lease' = lease
    BY <1>5, <1>b, <2>1, <2>2, AfterLease DEF Watching
  <2> QED BY <1>5, <1>a, <2>1, <2>2, <2>3 DEF Leave, GoEnd, Go, GpuOf, Tables, Held, Own, Bound
<1>6. ASSUME NEW p \in Program, BodyEnds(p) PROVE GpuOf(c)'
  BY <1>6, <1>a DEF BodyEnds, OnGpu, GpuOf, Held, Own, Bound, Tables, Watching
<1>7. ASSUME NEW p \in Program, Spawn(p) PROVE GpuOf(c)'
  <2>1. /\ pc[p] = "spawn" /\ kid[p] \in Program /\ pc[kid[p]] = "none" /\ Parent[kid[p]] = p
        /\ pc' = [pc EXCEPT ![p] = "bind", ![kid[p]] = "enter"]
        /\ env' = [env EXCEPT ![kid[p]] = env[p]]
        /\ UNCHANGED <<lease, strays, kid>>
    BY <1>7 DEF Spawn, KidInv, Children
  <2>2. OnGpu(c)
    BY <2>1 DEF OnGpu, Tables
  <2>3. w # p /\ w # kid[p]
    BY <1>a, <2>1, <2>2 DEF GpuOf, Watching
  <2> QED BY <1>a, <2>1, <2>2, <2>3 DEF GpuOf, Tables, Held, Own, Bound
<1>8. ASSUME NEW p \in Program, SpawnFail(p) PROVE GpuOf(c)'
  BY <1>8, <1>a DEF SpawnFail, OnGpu, GpuOf, Held, Own, Bound, Tables, Watching
<1>9. ASSUME NEW p \in Program, Bind(p) PROVE GpuOf(c)'
  <2>1. /\ OnGpu(c) /\ pc[p] = "bind" /\ Wrapper(p) /\ UNCHANGED <<env, kid, strays>>
        /\ pc'[w] = pc[w] \/ (w = p /\ pc'[w] \in {"wait", "abort"})
    BY <1>9, <1>a DEF Bind, OnGpu, Tables, ProcInv
  <2>2. GpuOf(c) /\ pc'[w] \in Watching
    BY <1>a, <2>1 DEF GpuOf, Watching
  <2>3. CASE lease.token # env[p]
    BY <1>9, <2>1, <2>2, <2>3 DEF Bind, GpuOf, Held, Own, Bound
  <2>4. CASE lease.token = env[p]
    <3>1. lease'.token = lease.token /\ lease'.proc = kid[p] /\ lease'.group = kid[p]
      BY <1>9, <2>4, AfterLease DEF Keeps
    <3>2. kid[p] = c \/ kid[p] = w
      BY <1>b, <2>1, <2>2, <2>4 DEF GpuOf
    <3> QED BY <2>1, <2>2, <3>1, <3>2 DEF GpuOf, Held, Own, Bound
  <2> QED BY <2>3, <2>4
<1>10. ASSUME NEW p \in Program, Wait(p) PROVE GpuOf(c)'
  <2>1. OnGpu(c) /\ UNCHANGED <<lease, env, kid>>
    BY <1>10 DEF Wait, OnGpu, Tables
  <2>2. w = p => pc'[w] = "abort"
    BY <1>10, <1>a, <2>1 DEF Wait, GpuOf, GroupLive, Tables
  <2>3. w # p => pc'[w] = pc[w]
    BY <1>10, <1>a, <2>1 DEF Wait, Tables
  <2> QED BY <1>a, <2>1, <2>2, <2>3 DEF GpuOf, Held, Own, Bound, Watching
<1>11. ASSUME NEW p \in Program, Abort(p) PROVE GpuOf(c)'
  <2>1. /\ pc[p] = "abort" /\ kid[p] \in Program /\ Parent[kid[p]] = p
        /\ kid[p] \in Children(p)
        /\ pc' = [pc EXCEPT ![p] = "unwind", ![kid[p]] = "killed"]
        /\ strays' = strays \ {kid[p]} /\ UNCHANGED <<lease, env, kid>>
    BY <1>11 DEF Abort, KidInv, Children
  <2>2. OnGpu(c) /\ c # kid[p]
    BY <2>1 DEF OnGpu, Tables
  <2>3. w # p
    BY <1>a, <2>1, <2>2 DEF GpuOf
  <2>4. w # kid[p]
    <3> SUFFICES ASSUME w = kid[p] PROVE FALSE
      OBVIOUS
    <3>1. Wrapper(p) /\ ~Runner(p)
      BY <1>a, <2>1, <2>2 DEF Wrapper, Runner
    <3>2. ~Held(p) /\ Parent[p] = None
      BY <2>1, <3>1, OuterShape DEF OuterInv, OuterOf
    <3>3. env[w] \in {w, env[p]} /\ (env[w] = w => pc[p] = "killed")
      BY <1>a, <2>1, <2>2 DEF EnvInv, GpuOf, Watching
    <3> QED BY <1>a, <2>1, <2>2, <3>2, <3>3 DEF Held
  <2> QED BY <1>a, <2>1, <2>2, <2>3, <2>4 DEF GpuOf, Tables, Held, Own, Bound
<1>12. ASSUME NEW p \in Program, Restore(p) PROVE GpuOf(c)'
  <2>1. /\ OnGpu(c) /\ pc[p] \in {"restore", "unwind"} /\ Wrapper(p)
        /\ UNCHANGED <<env, kid>> /\ (w # p => pc'[w] = pc[w])
    <3>1. /\ pc[p] \in {"restore", "unwind"} /\ UNCHANGED <<env, kid, strays>>
          /\ \E to \in {"body", "leave"} : pc' = [pc EXCEPT ![p] = to]
      BY <1>12 DEF Restore
    <3>2. OnGpu(c) /\ Wrapper(p)
      BY <3>1 DEF OnGpu, Tables, ProcInv
    <3> QED BY <1>a, <3>1, <3>2 DEF Tables
  <2>2. p # w
    BY <1>a, <2>1 DEF GpuOf, Watching
  <2>3. lease' = lease
    BY <1>12, <1>b, <2>1, <2>2, AfterLease DEF Watching
  <2> QED BY <1>a, <2>1, <2>2, <2>3 DEF GpuOf, Held, Own, Bound
<1>13. ASSUME NEW p \in Program, Interrupt(p) PROVE GpuOf(c)'
  BY <1>13, <1>a DEF Interrupt, OnGpu, GpuOf, Held, Own, Bound, Tables, Watching
<1>14. ASSUME NEW p \in Program, Require(p) PROVE GpuOf(c)'
  <2>1. CASE OnGpu(c)
    <3>1. p # w /\ UNCHANGED <<lease, env, kid>> /\ pc'[w] = pc[w]
      BY <1>14, <1>a, <2>1 DEF Require, Tables
    <3> QED BY <1>a, <2>1, <3>1 DEF GpuOf, Held, Own, Bound
  <2>2. CASE ~OnGpu(c)
    <3>1. /\ c = p /\ HasLease(p) /\ pc[p] = "enter" /\ ~Wrapper(p)
          /\ pc' = [pc EXCEPT ![p] = "gpu"] /\ UNCHANGED <<lease, env, kid>>
      BY <1>14, <2>2 DEF Require, Tables, OnGpu
    <3>2. Parent[p] # None
      BY <3>1 DEF HasLease, EnvInv
    <3>3. /\ w \in Program /\ Runner(w) /\ env[p] = env[w] /\ p \in Children(w)
      BY <3>1, <3>2, RunnerShape DEF EnvInv
    <3>4. kid[w] = p /\ pc[w] \in Watching
      BY <3>1, <3>2 DEF EnterInv, EnterOf, HasLease
    <3>5. Held(w)
      BY <3>1, <3>3 DEF Held, HasLease
    <3>6. Own(w) \/ Bound(p)
      BY <3>3, <3>4, <3>5 DEF RunnerInv, RunnerOf, Watching
    <3>7. pc'[w] = pc[w]
      BY <3>1, <3>3, <3>4 DEF Tables, Watching
    <3> QED BY <3>1, <3>2, <3>4, <3>5, <3>6, <3>7 DEF GpuOf, Held, Own, Bound
  <2> QED BY <2>1, <2>2
<1>15. ASSUME NEW p \in Program, GpuEnds(p) PROVE GpuOf(c)'
  BY <1>15, <1>a DEF GpuEnds, OnGpu, GpuOf, Held, Own, Bound, Tables, Watching
<1>16. ASSUME NEW p \in Program, StraysEnd(p) PROVE GpuOf(c)'
  BY <1>16, <1>a DEF StraysEnd, OnGpu, GpuOf, Held, Own, Bound
<1>17. ASSUME NEW p \in Program, Kill(p) PROVE GpuOf(c)'
  <2>1. OnGpu(c) /\ UNCHANGED <<lease, env, kid>>
    BY <1>17 DEF Kill, OnGpu, Tables
  <2>2. w # p
    BY <1>17, <1>a, <2>1 DEF Kill, OrderlyFaults
  <2>3. pc'[w] = pc[w]
    BY <1>17, <2>2 DEF Kill, Tables
  <2> QED BY <1>a, <2>1, <2>3 DEF GpuOf, Held, Own, Bound
<1>18. ASSUME NEW p \in Program, NEW d \in todo[p], Check(p, d) PROVE GpuOf(c)'
  <2>1. /\ OnGpu(c) /\ pc[p] = "body" /\ UNCHANGED <<lease, env>>
        /\ \A x \in Program \ {p} : pc'[x] = pc[x] /\ kid'[x] = kid[x]
    BY <1>18 DEF Check, OnGpu, Tables
  <2>2. w # p
    BY <1>a, <2>1 DEF GpuOf, Watching
  <2> QED BY <1>a, <2>1, <2>2 DEF GpuOf, Held, Own, Bound
<1>19. ASSUME NEW m \in Managed, Admit(m) PROVE GpuOf(c)'
  <2>1. OnGpu(c)
    BY <1>19 DEF Admit, OnGpu
  <2> QED BY <1>19, <1>a, <2>1, Covered DEF Admit, Held
<1>20. ASSUME NEW m \in Managed, Launch(m) PROVE GpuOf(c)'
  BY <1>20, <1>a DEF Launch, OnGpu, GpuOf, Held, Own, Bound, Tables
<1>21. ASSUME NEW m \in Managed, JobEnds(m) PROVE GpuOf(c)'
  BY <1>21, <1>a DEF JobEnds, OnGpu, GpuOf, Held, Own, Bound
<1>22. ASSUME NEW m \in Managed, Clear(m) PROVE GpuOf(c)'
  BY <1>22, <1>a DEF Clear, OnGpu, GpuOf, Held, Own, Bound, Tables
<1>23. QED
  BY <1>1, <1>2, <1>3, <1>4, <1>5, <1>6, <1>7, <1>8, <1>9, <1>10, <1>11, <1>12, <1>13, <1>14,
       <1>15, <1>16, <1>17, <1>18, <1>19, <1>20, <1>21, <1>22 DEF Next, ProgramStep, ManagedStep

\* A step keeps a launcher of GPU programs bound.
LEMMA RunnerStep ==
  ASSUME BundleTree, OrderlyFaults, PInv, Next
  PROVE  RunnerInv'
<1>0. BundleTree /\ TypeOK /\ Tables /\ LeaseInv /\ ProcInv /\ EnvInv /\ KidInv /\ RunnerInv /\
     OuterInv
  BY TablesTyped DEF PInv
<1> USE TreeAssumption, <1>0 DEF Go, GoEnd, call, loan
<1> SUFFICES ASSUME NEW r \in Program, Runner(r) PROVE RunnerOf(r)'
  BY DEF RunnerInv
<1>a. RunnerOf(r) /\ Wrapper(r) /\ r # None /\ r \notin Managed /\ env[r] \in Program \cup {None}
  BY DEF RunnerInv, Runner, Tables
<1>b. ASSUME Held(r), pc[r] \in {"body", "spawn", "bind", "wait", "abort"},
             NEW p \in Program, Wrapper(p), p # r, env[p] = lease.token
      PROVE  /\ Parent[r] = p /\ Parent[p] = None /\ env[p] = p
             /\ pc[p] = "killed" \/ (kid[p] = r /\ pc[p] \in Watching)
  <2>1. r \in alive /\ env[r] # None /\ env[p] = env[r]
    BY <1>b DEF ProcInv, Held
  <2> QED BY <1>b, <2>1, OneHolder
<1>1. ASSUME NEW p \in Program, StartTop(p) PROVE RunnerOf(r)'
  BY <1>1, <1>a DEF StartTop, RunnerOf, Held, Own, Bound, OwnBinding
<1>2. ASSUME NEW p \in Program, Borrow(p) PROVE RunnerOf(r)'
  <2>1. /\ pc[p] = "enter" /\ Wrapper(p) /\ env[p] = lease.token /\ env[p] # p
        /\ UNCHANGED <<env, prev, kid>> /\ lease'.token = lease.token
        /\ lease'.proc = p /\ lease'.group = None
        /\ pc' = [pc EXCEPT ![p] = "body"]
    BY <1>2, AfterLease DEF Borrow, HasLease, EnvInv, Keeps
  <2>2. CASE p = r
    BY <2>1, <2>2 DEF RunnerOf, Own, Tables
  <2>3. CASE p # r
    <3>1. ~(Held(r) /\ pc[r] \in {"body", "spawn", "bind", "wait", "abort"})
      BY <1>b, <2>1, <2>3
    <3> QED BY <1>a, <2>1, <2>3, <3>1 DEF RunnerOf, Held, OwnBinding, Tables
  <2> QED BY <2>2, <2>3
<1>3. ASSUME NEW p \in Program, Create(p) PROVE RunnerOf(r)'
  <2>1. /\ pc[p] = "enter" /\ ~LeaseLive /\ env' = [env EXCEPT ![p] = p]
        /\ lease'.token = p /\ lease'.proc = p /\ lease'.group = None
        /\ pc' = [pc EXCEPT ![p] = "body"] /\ UNCHANGED <<prev, kid>>
    BY <1>3 DEF Create
  <2>2. CASE p = r
    BY <2>1, <2>2 DEF RunnerOf, Own, Tables
  <2>3. CASE p # r
    <3>1. ~Held(r)' /\ pc'[r] = pc[r]
      BY <2>1, <2>3 DEF Held, Tables, EnvInv, Unstarted
    <3>2. pc[r] \notin {"spawn", "bind"}
      BY <1>a, <2>1, Covered DEF RunnerOf, Own, ChildLive, ProcInv
    <3> QED BY <1>a, <2>1, <3>1, <3>2 DEF RunnerOf, OwnBinding
  <2> QED BY <2>2, <2>3
<1>4. ASSUME NEW p \in Program, Refuse(p) PROVE RunnerOf(r)'
  BY <1>4, <1>a DEF Refuse, RunnerOf, Held, Own, Bound, OwnBinding
<1>5. ASSUME NEW p \in Program, Leave(p) PROVE RunnerOf(r)'
  <2>1. /\ pc[p] = "leave" /\ Wrapper(p) /\ pc' = [pc EXCEPT ![p] = "done"]
        /\ UNCHANGED <<env, prev, kid>> /\ lease'.token \in {lease.token, None}
    BY <1>5, AfterLease DEF Leave, ProcInv, Keeps
  <2>2. CASE p = r
    BY <2>1, <2>2 DEF RunnerOf, Tables
  <2>3. CASE p # r /\ Held(r) /\ pc[r] \in {"body", "spawn", "bind", "wait", "abort"}
    <3>1. lease' = lease
      BY <1>5, <1>b, <2>1, <2>3, AfterLease DEF Watching
    <3> QED BY <1>a, <2>1, <2>3, <3>1 DEF RunnerOf, Held, Own, Bound, OwnBinding, Tables
  <2>4. CASE p # r /\ ~(Held(r) /\ pc[r] \in {"body", "spawn", "bind", "wait", "abort"})
    BY <1>a, <2>1, <2>4 DEF RunnerOf, Held, OwnBinding, Tables
  <2> QED BY <2>2, <2>3, <2>4
<1>6. ASSUME NEW p \in Program, BodyEnds(p) PROVE RunnerOf(r)'
  BY <1>6, <1>a DEF BodyEnds, RunnerOf, Held, Own, Bound, OwnBinding
<1>7. ASSUME NEW p \in Program, Spawn(p) PROVE RunnerOf(r)'
  BY <1>7, <1>a DEF Spawn, RunnerOf, Tables, Held, Own, Bound, OwnBinding
<1>8. ASSUME NEW p \in Program, SpawnFail(p) PROVE RunnerOf(r)'
  BY <1>8, <1>a DEF SpawnFail, RunnerOf, Held, Own, Bound, OwnBinding
<1>9. ASSUME NEW p \in Program, Bind(p) PROVE RunnerOf(r)'
  <2>1. pc[p] = "bind" /\ Wrapper(p) /\ UNCHANGED <<env, kid>>
    BY <1>9 DEF Bind, ProcInv
  <2>2. CASE lease.token # env[p]
    <3>1. UNCHANGED <<lease, prev>> /\ pc' = [pc EXCEPT ![p] = "abort"]
      BY <1>9, <2>2 DEF Bind
    <3> QED BY <1>a, <2>1, <2>2, <3>1 DEF RunnerOf, Held, Own, Bound, OwnBinding, Tables
  <2>3. CASE lease.token = env[p]
    <3>1. /\ lease'.token = lease.token /\ lease'.proc = kid[p] /\ lease'.group = kid[p]
          /\ prev' = [prev EXCEPT ![p] = Binding] /\ pc' = [pc EXCEPT ![p] = "wait"]
      BY <1>9, <2>3, AfterLease DEF Bind, Keeps
    <3>2. CASE p = r
      <4>1. Binding \in OwnBinding(r)
        BY <1>a, <2>1, <3>2 DEF RunnerOf, Own, OwnBinding, Binding
      <4> QED BY <2>1, <3>1, <3>2, <4>1 DEF RunnerOf, Bound, OwnBinding, Tables
    <3>3. CASE p # r /\ Held(r) /\ pc[r] \in {"body", "spawn", "bind", "wait", "abort"}
      <4>1. kid[p] = r
        BY <1>b, <2>1, <2>3, <3>3
      <4> QED BY <1>a, <2>1, <3>1, <3>3, <4>1 DEF RunnerOf, Held, Own, OwnBinding, Tables
    <3>4. CASE p # r /\ ~(Held(r) /\ pc[r] \in {"body", "spawn", "bind", "wait", "abort"})
      BY <1>a, <2>1, <3>1, <3>4 DEF RunnerOf, Held, OwnBinding, Tables
    <3> QED BY <3>2, <3>3, <3>4
  <2> QED BY <2>2, <2>3
<1>10. ASSUME NEW p \in Program, Wait(p) PROVE RunnerOf(r)'
  BY <1>10, <1>a DEF Wait, RunnerOf, Tables, Held, Own, Bound, OwnBinding
<1>11. ASSUME NEW p \in Program, Abort(p) PROVE RunnerOf(r)'
  BY <1>11, <1>a DEF Abort, RunnerOf, Tables, Held, Own, Bound, OwnBinding
<1>12. ASSUME NEW p \in Program, Restore(p) PROVE RunnerOf(r)'
  <2>1. /\ pc[p] \in {"restore", "unwind"} /\ UNCHANGED <<env, prev, kid>>
        /\ lease'.token = lease.token
        /\ \/ pc[p] = "restore" /\ pc' = [pc EXCEPT ![p] = "body"]
           \/ pc[p] = "unwind" /\ pc' = [pc EXCEPT ![p] = "leave"]
    BY <1>12, AfterLease DEF Restore, Keeps
  <2>a. Wrapper(p)
    BY <2>1 DEF ProcInv
  <2>2. CASE p = r
    <3>1. prev[r] \in OwnBinding(r) 
          => prev[r] # NoBinding /\ prev[r].proc = r /\ prev[r].group \in {None, r}
      BY <1>a DEF OwnBinding, NoBinding
    <3>2. pc[r] = "restore" /\ lease.token = env[r] => Own(r)'
      BY <1>12, <1>a, <2>2, <3>1, AfterLease DEF RunnerOf, Own
    <3> QED BY <2>1, <2>2, <3>2 DEF RunnerOf, Held, Tables
  <2>3. CASE p # r /\ Held(r) /\ pc[r] \in {"body", "spawn", "bind", "wait", "abort"}
    <3>1. lease' = lease
      BY <1>12, <1>b, <2>1, <2>a, <2>3, AfterLease DEF Watching
    <3> QED BY <1>a, <2>1, <2>3, <3>1 DEF RunnerOf, Held, Own, Bound, OwnBinding, Tables
  <2>4. CASE p # r /\ ~(Held(r) /\ pc[r] \in {"body", "spawn", "bind", "wait", "abort"})
    BY <1>a, <2>1, <2>4 DEF RunnerOf, Held, OwnBinding, Tables
  <2> QED BY <2>2, <2>3, <2>4
<1>13. ASSUME NEW p \in Program, Interrupt(p) PROVE RunnerOf(r)'
  BY <1>13, <1>a DEF Interrupt, RunnerOf, Tables, Held, Own, Bound, OwnBinding
<1>14. ASSUME NEW p \in Program, Require(p) PROVE RunnerOf(r)'
  BY <1>14, <1>a DEF Require, RunnerOf, Tables, Held, Own, Bound, OwnBinding
<1>15. ASSUME NEW p \in Program, GpuEnds(p) PROVE RunnerOf(r)'
  BY <1>15, <1>a DEF GpuEnds, RunnerOf, Held, Own, Bound, OwnBinding
<1>16. ASSUME NEW p \in Program, StraysEnd(p) PROVE RunnerOf(r)'
  BY <1>16, <1>a DEF StraysEnd, RunnerOf, Held, Own, Bound, OwnBinding
<1>17. ASSUME NEW p \in Program, Kill(p) PROVE RunnerOf(r)'
  BY <1>17, <1>a DEF Kill, RunnerOf, Held, Own, Bound, OwnBinding
<1>18. ASSUME NEW p \in Program, NEW c \in todo[p], Check(p, c) PROVE RunnerOf(r)'
  <2>1. /\ pc[p] = "body" /\ UNCHANGED <<env, lease>>
        /\ prev' = [prev EXCEPT ![p] = NoBinding] /\ kid' = [kid EXCEPT ![p] = c]
        /\ \/ HasLease(p) /\ pc' = [pc EXCEPT ![p] = "spawn"]
           \/ pc' = [pc EXCEPT ![p] = "leave"]
    BY <1>18 DEF Check
  <2>2. CASE p = r
    BY <1>a, <2>1, <2>2 DEF RunnerOf, HasLease, Held, Own, Tables
  <2>3. CASE p # r
    BY <1>a, <2>1, <2>3 DEF RunnerOf, Held, Own, Bound, OwnBinding, Tables
  <2> QED BY <2>2, <2>3
<1>19. ASSUME NEW m \in Managed, Admit(m) PROVE RunnerOf(r)'
  <2>1. ~Held(r)' /\ UNCHANGED <<pc, prev>>
    BY <1>19, <1>a, AfterManaged DEF Held, Admit
  <2>2. pc[r] \notin {"spawn", "bind"}
    BY <1>19, <1>a, Covered DEF RunnerOf, Own, ChildLive, ProcInv, Admit
  <2> QED BY <1>a, <2>1, <2>2 DEF RunnerOf, OwnBinding
<1>20. ASSUME NEW m \in Managed, Launch(m) PROVE RunnerOf(r)'
  <2>1. ~Held(r) /\ ~Held(r)' /\ UNCHANGED <<pc, prev>>
    BY <1>20, <1>a, AfterManaged DEF Held, Launch, Keeps
  <2> QED BY <1>a, <2>1 DEF RunnerOf, OwnBinding
<1>21. ASSUME NEW m \in Managed, JobEnds(m) PROVE RunnerOf(r)'
  BY <1>21, <1>a DEF JobEnds, RunnerOf, Held, Own, Bound, OwnBinding
<1>22. ASSUME NEW m \in Managed, Clear(m) PROVE RunnerOf(r)'
  <2>1. lease' = lease \/ (~Held(r) /\ ~Held(r)')
    BY <1>22, <1>a, AfterManaged DEF Held, Clear
  <2>2. UNCHANGED <<pc, prev, env, kid>>
    BY <1>22 DEF Clear
  <2> QED BY <1>a, <2>1, <2>2 DEF RunnerOf, OwnBinding, Held, Own, Bound
<1>23. QED
  BY <1>1, <1>2, <1>3, <1>4, <1>5, <1>6, <1>7, <1>8, <1>9, <1>10, <1>11, <1>12, <1>13, <1>14,
       <1>15, <1>16, <1>17, <1>18, <1>19, <1>20, <1>21, <1>22 DEF Next, ProgramStep, ManagedStep

\* A step keeps the program above a launcher bound until the launcher has borrowed.
LEMMA OuterStep ==
  ASSUME BundleTree, OrderlyFaults, PInv, Next
  PROVE  OuterInv'
<1>0. BundleTree /\ TypeOK /\ Tables /\ LeaseInv /\ ProcInv /\ EnvInv /\ KidInv /\ OuterInv
  BY TablesTyped DEF PInv
<1> USE TreeAssumption, <1>0 DEF Go, GoEnd, call, loan
<1> SUFFICES ASSUME NEW o \in Program, Wrapper(o), ~Runner(o) PROVE OuterOf(o)'
  BY DEF OuterInv
<1>a. OuterOf(o) /\ Parent[o] = None /\ env[o] \in {None, o} /\ o # None /\ o \notin Managed
  BY OuterShape DEF OuterInv, EnvInv
<1>b. PICK q \in Program : Children(o) = {q} /\ Parent[q] = o /\ Runner(q)
  BY OuterShape
<1>c. /\ Wrapper(q) /\ q # o /\ env[q] \in {None, q, o} /\ todo[o] \subseteq {q}
      /\ pc[q] = "none" => env[q] = None
      /\ pc[q] = "enter" => env[q] # q /\ q \in alive
      /\ q \in todo[o] => pc[q] = "none"
      /\ pc[o] \in {"spawn", "bind", "wait", "abort", "restore", "unwind"} 
            => kid[o] = q /\ q \notin todo[o]
      /\ pc[o] = "spawn" => pc[q] = "none"
      /\ o \in alive <=> pc[o] \notin {"none", "done", "killed"}
      /\ q \notin strays
  BY <1>a, <1>b DEF KidInv, EnvInv, ProcInv, Runner
<1>d. ASSUME NEW p \in Program, p # o, Wrapper(p), env[p] = o PROVE p = q
  <2>1. Parent[p] = o /\ p \in Children(o)
    BY <1>d DEF EnvInv, Children
  <2> QED BY <1>b, <2>1
<1> DEFINE Early == pc[o] = "spawn" \/ (pc[o] = "body" /\ todo[o] # {})
           Late == pc[q] = "enter" /\ pc[o] \in {"bind", "wait"}
<1>e. /\ Early => Held(o) /\ Own(o) /\ pc[q] = "none"
      /\ Late => Held(o) /\ lease.proc \in {o, q}
      /\ Early \/ Late => Held(o) /\ ChildLive /\ lease.token = o
      /\ pc[o] = "abort" => pc[q] # "enter" /\ ~Held(o)
  BY <1>a, <1>b, <1>c DEF OuterOf, Held, Own, ChildLive
<1>f. ASSUME Early' => Held(o)' /\ Own(o)', Late' => Held(o)' /\ lease'.proc \in {o, q},
             pc'[o] = "abort" => pc'[q] # "enter" /\ ~Held(o)'
      PROVE  OuterOf(o)'
  BY <1>b, <1>f DEF OuterOf
<1>1. ASSUME NEW p \in Program, StartTop(p) PROVE OuterOf(o)'
  BY <1>1, <1>a, <1>b, <1>c, <1>e, <1>f DEF StartTop, Tables, Held, Own
<1>2. ASSUME NEW p \in Program, Borrow(p) PROVE OuterOf(o)'
  <2>1. /\ pc[p] = "enter" /\ Wrapper(p) /\ env[p] = lease.token /\ env[p] # None /\ env[p] # p
        /\ lease'.token = lease.token /\ pc' = [pc EXCEPT ![p] = "body"]
        /\ UNCHANGED <<env, todo>>
    BY <1>2, AfterLease DEF Borrow, HasLease, EnvInv, Keeps
  <2>2. p # o
    BY <1>a, <2>1
  <2>3. CASE p = q
    BY <1>c, <1>e, <1>f, <2>1, <2>2, <2>3 DEF Tables, Held
  <2>4. CASE p # q
    <3>1. ~Held(o)
      BY <1>a, <1>d, <2>1, <2>2, <2>4 DEF Held
    <3> QED BY <1>c, <1>e, <1>f, <2>1, <2>2, <2>4, <3>1 DEF Tables, Held
  <2> QED BY <2>3, <2>4
<1>3. ASSUME NEW p \in Program, Create(p) PROVE OuterOf(o)'
  <2>1. /\ pc[p] = "enter" /\ Wrapper(p) /\ ~LeaseLive /\ env' = [env EXCEPT ![p] = p]
        /\ lease'.token = p /\ lease'.proc = p /\ lease'.group = None
        /\ pc' = [pc EXCEPT ![p] = "body"] /\ UNCHANGED todo
    BY <1>3 DEF Create
  <2>2. ~Early /\ ~Late
    BY <1>e, <2>1 DEF LeaseLive
  <2>3. CASE p = o
    BY <1>c, <1>f, <2>1, <2>3 DEF Tables, Held, Own
  <2>4. CASE p # o
    BY <1>a, <1>c, <1>e, <1>f, <2>1, <2>2, <2>4 DEF Tables, Held
  <2> QED BY <2>3, <2>4
<1>4. ASSUME NEW p \in Program, Refuse(p) PROVE OuterOf(o)'
  BY <1>4, <1>e, <1>f DEF Refuse, Held, Own
<1>5. ASSUME NEW p \in Program, Leave(p) PROVE OuterOf(o)'
  <2>1. /\ pc[p] = "leave" /\ Wrapper(p) /\ pc' = [pc EXCEPT ![p] = "done"]
        /\ UNCHANGED <<env, todo>> /\ lease'.token \in {lease.token, None}
    BY <1>5, AfterLease DEF Leave, ProcInv, Keeps
  <2>2. p # o /\ (Early' \/ Late') => lease' = lease /\ (Early' => Early) /\ (Late' => Late)
    <3> SUFFICES ASSUME p # o, Early' \/ Late'
                 PROVE  lease' = lease /\ (Early' => Early) /\ (Late' => Late)
      OBVIOUS
    <3>1. p # q /\ (Early' => Early) /\ (Late' => Late)
      BY <1>c, <1>e, <2>1 DEF Tables
    <3>2. env[p] # lease.token
      BY <1>a, <1>d, <1>e, <2>1, <3>1 DEF Held
    <3> QED BY <1>5, <3>1, <3>2, AfterLease
  <2>3. pc'[o] = "abort" => pc'[q] # "enter" /\ ~Held(o)'
    BY <1>c, <1>e, <2>1 DEF Tables, Held
  <2>4. p = o => ~Early' /\ ~Late'
    BY <2>1 DEF Tables
  <2> QED BY <1>e, <1>f, <2>1, <2>2, <2>3, <2>4 DEF Held, Own
<1>6. ASSUME NEW p \in Program, BodyEnds(p) PROVE OuterOf(o)'
  BY <1>6, <1>e, <1>f DEF BodyEnds, Held, Own
<1>7. ASSUME NEW p \in Program, Spawn(p) PROVE OuterOf(o)'
  <2>1. /\ pc[p] = "spawn" /\ kid[p] \in Program /\ Parent[kid[p]] = p /\ p # None
        /\ pc' = [pc EXCEPT ![p] = "bind", ![kid[p]] = "enter"]
        /\ env' = [env EXCEPT ![kid[p]] = env[p]]
        /\ UNCHANGED <<lease, todo>>
    BY <1>7 DEF Spawn, KidInv, Children, Tables
  <2>2. kid[p] # o /\ (kid[p] = q => p = o)
    BY <1>a, <1>b, <2>1
  <2>3. CASE p = o
    BY <1>a, <1>c, <1>e, <1>f, <2>1, <2>2, <2>3 DEF Tables, Held, Own
  <2>4. CASE p # o
    BY <1>c, <1>e, <1>f, <2>1, <2>2, <2>4 DEF Tables, Held, Own
  <2> QED BY <2>3, <2>4
<1>8. ASSUME NEW p \in Program, SpawnFail(p) PROVE OuterOf(o)'
  BY <1>8, <1>e, <1>f DEF SpawnFail, Held, Own
<1>9. ASSUME NEW p \in Program, Bind(p) PROVE OuterOf(o)'
  <2>1. pc[p] = "bind" /\ Wrapper(p) /\ UNCHANGED <<env, todo>>
    BY <1>9 DEF Bind, ProcInv
  <2>2. CASE lease.token # env[p]
    <3>1. UNCHANGED lease /\ pc' = [pc EXCEPT ![p] = "abort"]
      BY <1>9, <2>2 DEF Bind
    <3> QED BY <1>c, <1>e, <1>f, <2>1, <2>2, <3>1 DEF Tables, Held, Own
  <2>3. CASE lease.token = env[p]
    <3>1. /\ lease'.token = lease.token /\ lease'.proc = kid[p]
          /\ pc' = [pc EXCEPT ![p] = "wait"]
      BY <1>9, <2>3, AfterLease DEF Bind, Keeps
    <3>2. CASE p = o
      BY <1>a, <1>c, <1>e, <1>f, <2>1, <2>3, <3>1, <3>2 DEF Tables, Held, EnvInv
    <3>3. CASE p = q
      BY <1>c, <1>e, <1>f, <2>1, <3>1, <3>3 DEF Tables, Held
    <3>4. CASE p # o /\ p # q
      <4>1. ~Held(o)
        BY <1>a, <1>d, <2>1, <2>3, <3>4 DEF Held
      <4> QED BY <1>c, <1>e, <1>f, <2>1, <3>1, <3>4, <4>1 DEF Tables, Held
    <3> QED BY <3>2, <3>3, <3>4
  <2> QED BY <2>2, <2>3
<1>10. ASSUME NEW p \in Program, Wait(p) PROVE OuterOf(o)'
  <2>1. /\ pc[p] = "wait" /\ kid[p] \notin alive /\ UNCHANGED <<lease, env, todo>>
        /\ \/ GroupLive(kid[p]) /\ pc' = [pc EXCEPT ![p] = "abort"]
           \/ pc' = [pc EXCEPT ![p] = "restore"]
    BY <1>10 DEF Wait
  <2>2. CASE p = o
    BY <1>c, <1>f, <2>1, <2>2 DEF Tables, GroupLive
  <2>3. CASE p # o
    BY <1>c, <1>e, <1>f, <2>1, <2>3 DEF Tables, Held, Own
  <2> QED BY <2>2, <2>3
<1>11. ASSUME NEW p \in Program, Abort(p) PROVE OuterOf(o)'
  BY <1>11, <1>e, <1>f DEF Abort, Tables, Held, Own
<1>12. ASSUME NEW p \in Program, Restore(p) PROVE OuterOf(o)'
  <2>1. /\ UNCHANGED <<env, todo>> /\ lease'.token = lease.token
        /\ \/ pc[p] = "restore" /\ pc' = [pc EXCEPT ![p] = "body"]
           \/ pc[p] = "unwind" /\ pc' = [pc EXCEPT ![p] = "leave"]
    BY <1>12, AfterLease DEF Restore, Keeps
  <2>2. Wrapper(p)
    BY <2>1 DEF ProcInv
  <2>3. CASE p = o
    BY <1>c, <1>f, <2>1, <2>3 DEF Tables
  <2>4. CASE p = q
    BY <1>c, <1>e, <1>f, <2>1, <2>4 DEF Tables, Held
  <2>5. CASE p # o /\ p # q
    <3>1. Early \/ Late => lease' = lease
      BY <1>12, <1>d, <1>e, <2>2, <2>5, AfterLease
    <3> QED BY <1>c, <1>e, <1>f, <2>1, <2>5, <3>1 DEF Tables, Held, Own
  <2> QED BY <2>3, <2>4, <2>5
<1>13. ASSUME NEW p \in Program, Interrupt(p) PROVE OuterOf(o)'
  <2>1. /\ p \in Interruptible /\ UNCHANGED <<lease, env, todo>>
        /\ pc[p] \in {"body", "bind", "wait"}
        /\ pc' = [pc EXCEPT ![p] = "leave"] \/ pc' = [pc EXCEPT ![p] = "abort"]
    BY <1>13 DEF Interrupt
  <2>2. p # o
    BY <2>1 DEF OrderlyFaults
  <2> QED BY <1>c, <1>e, <1>f, <2>1, <2>2 DEF Tables, Held, Own
<1>14. ASSUME NEW p \in Program, Require(p) PROVE OuterOf(o)'
  BY <1>14, <1>e, <1>f DEF Require, Tables, Held, Own
<1>15. ASSUME NEW p \in Program, GpuEnds(p) PROVE OuterOf(o)'
  BY <1>15, <1>e, <1>f DEF GpuEnds, Held, Own
<1>16. ASSUME NEW p \in Program, StraysEnd(p) PROVE OuterOf(o)'
  BY <1>16, <1>e, <1>f DEF StraysEnd, Held, Own
<1>17. ASSUME NEW p \in Program, Kill(p) PROVE OuterOf(o)'
  BY <1>17, <1>e, <1>f DEF Kill, Held, Own
<1>18. ASSUME NEW p \in Program, NEW c \in todo[p], Check(p, c) PROVE OuterOf(o)'
  BY <1>18, <1>e, <1>f DEF Check, Tables, Held, Own
<1>19. ASSUME NEW m \in Managed, Admit(m) PROVE OuterOf(o)'
  <2>1. ~Held(o)' /\ UNCHANGED <<pc, todo>>
    BY <1>19, <1>a, AfterManaged DEF Held, Admit
  <2>2. ~Early /\ ~Late
    BY <1>19, <1>e, Covered DEF Admit
  <2> QED BY <1>e, <1>f, <2>1, <2>2
<1>20. ASSUME NEW m \in Managed, Launch(m) PROVE OuterOf(o)'
  <2>1. ~Held(o) /\ ~Held(o)' /\ UNCHANGED <<pc, todo>>
    BY <1>20, <1>a, AfterManaged DEF Held, Launch, Keeps
  <2> QED BY <1>e, <1>f, <2>1
<1>21. ASSUME NEW m \in Managed, JobEnds(m) PROVE OuterOf(o)'
  BY <1>21, <1>e, <1>f DEF JobEnds, Held, Own
<1>22. ASSUME NEW m \in Managed, Clear(m) PROVE OuterOf(o)'
  <2>1. lease' = lease \/ (~Held(o) /\ ~Held(o)')
    BY <1>22, <1>a, AfterManaged DEF Held, Clear
  <2>2. UNCHANGED <<pc, env, todo>>
    BY <1>22 DEF Clear
  <2> QED BY <1>e, <1>f, <2>1, <2>2 DEF Held, Own
<1>23. QED
  BY <1>1, <1>2, <1>3, <1>4, <1>5, <1>6, <1>7, <1>8, <1>9, <1>10, <1>11, <1>12, <1>13, <1>14,
       <1>15, <1>16, <1>17, <1>18, <1>19, <1>20, <1>21, <1>22 DEF Next, ProgramStep, ManagedStep

\* A step keeps the lease of an admitted managed job.
LEMMA ManagedInvStep ==
  ASSUME BundleTree, OrderlyFaults, PInv, Next
  PROVE  ManagedInv'
<1>0. TypeOK /\ Tables /\ KidInv /\ LeaseInv /\ ProcInv /\ EnvInv /\ ManagedInv
  BY TablesTyped DEF PInv
<1> USE TreeAssumption, <1>0 DEF Go, GoEnd, call, loan, ManagedInv
<1>1. ASSUME NEW p \in Program, StartTop(p) PROVE ManagedInv'
  BY <1>1 DEF StartTop
<1>2. ASSUME NEW p \in Program, Borrow(p) PROVE ManagedInv'
  BY <1>2, AfterLease DEF Borrow, Keeps, Tables, EnvInv, HasLease
<1>3. ASSUME NEW p \in Program, Create(p) PROVE ManagedInv'
  BY <1>3 DEF Create, Tables, EnvInv, LeaseLive, ProcInv
<1>4. ASSUME NEW p \in Program, Refuse(p) PROVE ManagedInv'
  BY <1>4 DEF Refuse
<1>5. ASSUME NEW p \in Program, Leave(p) PROVE ManagedInv'
  BY <1>5 DEF Leave, Tables
<1>6. ASSUME NEW p \in Program, BodyEnds(p) PROVE ManagedInv'
  BY <1>6 DEF BodyEnds
<1>7. ASSUME NEW p \in Program, Spawn(p) PROVE ManagedInv'
  BY <1>7 DEF Spawn
<1>8. ASSUME NEW p \in Program, SpawnFail(p) PROVE ManagedInv'
  BY <1>8 DEF SpawnFail
<1>9. ASSUME NEW p \in Program, Bind(p) PROVE ManagedInv'
  BY <1>9 DEF Bind, Tables
<1>10. ASSUME NEW p \in Program, Wait(p) PROVE ManagedInv'
  BY <1>10 DEF Wait
<1>11. ASSUME NEW p \in Program, Abort(p) PROVE ManagedInv'
  BY <1>11 DEF Abort
<1>12. ASSUME NEW p \in Program, Restore(p) PROVE ManagedInv'
  BY <1>12 DEF Restore, Tables
<1>13. ASSUME NEW p \in Program, Interrupt(p) PROVE ManagedInv'
  BY <1>13 DEF Interrupt
<1>14. ASSUME NEW p \in Program, Require(p) PROVE ManagedInv'
  BY <1>14 DEF Require
<1>15. ASSUME NEW p \in Program, GpuEnds(p) PROVE ManagedInv'
  BY <1>15 DEF GpuEnds
<1>16. ASSUME NEW p \in Program, StraysEnd(p) PROVE ManagedInv'
  BY <1>16 DEF StraysEnd
<1>17. ASSUME NEW p \in Program, Kill(p) PROVE ManagedInv'
  BY <1>17 DEF Kill
<1>18. ASSUME NEW p \in Program, NEW c \in todo[p], Check(p, c) PROVE ManagedInv'
  BY <1>18 DEF Check
<1>19. ASSUME NEW m \in Managed, Admit(m) PROVE ManagedInv'
  BY <1>19, AfterManaged DEF Admit, Tables, EnvInv, LeaseLive, ChildLive, GroupLive, IsPortable,
       ManagedStale, RecordTerminal, NoLease, ProcInv
<1>20. ASSUME NEW m \in Managed, Launch(m) PROVE ManagedInv'
  BY <1>20, AfterManaged DEF Launch, Keeps, Tables
<1>21. ASSUME NEW m \in Managed, JobEnds(m) PROVE ManagedInv'
  BY <1>21 DEF JobEnds
<1>22. ASSUME NEW m \in Managed, Clear(m) PROVE ManagedInv'
  BY <1>22 DEF Clear
<1>23. QED
  BY <1>1, <1>2, <1>3, <1>4, <1>5, <1>6, <1>7, <1>8, <1>9, <1>10, <1>11, <1>12, <1>13, <1>14,
       <1>15, <1>16, <1>17, <1>18, <1>19, <1>20, <1>21, <1>22 DEF Next, ProgramStep, ManagedStep

------------------------------------------------------------------------------
(* Theorems *)

\* The invariant holds initially.
LEMMA InitInv == Init => PInv
<1> SUFFICES ASSUME Init PROVE PInv
  OBVIOUS
<1> USE TreeAssumption
<1>1. TypeOK
  <2>1. NoBinding \in Bindings
    BY DEF NoBinding, Bindings
  <2>2. todo \in [Program -> SUBSET Program]
    BY DEF Init, Children
  <2> QED BY <2>1, <2>2 DEF Init, TypeOK, NoLease, Holders
<1>2. LeaseInv /\ EnterInv /\ ManagedInv
  BY DEF Init, LeaseInv, EnterInv, ManagedInv, NoLease
<1>3. ProcInv
  BY DEF Init, ProcInv
<1>4. EnvInv /\ KidInv
  BY DEF Init, EnvInv, KidInv, Unstarted, Watching, Children
<1>5. GpuInv /\ RunnerInv /\ OuterInv
  BY DEF Init, GpuInv, OnGpu, RunnerInv, RunnerOf, OuterInv, OuterOf, Held
<1> QED BY <1>1, <1>2, <1>3, <1>4, <1>5 DEF PInv

\* A stuttering step keeps the invariant.
LEMMA StutterInv == ASSUME PInv, UNCHANGED vars PROVE PInv'
<1> USE DEF PInv, vars, loan, call
<1>1. TypeOK' /\ LeaseInv' /\ ManagedInv'
  BY DEF TypeOK, LeaseInv, ManagedInv
<1>2. ProcInv' /\ EnvInv' /\ KidInv' /\ EnterInv'
  BY DEF ProcInv, EnvInv, KidInv, EnterInv, EnterOf
<1>3. GpuInv' /\ RunnerInv' /\ OuterInv'
  BY DEF GpuInv, GpuOf, OnGpu, RunnerInv, RunnerOf, OuterInv, OuterOf, Held, Own, Bound
<1> QED BY <1>1, <1>2, <1>3

\* Every step keeps the invariant.
LEMMA PInvStep == ASSUME BundleTree, OrderlyFaults, PInv, [Next]_vars PROVE PInv'
<1>1. CASE Next
  BY <1>1, TypeStep, LeaseStep, ProcStep, EnvStep, KidStep, EnterStep, GpuStep, RunnerStep,
     OuterStep, ManagedInvStep DEF PInv
<1>2. CASE UNCHANGED vars
  BY <1>2, StutterInv
<1> QED BY <1>1, <1>2

\* PInv holds in every reachable state (all of runtime_lease.py and its users).
THEOREM LeaseInvariant == ASSUME BundleTree, OrderlyFaults PROVE Spec => []PInv
<1>1. PInv /\ [Next]_vars => PInv'
  BY PInvStep
<1> QED BY <1>1, InitInv, PTL DEF Spec

\* The invariant gives one user of the GPU: two would have launchers with one token.
LEMMA PInvGivesOne == ASSUME BundleTree, PInv PROVE OneGpuAction
<1> SUFFICES ASSUME NEW x \in GpuUsers, NEW y \in GpuUsers PROVE x = y
  BY DEF OneGpuAction
<1> USE TreeAssumption DEF PInv
<1>1. ASSUME NEW c \in Program, OnGpu(c)
      PROVE  /\ GpuOf(c) /\ Parent[c] \in Program /\ Runner(Parent[c]) /\ Wrapper(Parent[c])
             /\ env[Parent[c]] # None /\ env[Parent[c]] = lease.token
             /\ Parent[c] \in alive /\ lease.token \in Program
  <2>1. GpuOf(c) /\ ~Wrapper(c)
    BY <1>1 DEF GpuInv, OnGpu, ProcInv
  <2>2. Parent[c] \in Program /\ Runner(Parent[c]) /\ Wrapper(Parent[c])
    BY <2>1, RunnerShape DEF GpuOf, Runner
  <2>3. Parent[c] \in alive
    BY <2>1, <2>2 DEF GpuOf, Watching, ProcInv
  <2> QED BY <2>1, <2>2, <2>3 DEF GpuOf, Held, EnvInv
<1>2. CASE x \in Program /\ y \in Program
  <2>1. OnGpu(x) /\ OnGpu(y)
    BY <1>2 DEF GpuUsers
  <2>2. Parent[x] = Parent[y]
    <3> SUFFICES ASSUME Parent[x] # Parent[y] PROVE FALSE
      OBVIOUS
    <3>1. Parent[Parent[x]] = Parent[y] /\ Parent[Parent[y]] = None
      BY <1>1, <1>2, <2>1, OneHolder
    <3>2. Parent[Parent[y]] = Parent[x]
      BY <1>1, <1>2, <2>1, OneHolder
    <3> QED BY <3>1, <3>2, <1>1, <1>2, <2>1
  <2> QED BY <1>1, <1>2, <2>1, <2>2 DEF GpuOf
<1>3. CASE x \in Managed /\ y \in Managed
  BY <1>3 DEF GpuUsers, ManagedInv
<1>4. ASSUME NEW c \in Program, NEW m \in Managed, OnGpu(c), mpc[m] = "gpu" PROVE FALSE
  BY <1>1, <1>4 DEF ManagedInv
<1> QED BY <1>2, <1>3, <1>4 DEF GpuUsers

\* The invariant gives a lease that covers whoever uses the GPU.
LEMMA PInvGivesVisible == ASSUME BundleTree, PInv PROVE GpuUseIsVisible
<1> SUFFICES ASSUME NEW x \in GpuUsers PROVE LeaseLive /\ ~ManagedStale
  BY DEF GpuUseIsVisible
<1> USE TreeAssumption DEF PInv
<1>1. CASE x \in Program
  <2>1. OnGpu(x) /\ GpuOf(x) /\ ~Wrapper(x) /\ x \in alive \cup strays
    BY <1>1 DEF GpuUsers, GpuInv, OnGpu, ProcInv
  <2>2. Parent[x] \in Program /\ Held(Parent[x]) /\ Parent[x] \in alive
    BY <2>1, <1>1 DEF GpuOf, Watching, ProcInv
  <2>3. ChildLive
    BY <2>1, <2>2 DEF GpuOf, Own, Bound, ChildLive, GroupLive
  <2> QED BY <2>2, <2>3, Covered
<1>2. CASE x \in Managed
  <2>1. mpc[x] = "gpu" /\ lease.token = x /\ lease.proc = x /\ x \in alive
    BY <1>2 DEF GpuUsers, ManagedInv, ProcInv
  <2> QED BY <2>1, <1>2 DEF LeaseLive, ManagedStale, ChildLive, RecordTerminal, IsPortable
<1> QED BY <1>1, <1>2 DEF GpuUsers

\* Type correctness of the portable lease for every tree of programs.
THEOREM TypeCorrect == ASSUME BundleTree, OrderlyFaults PROVE Spec => []TypeOK
  BY LeaseInvariant, PTL DEF PInv

\* Only one Aptus GPU action runs on the host (_active_error): programs of any nesting and
\* managed jobs never use the GPU together.
THEOREM OneAction == ASSUME BundleTree, OrderlyFaults PROVE Spec => []OneGpuAction
<1>1. PInv => OneGpuAction
  BY PInvGivesOne
<1> QED BY <1>1, LeaseInvariant, PTL

\* While the GPU is used neither a bundle program nor the managed service takes the lease
\* for free (_lease_live, _global_lease_is_stale).
THEOREM UseIsVisible == ASSUME BundleTree, OrderlyFaults PROVE Spec => []GpuUseIsVisible
<1>1. PInv => GpuUseIsVisible
  BY PInvGivesVisible
<1> QED BY <1>1, LeaseInvariant, PTL

\* The user of the GPU.
Holder == IF GpuUsers # {} THEN CHOOSE u \in GpuUsers : TRUE ELSE None

Slot == INSTANCE GpuSlot WITH User <- Holders, holder <- Holder

\* A step brings users to the GPU or takes users from it, never both.
LEMMA OneEntersOrLeaves ==
  ASSUME TypeOK, ProcInv, [Next]_vars
  PROVE  GpuUsers' \subseteq GpuUsers \/ GpuUsers \subseteq GpuUsers'
<1>t. Tables
  BY TablesTyped
<1>1. CASE UNCHANGED vars
  BY <1>1 DEF vars, loan, call, GpuUsers, OnGpu
<1> USE <1>t DEF Tables, GpuUsers, OnGpu, Go, GoEnd, loan, call
<1>2. ASSUME NEW p \in Program, StartTop(p) \/ Borrow(p) \/ Create(p) \/ Refuse(p) \/ Leave(p)
             \/ BodyEnds(p) \/ SpawnFail(p) \/ Bind(p) \/ Wait(p) \/ Restore(p) \/ Interrupt(p)
      PROVE  GpuUsers' \subseteq GpuUsers
  <2>1. UNCHANGED <<strays, mpc>> /\ \E s \in PCs \ {"gpu"} : pc' = [pc EXCEPT ![p] = s]
    BY <1>2 DEF PCs, StartTop, Borrow, Create, Refuse, Leave, BodyEnds, SpawnFail, Bind, Wait,
                Restore, Interrupt
  <2> QED BY <2>1
<1>3. ASSUME NEW p \in Program, NEW c \in todo[p], Check(p, c) PROVE GpuUsers' \subseteq GpuUsers
  BY <1>3 DEF Check
<1>4. ASSUME NEW p \in Program, Spawn(p) \/ Abort(p) PROVE GpuUsers' \subseteq GpuUsers
  BY <1>4 DEF Spawn, Abort
<1>5. ASSUME NEW p \in Program, Require(p) PROVE GpuUsers \subseteq GpuUsers'
  BY <1>5 DEF Require
<1>6. ASSUME NEW p \in Program, GpuEnds(p) \/ StraysEnd(p) \/ Kill(p)
      PROVE  GpuUsers' \subseteq GpuUsers
  BY <1>6 DEF GpuEnds, StraysEnd, Kill
<1>7. ASSUME NEW m \in Managed, Admit(m) \/ JobEnds(m) \/ Clear(m)
      PROVE  GpuUsers' \subseteq GpuUsers
  BY <1>7 DEF Admit, JobEnds, Clear
<1>8. ASSUME NEW m \in Managed, Launch(m) PROVE GpuUsers \subseteq GpuUsers'
  BY <1>8 DEF Launch
<1> QED BY <1>1, <1>2, <1>3, <1>4, <1>5, <1>6, <1>7, <1>8 DEF Next, ProgramStep, ManagedStep

\* The programs and the jobs share the GPU as one slot that is handed over empty: the
\* lease file implements GpuSlot.
THEOREM PortableImplementsSlot ==
  ASSUME BundleTree, OrderlyFaults
  PROVE  Spec => Slot!Spec
<1>a. PInv => OneGpuAction
  BY PInvGivesOne
<1>b. PInv' => OneGpuAction'
  BY <1>a, PTL
<1>1. Init => Slot!Init
  BY DEF Init, Slot!Init, Holder, GpuUsers, OnGpu
<1>2. PInv /\ PInv' /\ [Next]_vars => [Slot!Next]_Holder
  <2> SUFFICES ASSUME PInv, PInv', [Next]_vars PROVE [Slot!Next]_Holder
    OBVIOUS
  <2>1. OneGpuAction /\ OneGpuAction'
    BY PInvGivesOne, <1>b
  <2>2. GpuUsers' \subseteq GpuUsers \/ GpuUsers \subseteq GpuUsers'
    BY OneEntersOrLeaves DEF PInv
  <2>3. None \notin GpuUsers /\ None \notin GpuUsers' /\ GpuUsers' \subseteq Holders
    BY TreeAssumption DEF GpuUsers, Holders
  <2>4. CASE GpuUsers = {} /\ GpuUsers' # {}
    BY <2>3, <2>4 DEF Holder, Slot!Next, Slot!Acquire
  <2>5. CASE GpuUsers # {} /\ GpuUsers' = {}
    BY <2>3, <2>5 DEF Holder, Slot!Next, Slot!Release
  <2>6. CASE GpuUsers = {} /\ GpuUsers' = {}
    BY <2>6 DEF Holder
  <2>7. CASE GpuUsers # {} /\ GpuUsers' # {}
    <3>1. GpuUsers = GpuUsers'
      BY <2>1, <2>2, <2>7 DEF OneGpuAction
    <3> QED BY <3>1 DEF Holder
  <2> QED BY <2>4, <2>5, <2>6, <2>7
<1> QED BY <1>1, <1>2, LeaseInvariant, PTL DEF Spec, Slot!Spec
=============================================================================

--------------------------- MODULE BackendController ---------------------------
(***************************************************************************)
(* The macOS host of the local service: BackendController.swift with the   *)
(* process tree it contains (BackendProcessTree.swift) and the two callers *)
(* of it, the Retry button (MainWindowController.swift) and the request to *)
(* quit (AptusApplication.swift).                                          *)
(*                                                                         *)
(* The controller lives on the main thread.  Everything else reaches it as *)
(* a block on the main queue, in order, or as a timer.  ctl holds its      *)
(* fields and the queue; a handler is one step, except that                *)
(*   - evaluateShutdown looks at processes several times while they run on *)
(*     (main = "freeze", "scan", "kill", "deadline"), and                  *)
(*   - the completions of one shutdown are called one after the other in   *)
(*     one block (main = "calls").                                         *)
(* A launch is a chain of processes, each started by the one before it.    *)
(* One whose parent is dead can no longer be found from the root.  SIGTERM *)
(* is left out: a process may exit at any time.  SIGKILL is answered when  *)
(* the kernel likes (the status "dying").  token, paths and logHandle are  *)
(* set and cleared with process and have no field of their own.            *)
(***************************************************************************)
EXTENDS Naturals, Sequences

CONSTANTS
    Launches,       \* bound: launches of the service
    Depth,          \* bound: descendants of each launch
    Requests,       \* bound: health requests of one launch under way
    Rounds,         \* rescans of a suspended tree, 8 in the code
    None

ASSUME BoundsAssumption ==
    /\ Launches \in Nat \ {0} /\ Depth \in [1..Launches -> Nat] /\ Requests \in Nat \ {0}
    /\ Rounds \in Nat \ {0}

VARIABLES
    ctl,        \* the fields of BackendController, and the main queue
    main,       \* what the main thread is doing
    round,      \* rescans done
    app,        \* the application: "launching", "running", "gone"
    ui,         \* what the window shows
    pending,    \* ApplicationTerminationCoordinator.replyPending
    st,         \* each process
    running,    \* Process.isRunning of each launch
    requests,   \* health requests under way, by launch
    seen        \* live processes that the controller has captured

host == <<app, ui, pending>>
processes == <<st, running>>
vars == <<ctl, main, round, host, processes, requests, seen>>

Launch  == 1..Launches
Process == UNION {{n} \X (0..Depth[n]) : n \in Launch}
Root(n) == <<n, 0>>

------------------------------------------------------------------------------
(* BackendProcessTree *)

Alive(p) == st[p] \in {"run", "held", "dying"}

Active(S) == {p \in S : Alive(p)}

\* expanding: with every live process of S, those that descend from it.
Expand(S) ==
    S \cup {p \in Process : \E k \in 0..p[2] :
                /\ <<p[1], k>> \in S
                /\ \A i \in k..p[2] : Alive(<<p[1], i>>)}

Identities(n) == Expand(Active({Root(n)}))

Suspended(S) == [p \in Process |-> IF p \in S /\ st[p] = "run" THEN "held" ELSE st[p]]
Killed(S)    == [p \in Process |-> IF p \in S /\ Alive(p) THEN "dying" ELSE st[p]]

------------------------------------------------------------------------------
(* BackendController: what its methods make of the record c *)

States == {"stopped", "starting", "ready", "failed", "stopping"}

Notice(s)        == [kind |-> "state", state |-> s]
Exited(n)        == [kind |-> "exit", launch |-> n]
Health(n, a)     == [kind |-> "health", launch |-> n, answer |-> a]
Done(calls, ok)  == [kind |-> "done", calls |-> calls, ok |-> ok]

Idle == [state |-> "stopped", session |-> None, process |-> None,
         intentional |-> FALSE, completions |-> <<>>, owned |-> {},
         tracking |-> FALSE, context |-> None, polling |-> FALSE,
         startup |-> FALSE, late |-> FALSE, inFlight |-> FALSE, queue |-> <<>>]

\* Every assignment to state is announced to the window, which ignores some.
SetState(c, s) ==
    [c EXCEPT !.state = s,
              !.queue = IF s \in {"stopped", "stopping"} THEN @ ELSE Append(@, Notice(s)),
              !.session = None]

Dequeue(c) == [c EXCEPT !.queue = Tail(@)]

IsRunning(c) == c.process # None /\ running[c.process]

CaptureOwnedProcesses(c) ==
    IF c.context # None THEN c
    ELSE [c EXCEPT !.owned = Expand(@ \cup (IF c.process = None THEN {}
                                            ELSE Identities(c.process)))]

Cleanup(c) ==
    [c EXCEPT !.tracking = FALSE, !.polling = FALSE, !.context = None,
              !.owned = {}, !.process = None, !.inFlight = FALSE,
              !.late = FALSE]

CompleteStopRequests(c, ok) ==
    IF c.completions = <<>> THEN c
    ELSE [c EXCEPT !.queue = Append(@, Done(c.completions, ok)), !.completions = <<>>]

\* A shutdown caused by a failure leaves the failure on show.
Show(c, s) == IF c.context.preserve THEN c ELSE SetState(c, s)

\* active.isEmpty, process?.isRunning != true.  Mutant: only the root counts.
OverByRoot(c, S) == ~IsRunning(c)
Over(c, S) == Active(S) = {} /\ ~IsRunning(c)

FinishShutdown(c) == CompleteStopRequests(Cleanup(Show(c, "stopped")), TRUE)

\* Mutants: a timeout gives up the processes; nobody is told.
ReportAndForget(c) == CompleteStopRequests(SetState(Cleanup(c), "failed"), FALSE)
ReportSilently(c) ==
    Show([c EXCEPT !.context.reported = TRUE, !.polling = FALSE], "failed")
ReportShutdownTimeout(c) ==
    CompleteStopRequests(
        Show([c EXCEPT !.context.reported = TRUE, !.polling = FALSE], "failed"), FALSE)

\* clock: 1 after the graceful deadline, 2 after the forced one.
NewContext(c, preserve) ==
    [preserve |-> preserve, forced |-> FALSE, reported |-> FALSE, clock |-> 0,
     targets |-> c.owned]

\* A root that is gone already is evaluated at once, before any deadline.
BeginShutdown(c, preserve) ==
    LET d == CaptureOwnedProcesses(c)
        e == [d EXCEPT !.tracking = FALSE, !.intentional = TRUE, !.polling = TRUE,
                       !.context = NewContext(d, preserve)]
        f == Show(e, "stopping")
    IN  IF c.context # None THEN c
        ELSE IF Over(f, f.owned) THEN FinishShutdown(f) ELSE f

Fail(c) ==
    LET d == CaptureOwnedProcesses(SetState([c EXCEPT !.startup = FALSE], "failed"))
    IN  IF Over(d, d.owned) THEN Cleanup(d) ELSE BeginShutdown(d, TRUE)

------------------------------------------------------------------------------
(* BackendController: methods that signal processes *)

\* The first look of evaluateShutdown.  At the graceful deadline the tree that is
\* known is suspended before it is searched again.
EvaluateShutdown(c) ==
    LET d     == [c EXCEPT !.context.targets = Expand(@)]
        over  == Over(d, d.context.targets)
        force == ~d.context.forced /\ d.context.clock >= 1
    IN  \/ /\ over
           /\ ctl' = FinishShutdown(d)
           /\ UNCHANGED main
        \/ /\ ~over /\ (d.context.reported \/ (~d.context.forced /\ ~force))
           /\ ctl' = d
           /\ UNCHANGED main
        \/ /\ ~over /\ ~d.context.reported /\ force
           /\ ctl' = [d EXCEPT !.context.forced = TRUE]
           /\ main' = "freeze"
        \/ /\ ~over /\ ~d.context.reported /\ d.context.forced
           /\ ctl' = d
           /\ main' = "kill"

RetryTimedOutShutdown(c) ==
    LET targets == Expand(c.context.targets)
        d == Show([c EXCEPT !.polling = TRUE,
                            !.context = [@ EXCEPT !.reported = FALSE, !.forced = TRUE,
                                                  !.clock = 1, !.targets = targets]],
                  "stopping")
    IN  /\ st' = Killed(targets)
        /\ ctl' = IF Over(d, targets) THEN FinishShutdown(d) ELSE d

\* The caller has appended its completion.
Stop(c) ==
    LET d    == [c EXCEPT !.startup = FALSE, !.intentional = TRUE]
        e    == CaptureOwnedProcesses(d)
        over == Over(e, e.owned)
    IN  \/ /\ d.context # None /\ d.context.reported
           /\ RetryTimedOutShutdown(d)
        \/ /\ d.context # None /\ ~d.context.reported
           /\ ctl' = d /\ UNCHANGED st
        \/ /\ d.context = None /\ over
           /\ ctl' = CompleteStopRequests(SetState(Cleanup(e), "stopped"), TRUE)
           /\ UNCHANGED st
        \/ /\ d.context = None /\ ~over
           /\ ctl' = BeginShutdown(e, FALSE) /\ UNCHANGED st

\* Refused while there is a process, which none of the callers here runs into.  A
\* launch that fails, at whatever point, leaves nothing behind.
Start(c) ==
    LET d == SetState([c EXCEPT !.intentional = FALSE], "starting")
    IN  \/ /\ c.process # None
           /\ ctl' = c /\ UNCHANGED processes
        \/ /\ c.process = None
           /\ ctl' = Fail(d) /\ UNCHANGED processes
        \/ \E n \in Launch :
               /\ c.process = None
               /\ \A m \in Launch : st[Root(m)] = "unborn" <=> m >= n
               /\ st' = [st EXCEPT ![Root(n)] = "run"]
               /\ running' = [running EXCEPT ![n] = TRUE]
               /\ ctl' = [d EXCEPT !.process = n, !.owned = {Root(n)}, !.tracking = TRUE,
                                   !.startup = TRUE, !.late = FALSE]

------------------------------------------------------------------------------
(* Steps of the main thread *)

MainIdle == app = "running" /\ main = "idle"

QueueHead(kind) == ctl.queue # <<>> /\ Head(ctl.queue).kind = kind

ApplicationStart ==
    /\ app = "launching" /\ app' = "running"
    /\ ui' = "starting"
    /\ Start(ctl)
    /\ UNCHANGED <<main, round, pending, requests>>

\* The Retry button, which only the failure view shows.  While the application
\* waits for the answer to a request to quit it serves no buttons.
Restart ==
    /\ MainIdle /\ ui = "failed" /\ ~pending
    /\ ui' = "starting"
    /\ Stop([ctl EXCEPT !.completions = Append(@, "restart")])
    /\ UNCHANGED <<main, round, app, pending, running, requests>>

RequestTermination ==
    /\ MainIdle /\ ~pending
    /\ pending' = TRUE
    /\ Stop([ctl EXCEPT !.completions = Append(@, "quit")])
    /\ UNCHANGED <<main, round, app, ui, running, requests>>

\* The next completion of a shutdown.  An application that may terminate tells
\* the controller to stop, without waiting, and is gone.
Call ==
    /\ app = "running" /\ main \in {"idle", "calls"} /\ QueueHead("done")
    /\ LET block == Head(ctl.queue)
           rest  == Tail(block.calls)
           last  == rest = <<>>
           c     == [ctl EXCEPT !.queue = IF last THEN Tail(@)
                         ELSE <<[block EXCEPT !.calls = rest]>> \o Tail(@)]
       IN  /\ main' = IF last THEN "idle" ELSE "calls"
           /\ \/ /\ Head(block.calls) = "restart" /\ block.ok
                 /\ Start(c) /\ UNCHANGED <<app, pending>>
              \/ /\ Head(block.calls) = "restart" /\ ~block.ok
                 /\ ctl' = c /\ UNCHANGED <<processes, app, pending>>
              \/ /\ Head(block.calls) = "quit" /\ block.ok
                 /\ pending' = FALSE /\ app' = "gone"
                 /\ Stop(c) /\ UNCHANGED running
              \/ /\ Head(block.calls) = "quit" /\ ~block.ok
                 /\ pending' = FALSE
                 /\ ctl' = c /\ UNCHANGED <<processes, app>>
    /\ UNCHANGED <<round, ui, requests>>

Apply ==
    /\ MainIdle /\ QueueHead("state")
    /\ ui' = Head(ctl.queue).state
    /\ ctl' = Dequeue(ctl)
    /\ UNCHANGED <<main, round, app, pending, processes, requests>>

\* The deadline comes first.  Mutant: it is looked at between two requests only.
ExpiredBetweenRequests(c) == c.late /\ ~c.inFlight
Expired(c) == c.late

\* A tick of the startup timer: the ready file is missing, acceptable or not.
PollReadiness ==
    /\ MainIdle /\ ctl.startup /\ ctl.state = "starting"
    /\ \/ /\ Expired(ctl) \/ ~ctl.inFlight
          /\ ctl' = Fail(ctl) /\ UNCHANGED requests
       \/ /\ ~Expired(ctl) /\ ~ctl.inFlight /\ requests[ctl.process] < Requests
          /\ ctl' = [ctl EXCEPT !.inFlight = TRUE]
          /\ requests' = [requests EXCEPT ![ctl.process] = @ + 1]
    /\ UNCHANGED <<main, round, host, processes>>

\* Is the answer one to the launch that is starting?  Mutant: the token is not compared.
AwaitsAnyAnswer(c, n) == c.state = "starting"
AwaitsAnswer(c, n) == c.state = "starting" /\ c.process = n

HandleHealthResponse ==
    /\ MainIdle /\ QueueHead("health")
    /\ LET block == Head(ctl.queue)
           c     == [Dequeue(ctl) EXCEPT !.inFlight = FALSE]
           mine  == AwaitsAnswer(c, block.launch)
       IN  \/ /\ ~mine \/ block.answer = "none"
              /\ ctl' = c
           \/ /\ mine /\ block.answer = "bad"
              /\ ctl' = Fail(c)
           \/ /\ mine /\ block.answer = "ok"
              /\ ctl' = [SetState(c, "ready") EXCEPT !.startup = FALSE,
                                                     !.session = block.launch]
    /\ UNCHANGED <<main, round, host, processes, requests>>

\* A termination handler.  Its branch for an intentional stop without a context is
\* left out: stop() and fail() leave a context or no process.
HandleTermination ==
    /\ MainIdle /\ QueueHead("exit")
    /\ LET c == Dequeue(ctl)
           d == [c EXCEPT !.startup = FALSE]
           mine == c.process = Head(ctl.queue).launch
       IN  \/ /\ ~mine
              /\ ctl' = c /\ UNCHANGED main
           \/ /\ mine /\ c.intentional
              /\ EvaluateShutdown(d)
           \/ /\ mine /\ ~c.intentional
              /\ ctl' = BeginShutdown(CaptureOwnedProcesses(SetState(d, "failed")), TRUE)
              /\ UNCHANGED main
    /\ UNCHANGED <<round, host, processes, requests>>

OwnershipPoll ==
    /\ MainIdle /\ ctl.tracking
    /\ ctl' = CaptureOwnedProcesses(ctl)
    /\ UNCHANGED <<main, round, host, processes, requests>>

ShutdownPoll ==
    /\ MainIdle /\ ctl.polling
    /\ EvaluateShutdown(ctl)
    /\ UNCHANGED <<round, host, processes, requests>>

\* Mutant: what a rescan finds is not suspended.
FreezeOnce ==
    /\ main = "freeze" /\ main' = "scan"
    /\ st' = IF round = 0 THEN Suspended(ctl.context.targets) ELSE st
    /\ UNCHANGED <<ctl, round, host, running, requests>>

\* Suspend what is known ...
Freeze ==
    /\ main = "freeze" /\ main' = "scan"
    /\ st' = Suspended(ctl.context.targets)
    /\ UNCHANGED <<ctl, round, host, running, requests>>

\* ... and search again.  Until it is suspended a process may still have forked.
Scan ==
    /\ main = "scan"
    /\ LET found == Expand(ctl.context.targets) \ ctl.context.targets
       IN  IF found = {} \/ round = Rounds
           THEN main' = "kill" /\ round' = 0 /\ UNCHANGED ctl
           ELSE /\ ctl' = [ctl EXCEPT !.context.targets = @ \cup found]
                /\ main' = "freeze" /\ round' = round + 1
    /\ UNCHANGED <<host, processes, requests>>

ForceTerminate ==
    /\ main = "kill" /\ main' = "deadline"
    /\ st' = Killed(ctl.context.targets)
    /\ UNCHANGED <<ctl, round, host, running, requests>>

\* The end of evaluateShutdown, which looks at the processes once more.
Deadline ==
    /\ main = "deadline" /\ main' = "idle"
    /\ ctl' = IF ctl.context.clock < 2 THEN ctl
              ELSE IF Over(ctl, ctl.context.targets) THEN FinishShutdown(ctl)
              ELSE ReportShutdownTimeout(ctl)
    /\ UNCHANGED <<round, host, processes, requests>>

------------------------------------------------------------------------------
(* The rest of the world *)

\* Time passes between two handlers.
StartupDeadline ==
    /\ MainIdle /\ ctl.startup /\ ~ctl.late
    /\ ctl' = [ctl EXCEPT !.late = TRUE]
    /\ UNCHANGED <<main, round, host, processes, requests>>

ShutdownDeadline ==
    /\ MainIdle /\ ctl.context # None /\ ctl.polling /\ ctl.context.clock < 2
    /\ ctl' = [ctl EXCEPT !.context.clock = @ + 1]
    /\ UNCHANGED <<main, round, host, processes, requests>>

Respond(n, a) ==
    /\ app = "running" /\ requests[n] > 0
    /\ requests' = [requests EXCEPT ![n] = @ - 1]
    /\ ctl' = [ctl EXCEPT !.queue = Append(@, Health(n, a))]
    /\ UNCHANGED <<main, round, host, processes>>

\* Foundation notices the end of the process it launched.
Reap(n) ==
    /\ app = "running" /\ running[n] /\ st[Root(n)] = "dead"
    /\ running' = [running EXCEPT ![n] = FALSE]
    /\ ctl' = [ctl EXCEPT !.queue = Append(@, Exited(n))]
    /\ UNCHANGED <<main, round, host, st, requests>>

Fork(p) ==
    /\ app = "running" /\ st[p] = "run" /\ p[2] < Depth[p[1]] /\ st[<<p[1], p[2] + 1>>] = "unborn"
    /\ st' = [st EXCEPT ![<<p[1], p[2] + 1>>] = "run"]
    /\ UNCHANGED <<ctl, main, round, host, running, requests>>

\* With a process go those below it that nobody has seen: nothing can find them
\* any more, and the model drops them.
Exit(p) ==
    /\ app = "running" /\ st[p] \in {"run", "dying"}
    /\ st' = [q \in Process |->
                 IF q = p \/ (/\ q[1] = p[1] /\ q[2] > p[2]
                             /\ \A i \in (p[2] + 1)..q[2] : <<p[1], i>> \notin seen)
                 THEN "dead" ELSE st[q]]
    /\ UNCHANGED <<ctl, main, round, host, running, requests>>

------------------------------------------------------------------------------
Init ==
    /\ ctl = Idle /\ main = "idle" /\ round = 0
    /\ app = "launching" /\ ui = "starting" /\ pending = FALSE
    /\ st = [p \in Process |-> "unborn"]
    /\ running = [n \in Launch |-> FALSE]
    /\ requests = [n \in Launch |-> 0]
    /\ seen = {}

Held(c) == c.owned \cup (IF c.context = None THEN {} ELSE c.context.targets)

\* History: seen remembers every live process that was captured.
Remember == seen' = {p \in seen \cup Held(ctl') : Alive(p)'}

UserStep == ApplicationStart \/ Restart \/ RequestTermination

QueueStep == Call \/ Apply \/ HandleHealthResponse \/ HandleTermination

ShutdownStep == ShutdownPoll \/ Freeze \/ Scan \/ ForceTerminate \/ Deadline

WorldStep ==
    \/ StartupDeadline \/ ShutdownDeadline
    \/ \E n \in Launch : Reap(n) \/ \E a \in {"ok", "bad", "none"} : Respond(n, a)
    \/ \E p \in Process : Fork(p) \/ Exit(p)

Step == UserStep \/ QueueStep \/ ShutdownStep \/ PollReadiness \/ OwnershipPoll \/ WorldStep

Next == Step /\ Remember

Spec == Init /\ [][Next]_vars

\* Time passes, timers fire, and the main queue is served.  The queue and the clock
\* have strong fairness: a shutdown that polls keeps the main thread busy again and
\* again, but never for long.  No process is obliged to exit, not even after SIGKILL,
\* no request to be answered, no button to be pressed.
Fairness ==
    /\ SF_vars(QueueStep /\ Remember)
    /\ SF_vars(ShutdownDeadline /\ Remember)
    /\ WF_vars(ShutdownStep /\ Remember)
    /\ WF_vars(PollReadiness /\ Remember)
    /\ WF_vars(StartupDeadline /\ Remember)

FairSpec == Spec /\ Fairness

------------------------------------------------------------------------------
(* Properties *)

Context == [preserve : BOOLEAN, forced : BOOLEAN, reported : BOOLEAN, clock : 0..2,
            targets : SUBSET Process]

Block == {Notice(s) : s \in States} \cup {Exited(n) : n \in Launch}
         \cup {Health(n, a) : n \in Launch, a \in {"ok", "bad", "none"}}

\* The absence of a launch or of a context is neither.
ASSUME NoneAssumption == None \notin Launch /\ None \notin Context

\* The variables hold what the code's declarations allow.
TypeOK ==
    /\ ctl.state \in States
    /\ {ctl.session, ctl.process} \subseteq Launch \cup {None}
    /\ {ctl.intentional, ctl.tracking, ctl.polling, ctl.startup, ctl.late, ctl.inFlight}
           \subseteq BOOLEAN
    /\ ctl.owned \subseteq Process
    /\ ctl.context = None \/ ctl.context \in Context
    /\ \A i \in DOMAIN ctl.completions : ctl.completions[i] \in {"restart", "quit"}
    /\ \A i \in DOMAIN ctl.queue : \/ ctl.queue[i].kind = "done"
                                   \/ ctl.queue[i] \in Block
    /\ main \in {"idle", "calls", "freeze", "scan", "kill", "deadline"} /\ round \in 0..Rounds
    /\ app \in {"launching", "running", "gone"} /\ pending \in BOOLEAN
    /\ ui \in {"starting", "ready", "failed"}
    /\ st \in [Process -> {"unborn", "run", "held", "dying", "dead"}]
    /\ running \in [Launch -> BOOLEAN]
    /\ requests \in [Launch -> 0..Requests]
    /\ seen \subseteq Process

\* The controller never lets go of a live process it has seen, whatever ended the
\* launch: a request, a crash of the root, a failed start, a timeout, a retry.
\* (BackendController.cleanup is called from six places.)
NothingForgotten == app = "running" => seen \subseteq Held(ctl)

\* A replacement is launched over an empty field: two launches never have live
\* processes at once, as far as anybody could know, so that two services never
\* share the state directory ("Restart is blocked", docs/architecture/macos-desktop.md).
OneLaunch == \A p, q \in seen : p[1] = q[1]

\* A session is offered for the launch that is under control, although answers to
\* health requests of an earlier launch may still arrive (handleHealthResponse).
ReadyIsCurrent ==
    ctl.state = "ready" =>
        ctl.process # None /\ ctl.session = ctl.process /\ ctl.context = None

\* "Freeze the captured tree before the final snapshot so no process can fork
\* between discovery and forced termination" (evaluateShutdown): when the signal is
\* sent, no target can fork and nothing below a target is unknown.
FrozenBeforeKill ==
    main = "kill" =>
        /\ Expand(ctl.context.targets) = ctl.context.targets
        /\ \A p \in ctl.context.targets : st[p] # "run"

\* A request to quit is answered, with success or a refusal, in every phase it may
\* arrive in, and even if no process ever exits.
QuitAnswered == pending ~> ~pending

\* A start ends: in a session, in a failure or in a stop.
StartSettles == ctl.state = "starting" ~> ctl.state # "starting"

\* "Quit and restart complete only after typed process-tree shutdown success"
\* (desktop/macos/README.md): an application that is gone leaves no process of the
\* service that it has seen.
QuitMeansGone == app = "gone" => seen = {}
=============================================================================

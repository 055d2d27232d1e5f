------------------------ MODULE BackendController_proofs ------------------------
(***************************************************************************)
(* NothingForgotten, OneLaunch and ReadyIsCurrent for every number of      *)
(* launches, of descendants and of rescans, and FrozenBeforeKill where the *)
(* rescans are as many as the descendants (BackendController.swift).       *)
(*                                                                         *)
(* Core(c) says what the fields c of the controller know of the processes, *)
(* Flags(c) how state, intentional and polling go with the shutdown under  *)
(* way.  Each method of the controller is shown to keep Core, and Flags at *)
(* its end; a step is then a few lines.  FInv says what a forced shutdown  *)
(* knows of the tree, and Settled(c, d) what methods do not change of it.  *)
(***************************************************************************)
EXTENDS BackendController, FiniteSets, FiniteSetTheorems, TLAPS

Calls  == Seq({"restart", "quit"})
Blocks == [kind : {"state"}, state : {"starting", "ready", "failed"}]
          \cup [kind : {"exit"}, launch : Launch]
          \cup [kind : {"health"}, launch : Launch, answer : {"ok", "bad", "none"}]
          \cup [kind : {"done"}, calls : Calls \ {<<>>}, ok : BOOLEAN]

Controllers ==
    [state : States, session : Launch \cup {None}, process : Launch \cup {None},
     intentional : BOOLEAN, completions : Calls, owned : SUBSET Process,
     tracking : BOOLEAN, context : Context \cup {None}, polling : BOOLEAN,
     startup : BOOLEAN, late : BOOLEAN, inFlight : BOOLEAN, queue : Seq(Blocks)]

\* What c holds belongs to one launch, the one it controls, and is all that lives of
\* what it has seen; a shutdown under way aims at everything that is owned.
Core(c) ==
    /\ c \in Controllers
    /\ c.context # None => c.owned \subseteq c.context.targets
    /\ c.process = None => c.owned = {} /\ c.context = None
    /\ \A p \in Held(c) : p[1] = c.process
    /\ \A p \in seen : Alive(p) => p \in Held(c)

\* How the fields go together between two methods.
Flags(c) ==
    /\ c.context # None => c.state \in {"stopping", "failed"}
    /\ c.intentional /\ c.process # None => c.context # None
    /\ c.polling => c.context # None
    /\ c.state = "ready" => c.process # None /\ c.session = c.process

\* The rest of TypeOK.
Typed ==
    /\ main \in {"idle", "calls", "freeze", "scan", "kill", "deadline"} /\ round \in 0..Rounds
    /\ app \in {"launching", "running", "gone"} /\ pending \in BOOLEAN
    /\ ui \in {"starting", "ready", "failed"}
    /\ st \in [Process -> {"unborn", "run", "held", "dying", "dead"}]
    /\ running \in [Launch -> BOOLEAN]
    /\ requests \in [Launch -> 0..Requests]

\* The forced part of a shutdown has a context, and what is in seen lives.
BInv ==
    /\ Typed /\ Core(ctl) /\ Flags(ctl)
    /\ main \notin {"idle", "calls"} => ctl.context # None
    /\ seen \subseteq Process /\ \A p \in seen : Alive(p)

------------------------------------------------------------------------------
(* The process tree *)

LEMMA ProcessShape ==
    ASSUME NEW p \in Process
    PROVE  p[1] \in Launch /\ p[2] \in 0..Depth[p[1]] /\ p = <<p[1], p[2]>>
  BY BoundsAssumption DEF Process, Launch

\* What descends from a set belongs to the launches of the set.
LEMMA ExpandFacts ==
    ASSUME NEW S \in SUBSET Process
    PROVE  /\ S \subseteq Expand(S) /\ Expand(S) \in SUBSET Process
           /\ \A p \in Expand(S) : \E q \in S : q[1] = p[1]
           /\ Expand({}) = {}
<1>1. S \subseteq Expand(S) /\ Expand(S) \in SUBSET Process /\ Expand({}) = {}
  BY DEF Expand
<1>2. ASSUME NEW p \in Expand(S) PROVE \E q \in S : q[1] = p[1]
  <2>1. CASE p \in S
    BY <2>1
  <2>2. CASE p \notin S
    <3>1. PICK k \in 0..p[2] : <<p[1], k>> \in S
      BY <2>2 DEF Expand
    <3>2. <<p[1], k>>[1] = p[1]
      OBVIOUS
    <3>3. QED
      BY <3>1, <3>2
  <2>3. QED
    BY <2>1, <2>2
<1>3. QED
  BY <1>1, <1>2

LEMMA IdentitiesFacts ==
    ASSUME NEW n \in Launch
    PROVE  Identities(n) \in SUBSET Process /\ \A p \in Identities(n) : p[1] = n
<1>1. Root(n) \in Process
  BY BoundsAssumption DEF Root, Process, Launch
<1>2. Active({Root(n)}) \in SUBSET Process /\ \A p \in Active({Root(n)}) : p[1] = n
  BY <1>1 DEF Active, Root
<1>3. QED
  BY <1>2, ExpandFacts DEF Identities

------------------------------------------------------------------------------
(* The methods of the controller *)

\* An assignment to state changes state, session and queue.
LEMMA SetStateFacts ==
    ASSUME NEW c, Core(c), NEW s \in States
    PROVE  /\ Core(SetState(c, s))
           /\ SetState(c, s).state = s
           /\ SetState(c, s).process = c.process /\ SetState(c, s).context = c.context
           /\ SetState(c, s).intentional = c.intentional
           /\ SetState(c, s).polling = c.polling /\ SetState(c, s).owned = c.owned
<1>1. c \in Controllers
  BY DEF Core
<1>2. s \notin {"stopped", "stopping"} => Append(c.queue, Notice(s)) \in Seq(Blocks)
  BY <1>1 DEF Controllers, Blocks, Notice, States
<1> DEFINE q == IF s \in {"stopped", "stopping"} THEN c.queue
                ELSE Append(c.queue, Notice(s))
<1>3. q \in Seq(Blocks)
  BY <1>1, <1>2 DEF Controllers
<1>4. SetState(c, s) = [c EXCEPT !.state = s, !.queue = q, !.session = None]
  BY <1>1 DEF SetState, Controllers
<1> HIDE DEF q
<1>5. SetState(c, s) \in Controllers
  BY <1>1, <1>3, <1>4 DEF Controllers
<1>6. /\ SetState(c, s).state = s /\ SetState(c, s).process = c.process
      /\ SetState(c, s).context = c.context
      /\ SetState(c, s).intentional = c.intentional
      /\ SetState(c, s).polling = c.polling /\ SetState(c, s).owned = c.owned
  BY <1>1, <1>4 DEF Controllers
<1>7. QED
  BY <1>5, <1>6 DEF Core, Held

\* Show is an assignment to state, or nothing.
LEMMA ShowFacts ==
    ASSUME NEW c, Core(c), c.context # None, NEW s \in States
    PROVE  /\ Core(Show(c, s))
           /\ Show(c, s).state = (IF c.context.preserve THEN c.state ELSE s)
           /\ Show(c, s).process = c.process /\ Show(c, s).context = c.context
           /\ Show(c, s).intentional = c.intentional
           /\ Show(c, s).polling = c.polling /\ Show(c, s).owned = c.owned
  BY SetStateFacts DEF Show

\* The completions move to the queue.
LEMMA CompleteFacts ==
    ASSUME NEW c, Core(c), NEW ok \in BOOLEAN
    PROVE  LET d == CompleteStopRequests(c, ok)
           IN  /\ Core(d) /\ d.state = c.state /\ d.session = c.session
               /\ d.process = c.process /\ d.context = c.context
               /\ d.intentional = c.intentional /\ d.polling = c.polling
<1>1. c \in Controllers
  BY DEF Core
<1>2. CASE c.completions = <<>>
  BY <1>2 DEF CompleteStopRequests
<1>3. CASE c.completions # <<>>
  <2> DEFINE q == Append(c.queue, Done(c.completions, ok))
  <2>1. q \in Seq(Blocks)
    BY <1>1, <1>3 DEF Controllers, Calls, Blocks, Done
  <2>2. CompleteStopRequests(c, ok) = [c EXCEPT !.queue = q, !.completions = <<>>]
    BY <1>1, <1>3 DEF CompleteStopRequests, Controllers
  <2> HIDE DEF q
  <2>3. [c EXCEPT !.queue = q, !.completions = <<>>] \in Controllers
    <3>1. <<>> \in Calls
      BY DEF Calls
    <3>2. QED
      BY <1>1, <2>1, <3>1 DEF Controllers
  <2>4. QED
    BY <1>1, <2>2, <2>3 DEF Core, Held, Controllers
<1>4. QED
  BY <1>2, <1>3

\* Capturing adds descendants of the launch under control.
LEMMA CaptureFacts ==
    ASSUME NEW c, Core(c)
    PROVE  LET d == CaptureOwnedProcesses(c)
           IN  /\ Core(d) /\ d.state = c.state /\ d.session = c.session
               /\ d.process = c.process /\ d.context = c.context
               /\ d.intentional = c.intentional /\ d.polling = c.polling
<1>1. c \in Controllers
  BY DEF Core
<1>2. CASE c.context # None
  BY <1>2 DEF CaptureOwnedProcesses
<1>3. CASE c.context = None
  <2> DEFINE roots == IF c.process = None THEN {} ELSE Identities(c.process)
             S     == Expand(c.owned \cup roots)
  <2>1. c.owned \cup roots \in SUBSET Process /\ \A p \in c.owned \cup roots : p[1] = c.process
    BY <1>1, IdentitiesFacts DEF Core, Held, Controllers
  <2>2. S \in SUBSET Process /\ c.owned \subseteq S /\ \A p \in S : p[1] = c.process
    BY <2>1, ExpandFacts
  <2>3. c.process = None => S = {}
    BY ExpandFacts DEF Core
  <2>4. CaptureOwnedProcesses(c) = [c EXCEPT !.owned = S]
    BY <1>1, <1>3 DEF CaptureOwnedProcesses, Controllers
  <2> HIDE DEF S
  <2>5. [c EXCEPT !.owned = S] \in Controllers
    BY <1>1, <2>2 DEF Controllers
  <2>6. QED
    BY <1>1, <1>3, <2>2, <2>3, <2>4, <2>5 DEF Core, Held, Controllers
<1>4. QED
  BY <1>2, <1>3

\* Cleaning up is allowed when nothing that is held lives.
LEMMA CleanupFacts ==
    ASSUME NEW c, Core(c), \A p \in Held(c) : ~Alive(p)
    PROVE  LET d == Cleanup(c)
           IN  /\ Core(d) /\ d.state = c.state /\ d.process = None /\ d.context = None
               /\ d.owned = {} /\ d.intentional = c.intentional /\ ~d.polling
<1>1. c \in Controllers
  BY DEF Core
<1>2. Cleanup(c) \in Controllers
  BY <1>1 DEF Cleanup, Controllers
<1>3. /\ Cleanup(c).state = c.state /\ Cleanup(c).process = None
      /\ Cleanup(c).context = None /\ Cleanup(c).owned = {}
      /\ Cleanup(c).intentional = c.intentional /\ ~Cleanup(c).polling
  BY <1>1 DEF Cleanup, Controllers
<1>4. QED
  BY <1>2, <1>3 DEF Core, Held

\* A shutdown is finished when its targets are gone.
LEMMA FinishFacts ==
    ASSUME NEW c, Core(c), c.context # None, c.state \in {"stopping", "failed"},
           Active(c.context.targets) = {}
    PROVE  Core(FinishShutdown(c)) /\ Flags(FinishShutdown(c))
<1> DEFINE d == Show(c, "stopped")
           e == Cleanup(d)
<1>1. /\ Core(d) /\ d.state \in {"stopped", "stopping", "failed"}
      /\ d.context = c.context /\ d.owned = c.owned
  BY ShowFacts DEF States
<1>2. \A p \in Held(d) : ~Alive(p)
  BY <1>1 DEF Core, Held, Active
<1> HIDE DEF d
<1>3. /\ Core(e) /\ e.state \in {"stopped", "stopping", "failed"} /\ e.process = None
      /\ e.context = None /\ ~e.polling
  BY <1>1, <1>2, CleanupFacts
<1> HIDE DEF e
<1>4. FinishShutdown(c) = CompleteStopRequests(e, TRUE)
  BY DEF FinishShutdown, d, e
<1>5. QED
  BY <1>3, <1>4, CompleteFacts DEF Flags

\* A shutdown that begins aims at everything that is owned.
LEMMA BeginFacts ==
    ASSUME NEW c, Core(c), c.context = None, c.process # None, NEW preserve \in BOOLEAN,
           preserve => c.state = "failed"
    PROVE  Core(BeginShutdown(c, preserve)) /\ Flags(BeginShutdown(c, preserve))
<1> DEFINE d == CaptureOwnedProcesses(c)
           x == NewContext(d, preserve)
           e == [d EXCEPT !.tracking = FALSE, !.intentional = TRUE, !.polling = TRUE,
                          !.context = x]
           f == Show(e, "stopping")
<1>1. /\ Core(d) /\ d.state = c.state /\ d.process = c.process /\ d.context = None
  BY CaptureFacts
<1> HIDE DEF d
<1>2. d \in Controllers
  BY <1>1 DEF Core
<1>3. x \in Context /\ x # None /\ x.targets = d.owned /\ x.preserve = preserve
  <2>1. d.owned \in SUBSET Process
    BY <1>2 DEF Controllers
  <2>2. x \in Context
    BY <2>1 DEF NewContext, Context
  <2>3. x.targets = d.owned /\ x.preserve = preserve
    BY DEF NewContext
  <2>4. QED
    BY <2>2, <2>3, NoneAssumption
<1> HIDE DEF x
<1>4. /\ e \in Controllers /\ e.context = x /\ e.owned = d.owned /\ e.state = c.state
      /\ e.process = c.process /\ e.intentional /\ e.polling
  BY <1>1, <1>2, <1>3 DEF Controllers
<1> HIDE DEF e
<1>5. Core(e)
  BY <1>1, <1>3, <1>4 DEF Core, Held
<1>6. /\ Core(f) /\ f.context = x /\ f.owned = d.owned /\ f.state \in {"stopping", "failed"}
      /\ f.process = c.process /\ f.intentional /\ f.polling
  BY <1>3, <1>4, <1>5, ShowFacts DEF States
<1>7. BeginShutdown(c, preserve) = IF Over(f, f.owned) THEN FinishShutdown(f) ELSE f
  BY DEF BeginShutdown, d, e, f, x
<1> HIDE DEF f
<1>8. CASE Over(f, f.owned)
  <2>1. Active(f.context.targets) = {}
    BY <1>3, <1>6, <1>8 DEF Over
  <2>2. QED
    BY <1>3, <1>6, <1>7, <1>8, <2>1, FinishFacts
<1>9. CASE ~Over(f, f.owned)
  BY <1>3, <1>6, <1>7, <1>9 DEF Flags
<1>10. QED
  BY <1>8, <1>9

\* A failure without a shutdown under way begins one, or cleans up.
LEMMA FailFacts ==
    ASSUME NEW c, Core(c), c.context = None
    PROVE  Core(Fail(c)) /\ Flags(Fail(c))
<1> DEFINE a == [c EXCEPT !.startup = FALSE]
           b == SetState(a, "failed")
           d == CaptureOwnedProcesses(b)
<1>1. c \in Controllers
  BY DEF Core
<1>2. Core(a) /\ a.context = None
  BY <1>1 DEF Core, Held, Controllers
<1> HIDE DEF a
<1>3. Core(b) /\ b.context = None /\ b.state = "failed"
  BY <1>2, SetStateFacts DEF States
<1> HIDE DEF b
<1>4. Core(d) /\ d.context = None /\ d.state = "failed"
  BY <1>3, CaptureFacts
<1> HIDE DEF d
<1>5. Fail(c) = IF Over(d, d.owned) THEN Cleanup(d) ELSE BeginShutdown(d, TRUE)
  BY DEF Fail, a, b, d
<1>6. CASE Over(d, d.owned)
  <2>1. \A p \in Held(d) : ~Alive(p)
    BY <1>4, <1>6 DEF Held, Over, Active
  <2>2. QED
    BY <1>4, <1>5, <1>6, <2>1, CleanupFacts DEF Flags
<1>7. CASE ~Over(d, d.owned)
  <2>1. d.process # None
    BY <1>4, <1>7 DEF Core, Over, Active, IsRunning
  <2>2. QED
    BY <1>4, <1>5, <1>7, <2>1, BeginFacts
<1>8. QED
  BY <1>6, <1>7

\* A shutdown under way may learn of more processes of its launch.
LEMMA ContextFacts ==
    ASSUME NEW c, Core(c), c.context # None, NEW d \in Controllers, d.context # None,
           d.process = c.process, d.owned = c.owned,
           c.context.targets \subseteq d.context.targets,
           \A p \in d.context.targets : p[1] = c.process
    PROVE  Core(d)
  BY DEF Core, Held

\* The targets of a shutdown, expanded.
LEMMA TargetFacts ==
    ASSUME NEW c, Core(c), c.context # None
    PROVE  /\ c.context \in Context /\ c.context.targets \in SUBSET Process
           /\ Expand(c.context.targets) \in SUBSET Process
           /\ c.context.targets \subseteq Expand(c.context.targets)
           /\ \A p \in Expand(c.context.targets) : p[1] = c.process
<1>1. c.context \in Context /\ c.context.targets \in SUBSET Process
  BY DEF Core, Controllers, Context
<1>2. \A p \in c.context.targets : p[1] = c.process
  BY DEF Core, Held
<1>3. QED
  BY <1>1, <1>2, ExpandFacts

\* A timeout is reported and gives up no process.
LEMMA ReportFacts ==
    ASSUME NEW c, Core(c), Flags(c), c.context # None
    PROVE  Core(ReportShutdownTimeout(c)) /\ Flags(ReportShutdownTimeout(c))
<1> DEFINE x == [c.context EXCEPT !.reported = TRUE]
           d == [c EXCEPT !.polling = FALSE, !.context = x]
           e == Show(d, "failed")
<1>1. c \in Controllers /\ c.context \in Context /\ \A p \in c.context.targets : p[1] = c.process
  BY TargetFacts DEF Core
<1>2. x \in Context /\ x.targets = c.context.targets /\ x # None
  BY <1>1, NoneAssumption DEF Context
<1>3. [c EXCEPT !.context.reported = TRUE, !.polling = FALSE] = d
  BY <1>1 DEF Controllers, Context
<1> HIDE DEF x
<1>4. /\ d \in Controllers /\ d.context = x /\ d.state = c.state /\ d.process = c.process
      /\ d.owned = c.owned /\ ~d.polling
  BY <1>1, <1>2 DEF Controllers
<1> HIDE DEF d
<1>5. Core(d)
  BY <1>1, <1>2, <1>4, ContextFacts
<1>6. /\ Core(e) /\ e.context # None /\ e.state \in {"stopping", "failed"} /\ ~e.polling
  BY <1>2, <1>4, <1>5, ShowFacts DEF Flags, States
<1> HIDE DEF e
<1>7. ReportShutdownTimeout(c) = CompleteStopRequests(e, FALSE)
  BY <1>3 DEF ReportShutdownTimeout, e
<1>8. QED
  BY <1>6, <1>7, CompleteFacts DEF Flags

\* The first look at a shutdown.
LEMMA EvaluateFacts ==
    ASSUME NEW c, Core(c), Flags(c), c.context # None, EvaluateShutdown(c)
    PROVE  /\ Core(ctl') /\ Flags(ctl')
           /\ main' = main \/ ctl'.context # None
<1> DEFINE T == Expand(c.context.targets)
           x == [c.context EXCEPT !.targets = T]
           d == [c EXCEPT !.context = x]
           y == [x EXCEPT !.forced = TRUE]
           e == [d EXCEPT !.context = y]
<1>1. /\ c \in Controllers /\ c.context \in Context /\ T \in SUBSET Process
      /\ c.context.targets \subseteq T /\ \A p \in T : p[1] = c.process
  BY TargetFacts DEF Core
<1>2. [c EXCEPT !.context.targets = Expand(@)] = d
  BY <1>1 DEF Controllers, Context
<1> HIDE DEF T
<1>3. x \in Context /\ x.targets = T /\ x # None
  BY <1>1, NoneAssumption DEF Context
<1> HIDE DEF x
<1>4. /\ d \in Controllers /\ d.context = x /\ d.state = c.state /\ d.process = c.process
      /\ d.session = c.session /\ d.intentional = c.intentional /\ d.polling = c.polling
      /\ d.owned = c.owned
  BY <1>1, <1>3 DEF Controllers
<1>5. y \in Context /\ y.targets = T /\ y # None
  BY <1>3, NoneAssumption DEF Context
<1>6. [d EXCEPT !.context.forced = TRUE] = e
  BY <1>3, <1>4 DEF Controllers, Context
<1> HIDE DEF d, y
<1>7. Core(d) /\ Flags(d)
  <2>1. Core(d)
    BY <1>1, <1>3, <1>4, ContextFacts
  <2>2. QED
    BY <1>3, <1>4, <2>1 DEF Flags
<1>8. CASE ctl' = FinishShutdown(d) /\ Over(d, d.context.targets) /\ main' = main
  BY <1>3, <1>4, <1>7, <1>8, FinishFacts DEF Flags, Over
<1>9. CASE ctl' = d
  BY <1>3, <1>4, <1>7, <1>9
<1>10. CASE ctl' = e
  <2>1. /\ e \in Controllers /\ e.context = y /\ e.state = d.state /\ e.process = d.process
        /\ e.session = d.session /\ e.owned = d.owned /\ e.polling = d.polling
        /\ e.intentional = d.intentional
    BY <1>4, <1>5 DEF Controllers
  <2> HIDE DEF e
  <2>2. Core(e)
    BY <1>1, <1>3, <1>4, <1>5, <1>7, <2>1, ContextFacts
  <2>3. QED
    BY <1>3, <1>4, <1>5, <1>7, <1>10, <2>1, <2>2 DEF Flags
<1>11. QED
  BY <1>2, <1>6, <1>8, <1>9, <1>10 DEF EvaluateShutdown

\* A second request to stop after a timeout kills at once and waits again.
LEMMA RetryFacts ==
    ASSUME NEW c, Core(c), Flags(c), c.context # None, RetryTimedOutShutdown(c)
    PROVE  Core(ctl') /\ Flags(ctl')
<1> DEFINE T == Expand(c.context.targets)
           x == [c.context EXCEPT !.reported = FALSE, !.forced = TRUE, !.clock = 1,
                                  !.targets = T]
           b == [c EXCEPT !.polling = TRUE, !.context = x]
           d == Show(b, "stopping")
<1>1. /\ c \in Controllers /\ c.context \in Context /\ T \in SUBSET Process
      /\ c.context.targets \subseteq T /\ \A p \in T : p[1] = c.process
  BY TargetFacts DEF Core
<1>2. ctl' = IF Over(d, T) THEN FinishShutdown(d) ELSE d
  BY DEF RetryTimedOutShutdown
<1> HIDE DEF T
<1>3. x \in Context /\ x.targets = T /\ x # None
  <2>1. 1 \in 0..2
    OBVIOUS
  <2>2. x = [c.context EXCEPT !.reported = FALSE, !.forced = TRUE, !.clock = 1, !.targets = T]
    OBVIOUS
  <2> HIDE DEF x
  <2>3. x \in Context /\ x.targets = T
    BY <1>1, <2>1, <2>2 DEF Context
  <2>4. QED
    BY <2>3, NoneAssumption
<1> HIDE DEF x
<1>4. /\ b \in Controllers /\ b.context = x /\ b.state = c.state /\ b.process = c.process
      /\ b.owned = c.owned
  BY <1>1, <1>3 DEF Controllers
<1> HIDE DEF b
<1>5. Core(b)
  BY <1>1, <1>3, <1>4, ContextFacts
<1>6. Core(d) /\ d.context = x /\ d.state \in {"stopping", "failed"}
  BY <1>3, <1>4, <1>5, ShowFacts DEF Flags, States
<1> HIDE DEF d
<1>7. CASE Over(d, T)
  BY <1>2, <1>3, <1>6, <1>7, FinishFacts DEF Over
<1>8. CASE ~Over(d, T)
  BY <1>2, <1>3, <1>6, <1>8 DEF Flags
<1>9. QED
  BY <1>7, <1>8

\* stop() waits for the shutdown under way, begins one, or finds nothing to stop.
LEMMA StopFacts ==
    ASSUME NEW c, Core(c), Flags(c), Stop(c)
    PROVE  Core(ctl') /\ Flags(ctl')
<1> DEFINE d == [c EXCEPT !.startup = FALSE, !.intentional = TRUE]
           e == CaptureOwnedProcesses(d)
<1>1. c \in Controllers
  BY DEF Core
<1>2. /\ Core(d) /\ d.context = c.context /\ d.state = c.state /\ d.process = c.process
      /\ d.polling = c.polling /\ d.session = c.session
  BY <1>1 DEF Core, Held, Controllers
<1>3. d.context # None => Flags(d)
  BY <1>2 DEF Flags
<1>4. \/ d.context # None /\ RetryTimedOutShutdown(d)
      \/ d.context # None /\ ctl' = d
      \/ /\ d.context = None /\ Over(e, e.owned)
         /\ ctl' = CompleteStopRequests(SetState(Cleanup(e), "stopped"), TRUE)
      \/ d.context = None /\ ~Over(e, e.owned) /\ ctl' = BeginShutdown(e, FALSE)
  BY DEF Stop
<1> HIDE DEF d
<1>5. Core(e) /\ e.context = d.context
  BY <1>2, CaptureFacts
<1> HIDE DEF e
<1>6. CASE d.context # None /\ RetryTimedOutShutdown(d)
  BY <1>2, <1>3, <1>6, RetryFacts
<1>7. CASE d.context # None /\ ctl' = d
  BY <1>2, <1>3, <1>7
<1>8. CASE /\ d.context = None /\ Over(e, e.owned)
           /\ ctl' = CompleteStopRequests(SetState(Cleanup(e), "stopped"), TRUE)
  <2>1. \A p \in Held(e) : ~Alive(p)
    BY <1>5, <1>8 DEF Held, Over, Active
  <2>2. LET a == Cleanup(e)
        IN  Core(a) /\ a.process = None /\ a.context = None /\ ~a.polling
    BY <1>5, <2>1, CleanupFacts
  <2>3. LET b == SetState(Cleanup(e), "stopped")
        IN  /\ Core(b) /\ b.process = None /\ b.context = None /\ ~b.polling
            /\ b.state = "stopped"
    BY <2>2, SetStateFacts DEF States
  <2>4. QED
    BY <1>8, <2>3, CompleteFacts DEF Flags
<1>9. CASE d.context = None /\ ~Over(e, e.owned) /\ ctl' = BeginShutdown(e, FALSE)
  <2>1. e.process # None
    BY <1>5, <1>9 DEF Core, Over, Active, IsRunning
  <2>2. QED
    BY <1>5, <1>9, <2>1, BeginFacts
<1>10. QED
  BY <1>4, <1>6, <1>7, <1>8, <1>9

\* start() launches only over an empty field.
LEMMA StartFacts ==
    ASSUME NEW c, Core(c), Flags(c), Start(c)
    PROVE  Core(ctl') /\ Flags(ctl') /\ (ctl' = c \/ c.context = None)
<1> DEFINE a == [c EXCEPT !.intentional = FALSE]
           d == SetState(a, "starting")
<1>1. c \in Controllers
  BY DEF Core
<1>2. /\ Core(a) /\ a.context = c.context /\ a.process = c.process
      /\ a.polling = c.polling /\ ~a.intentional
  BY <1>1 DEF Core, Held, Controllers
<1> HIDE DEF a
<1>3. /\ Core(d) /\ d.context = c.context /\ d.process = c.process /\ d.state = "starting"
      /\ d.polling = c.polling /\ ~d.intentional
  BY <1>2, SetStateFacts DEF States
<1>4. CASE c.process # None /\ ctl' = c
  BY <1>4
<1>5. CASE c.process = None /\ ctl' = Fail(d)
  BY <1>3, <1>5, FailFacts DEF Core
<1>6. ASSUME NEW n \in Launch, c.process = None,
             ctl' = [d EXCEPT !.process = n, !.owned = {Root(n)}, !.tracking = TRUE,
                              !.startup = TRUE, !.late = FALSE]
      PROVE  Core(ctl') /\ Flags(ctl')
  <2>1. Root(n) \in Process /\ Root(n)[1] = n /\ n # None
    BY BoundsAssumption, NoneAssumption DEF Root, Process, Launch
  <2>2. d \in Controllers /\ d.context = None /\ ~d.polling
    BY <1>3, <1>6 DEF Core, Flags
  <2> HIDE DEF d
  <2>3. /\ ctl' \in Controllers /\ ctl'.process = n /\ ctl'.owned = {Root(n)}
        /\ ctl'.context = None /\ ~ctl'.polling /\ ~ctl'.intentional
        /\ ctl'.state = "starting"
    BY <1>3, <1>6, <2>1, <2>2 DEF Controllers
  <2>4. \A p \in seen : ~Alive(p)
    BY <1>6 DEF Core, Held
  <2>5. QED
    BY <2>1, <2>3, <2>4 DEF Core, Held, Flags
<1>7. ctl' = c \/ c.context = None
  BY DEF Start, Core
<1>8. QED
  BY <1>4, <1>5, <1>6, <1>7 DEF Start, d, a

\* What the main queue and the timers carry is no matter of Core and Flags.
LEMMA SameFacts ==
    ASSUME NEW c, Core(c), Flags(c), NEW d \in Controllers,
           d.process = c.process, d.context = c.context, d.owned = c.owned,
           d.state = c.state, d.session = c.session, d.intentional = c.intentional,
           d.polling = c.polling
    PROVE  Core(d) /\ Flags(d)
  BY DEF Core, Held, Flags

------------------------------------------------------------------------------
(* The steps *)

\* What a step has to show, before the history variable is looked at.
Kept ==
    /\ Core(ctl') /\ Flags(ctl')
    /\ main' \notin {"idle", "calls"} => ctl'.context # None

\* What is at the head of the queue.
LEMMA HeadFacts ==
    ASSUME Core(ctl), Flags(ctl), ctl.queue # <<>>
    PROVE  /\ Head(ctl.queue) \in Blocks /\ Tail(ctl.queue) \in Seq(Blocks)
           /\ Core(Dequeue(ctl)) /\ Flags(Dequeue(ctl))
           /\ Dequeue(ctl) = [ctl EXCEPT !.queue = Tail(ctl.queue)]
<1>1. ctl \in Controllers
  BY DEF Core
<1>2. ctl.queue \in Seq(Blocks)
  BY <1>1 DEF Controllers
<1> DEFINE t == Tail(ctl.queue)
           d == [ctl EXCEPT !.queue = t]
<1>3. Head(ctl.queue) \in Blocks /\ t \in Seq(Blocks)
  BY <1>2
<1>4. Dequeue(ctl) = d
  BY <1>1 DEF Dequeue, Controllers
<1> HIDE DEF t
<1>5. /\ d \in Controllers
      /\ d.process = ctl.process /\ d.context = ctl.context /\ d.owned = ctl.owned
      /\ d.state = ctl.state /\ d.session = ctl.session
      /\ d.intentional = ctl.intentional /\ d.polling = ctl.polling
  BY <1>1, <1>3 DEF Controllers
<1> HIDE DEF d
<1>6. Core(d) /\ Flags(d)
  BY <1>5, SameFacts
<1>7. QED
  BY <1>3, <1>4, <1>6 DEF d, t

\* A caller appends its completion and stops.
LEMMA AppendFacts ==
    ASSUME Core(ctl), Flags(ctl), NEW w \in {"restart", "quit"},
           NEW d, d = [ctl EXCEPT !.completions = Append(@, w)]
    PROVE  Core(d) /\ Flags(d)
<1> DEFINE q == Append(ctl.completions, w)
<1>1. ctl \in Controllers
  BY DEF Core
<1>2. q \in Calls
  BY <1>1 DEF Controllers, Calls
<1>3. d = [ctl EXCEPT !.completions = q]
  BY <1>1 DEF Controllers
<1> HIDE DEF q
<1>4. /\ d \in Controllers
      /\ d.process = ctl.process /\ d.context = ctl.context /\ d.owned = ctl.owned
      /\ d.state = ctl.state /\ d.session = ctl.session
      /\ d.intentional = ctl.intentional /\ d.polling = ctl.polling
  BY <1>1, <1>2, <1>3 DEF Controllers
<1>5. QED
  BY <1>4, SameFacts

LEMMA UserKept ==
    ASSUME BInv, UserStep
    PROVE  Kept
<1>1. CASE ApplicationStart
  <2>1. Core(ctl) /\ Flags(ctl) /\ Start(ctl) /\ main' = main
    BY <1>1 DEF ApplicationStart, BInv
  <2>2. Core(ctl') /\ Flags(ctl') /\ (ctl' = ctl \/ ctl.context = None)
    BY <2>1, StartFacts
  <2>3. QED
    BY <2>1, <2>2 DEF Kept, BInv
<1>2. CASE Restart
  <2> DEFINE d == [ctl EXCEPT !.completions = Append(@, "restart")]
  <2>1. Stop(d) /\ main' = "idle"
    BY <1>2 DEF Restart, MainIdle
  <2>2. d = [ctl EXCEPT !.completions = Append(@, "restart")]
    OBVIOUS
  <2> HIDE DEF d
  <2>3. Core(d) /\ Flags(d)
    BY <2>2, AppendFacts DEF BInv
  <2>4. QED
    BY <2>1, <2>3, StopFacts DEF Kept
<1>3. CASE RequestTermination
  <2> DEFINE d == [ctl EXCEPT !.completions = Append(@, "quit")]
  <2>1. Stop(d) /\ main' = "idle"
    BY <1>3 DEF RequestTermination, MainIdle
  <2>2. d = [ctl EXCEPT !.completions = Append(@, "quit")]
    OBVIOUS
  <2> HIDE DEF d
  <2>3. Core(d) /\ Flags(d)
    BY <2>2, AppendFacts DEF BInv
  <2>4. QED
    BY <2>1, <2>3, StopFacts DEF Kept
<1>4. QED
  BY <1>1, <1>2, <1>3 DEF UserStep

\* The completions of a shutdown, one after the other.
LEMMA CallKept ==
    ASSUME BInv, Call
    PROVE  Kept
<1> DEFINE block == Head(ctl.queue)
           rest  == Tail(block.calls)
           last  == rest = <<>>
           q     == IF last THEN Tail(ctl.queue)
                    ELSE <<[block EXCEPT !.calls = rest]>> \o Tail(ctl.queue)
           c     == [ctl EXCEPT !.queue = q]
<1>1. /\ Core(ctl) /\ Flags(ctl) /\ ctl \in Controllers /\ ctl.queue # <<>>
      /\ block.kind = "done"
  BY DEF Call, QueueHead, BInv, Core
<1>2. block \in [kind : {"done"}, calls : Calls \ {<<>>}, ok : BOOLEAN]
  BY <1>1, HeadFacts DEF Blocks
<1>3. q \in Seq(Blocks)
  <2>1. Tail(ctl.queue) \in Seq(Blocks)
    BY <1>1, HeadFacts
  <2>2. CASE last
    BY <2>1, <2>2
  <2>3. CASE ~last
    <3>1. rest \in Calls \ {<<>>}
      BY <1>2, <2>3 DEF Calls
    <3> HIDE DEF rest
    <3>2. [block EXCEPT !.calls = rest] \in Blocks
      BY <1>2, <3>1 DEF Blocks
    <3>3. <<[block EXCEPT !.calls = rest]>> \in Seq(Blocks)
      BY <3>2
    <3>4. QED
      BY <2>1, <2>3, <3>3 DEF rest
  <2>4. QED
    BY <2>2, <2>3
<1>4. c = [ctl EXCEPT !.queue = IF last THEN Tail(@)
                      ELSE <<[block EXCEPT !.calls = rest]>> \o Tail(@)]
  BY <1>1 DEF Controllers
<1>5. /\ main' \in {"idle", "calls"}
      /\ Start(c) \/ Stop(c) \/ ctl' = c
  BY <1>4 DEF Call
<1> HIDE DEF q
<1>6. Core(c) /\ Flags(c)
  <2>1. /\ c \in Controllers
        /\ c.process = ctl.process /\ c.context = ctl.context /\ c.owned = ctl.owned
        /\ c.state = ctl.state /\ c.session = ctl.session
        /\ c.intentional = ctl.intentional /\ c.polling = ctl.polling
    BY <1>1, <1>3 DEF Controllers
  <2> HIDE DEF c
  <2>2. QED
    BY <1>1, <2>1, SameFacts
<1> HIDE DEF c
<1>7. QED
  BY <1>5, <1>6, StartFacts, StopFacts DEF Kept

LEMMA ApplyKept ==
    ASSUME BInv, Apply
    PROVE  Kept
<1>1. ctl.queue # <<>> /\ ctl' = Dequeue(ctl) /\ main' = "idle"
  BY DEF Apply, MainIdle, QueueHead
<1>2. QED
  BY <1>1, HeadFacts DEF Kept, BInv

LEMMA HealthKept ==
    ASSUME BInv, HandleHealthResponse
    PROVE  Kept
<1> DEFINE block == Head(ctl.queue)
           b     == Dequeue(ctl)
           c     == [b EXCEPT !.inFlight = FALSE]
           d     == SetState(c, "ready")
           e     == [d EXCEPT !.startup = FALSE, !.session = block.launch]
<1>1. Core(ctl) /\ Flags(ctl) /\ ctl.queue # <<>> /\ block.kind = "health" /\ main' = "idle"
  BY DEF HandleHealthResponse, MainIdle, QueueHead, BInv
<1>2. block.launch \in Launch /\ Core(b) /\ Flags(b) /\ b \in Controllers
  BY <1>1, HeadFacts DEF Blocks, Core
<1>3. \/ ctl' = c
      \/ c.state = "starting" /\ ctl' = Fail(c)
      \/ c.state = "starting" /\ c.process = block.launch /\ ctl' = e
  BY DEF HandleHealthResponse, AwaitsAnswer
<1> HIDE DEF block, b
<1>4. Core(c) /\ Flags(c)
  <2>1. /\ c \in Controllers
        /\ c.process = b.process /\ c.context = b.context /\ c.owned = b.owned
        /\ c.state = b.state /\ c.session = b.session
        /\ c.intentional = b.intentional /\ c.polling = b.polling
    BY <1>2 DEF Controllers
  <2> HIDE DEF c
  <2>2. QED
    BY <1>2, <2>1, SameFacts
<1> HIDE DEF c
<1>5. c.state = "starting" => c.context = None
  BY <1>4 DEF Flags
<1>6. CASE ctl' = c
  BY <1>1, <1>4, <1>6 DEF Kept
<1>7. CASE c.state = "starting" /\ ctl' = Fail(c)
  BY <1>1, <1>4, <1>5, <1>7, FailFacts DEF Kept
<1>8. CASE c.state = "starting" /\ c.process = block.launch /\ ctl' = e
  <2>1. /\ Core(d) /\ d.state = "ready" /\ d.process = c.process /\ d.context = None
        /\ d.intentional = c.intentional /\ d.polling = c.polling
    BY <1>4, <1>5, <1>8, SetStateFacts DEF States
  <2>2. d \in Controllers
    BY <2>1 DEF Core
  <2> HIDE DEF d
  <2>3. /\ e \in Controllers
        /\ e.process = d.process /\ e.context = d.context /\ e.owned = d.owned
        /\ e.state = d.state /\ e.session = block.launch
        /\ e.intentional = d.intentional /\ e.polling = d.polling
    BY <1>2, <2>2 DEF Controllers
  <2> HIDE DEF e
  <2>4. c.process # None
    BY <1>2, <1>8, NoneAssumption
  <2>5. Core(e)
    BY <2>1, <2>3 DEF Core, Held
  <2>6. Flags(e)
    BY <1>4, <1>5, <1>8, <2>1, <2>3, <2>4 DEF Flags
  <2>7. QED
    BY <1>1, <1>8, <2>5, <2>6 DEF Kept
<1>9. QED
  BY <1>3, <1>6, <1>7, <1>8

LEMMA TerminationKept ==
    ASSUME BInv, HandleTermination
    PROVE  Kept
<1> DEFINE n == Head(ctl.queue).launch
           c == Dequeue(ctl)
           d == [c EXCEPT !.startup = FALSE]
           e == SetState(d, "failed")
           f == CaptureOwnedProcesses(e)
<1>1. /\ Core(ctl) /\ Flags(ctl) /\ ctl.queue # <<>> /\ Head(ctl.queue).kind = "exit"
      /\ main = "idle"
  BY DEF HandleTermination, MainIdle, QueueHead, BInv
<1>2. n \in Launch /\ Core(c) /\ Flags(c) /\ c \in Controllers
  BY <1>1, HeadFacts DEF Blocks, Core
<1>3. \/ ctl' = c /\ main' = main
      \/ c.process = n /\ c.intentional /\ EvaluateShutdown(d)
      \/ c.process = n /\ ctl' = BeginShutdown(f, TRUE) /\ main' = main
  BY DEF HandleTermination
<1> HIDE DEF n, c
<1>4. d.process = c.process /\ d.intentional = c.intentional /\ Core(d) /\ Flags(d)
  <2>1. /\ d \in Controllers
        /\ d.process = c.process /\ d.context = c.context /\ d.owned = c.owned
        /\ d.state = c.state /\ d.session = c.session
        /\ d.intentional = c.intentional /\ d.polling = c.polling
    BY <1>2 DEF Controllers
  <2> HIDE DEF d
  <2>2. QED
    BY <1>2, <2>1, SameFacts
<1> HIDE DEF d
<1>5. CASE ctl' = c /\ main' = main
  BY <1>1, <1>2, <1>5 DEF Kept
<1>6. CASE c.process = n /\ c.intentional /\ EvaluateShutdown(d)
  <2>1. d.context # None
    BY <1>2, <1>4, <1>6, NoneAssumption DEF Flags
  <2>2. QED
    BY <1>1, <1>4, <1>6, <2>1, EvaluateFacts DEF Kept
<1>7. CASE c.process = n /\ ctl' = BeginShutdown(f, TRUE) /\ main' = main
  <2>1. /\ Core(e) /\ e.state = "failed" /\ e.process = d.process
        /\ e.context = d.context /\ e.intentional = d.intentional
        /\ e.polling = d.polling
    BY <1>4, SetStateFacts DEF States
  <2> HIDE DEF e
  <2>2. /\ Core(f) /\ f.state = "failed" /\ f.process = d.process
        /\ f.context = d.context /\ f.intentional = d.intentional
        /\ f.polling = d.polling
    BY <2>1, CaptureFacts
  <2> HIDE DEF f
  <2>3. f.process # None
    BY <1>2, <1>4, <1>7, <2>2, NoneAssumption
  <2>4. CASE f.context = None
    BY <1>1, <1>7, <2>2, <2>3, <2>4, BeginFacts DEF Kept
  <2>5. CASE f.context # None
    <3>1. ctl' = f
      BY <1>7, <2>5 DEF BeginShutdown
    <3>2. Flags(f)
      BY <1>4, <2>2 DEF Flags
    <3>3. QED
      BY <1>1, <1>7, <2>2, <3>1, <3>2 DEF Kept
  <2>6. QED
    BY <2>4, <2>5
<1>8. QED
  BY <1>3, <1>5, <1>6, <1>7

LEMMA QueueKept ==
    ASSUME BInv, QueueStep
    PROVE  Kept
  BY CallKept, ApplyKept, HealthKept, TerminationKept DEF QueueStep

\* The shutdown, in the order of evaluateShutdown.
LEMMA ScanKept ==
    ASSUME BInv, Scan
    PROVE  Kept
<1> DEFINE found == Expand(ctl.context.targets) \ ctl.context.targets
           T == ctl.context.targets \cup found
           x == [ctl.context EXCEPT !.targets = T]
           d == [ctl EXCEPT !.context = x]
<1>1. Core(ctl) /\ Flags(ctl) /\ ctl \in Controllers /\ ctl.context # None
  BY DEF BInv, Scan, Core
<1>2. /\ ctl.context \in Context /\ T \in SUBSET Process /\ ctl.context.targets \subseteq T
      /\ \A p \in T : p[1] = ctl.process
  <2>1. /\ ctl.context \in Context /\ ctl.context.targets \in SUBSET Process
        /\ Expand(ctl.context.targets) \in SUBSET Process
        /\ ctl.context.targets \subseteq Expand(ctl.context.targets)
        /\ \A p \in Expand(ctl.context.targets) : p[1] = ctl.process
    BY <1>1, TargetFacts
  <2>2. QED
    BY <2>1
<1>3. ctl' = ctl \/ ctl' = d
  <2>1. [ctl EXCEPT !.context.targets = @ \cup found] = d
    BY <1>1, <1>2 DEF Controllers, Context
  <2>2. QED
    BY <2>1 DEF Scan
<1> HIDE DEF T
<1>4. x \in Context /\ x.targets = T /\ x # None
  BY <1>2, NoneAssumption DEF Context
<1> HIDE DEF x
<1>5. /\ d \in Controllers /\ d.context = x /\ d.process = ctl.process
      /\ d.owned = ctl.owned /\ d.state = ctl.state /\ d.session = ctl.session
      /\ d.intentional = ctl.intentional /\ d.polling = ctl.polling
  BY <1>1, <1>4 DEF Controllers
<1> HIDE DEF d
<1>6. Core(d)
  BY <1>1, <1>2, <1>4, <1>5, ContextFacts
<1>7. Flags(d)
  BY <1>1, <1>4, <1>5 DEF Flags
<1>8. QED
  BY <1>1, <1>3, <1>4, <1>5, <1>6, <1>7 DEF Kept

LEMMA ShutdownKept ==
    ASSUME BInv, ShutdownStep
    PROVE  Kept
<1>1. Core(ctl) /\ Flags(ctl)
  BY DEF BInv
<1>2. CASE ShutdownPoll
  <2>1. main = "idle" /\ ctl.context # None /\ EvaluateShutdown(ctl)
    BY <1>1, <1>2 DEF ShutdownPoll, MainIdle, Flags
  <2>2. QED
    BY <1>1, <2>1, EvaluateFacts DEF Kept
<1>3. CASE Freeze \/ ForceTerminate
  BY <1>1, <1>3 DEF Freeze, ForceTerminate, BInv, Kept
<1>4. CASE Scan
  BY <1>4, ScanKept
<1>5. CASE Deadline
  <2>1. ctl.context # None /\ main' = "idle"
    BY <1>5 DEF Deadline, BInv
  <2>2. \/ ctl' = ctl
        \/ Over(ctl, ctl.context.targets) /\ ctl' = FinishShutdown(ctl)
        \/ ctl' = ReportShutdownTimeout(ctl)
    BY <1>5 DEF Deadline
  <2>3. CASE Over(ctl, ctl.context.targets) /\ ctl' = FinishShutdown(ctl)
    BY <1>1, <2>1, <2>3, FinishFacts DEF Kept, Flags, Over
  <2>4. CASE ctl' = ReportShutdownTimeout(ctl)
    BY <1>1, <2>1, <2>4, ReportFacts DEF Kept
  <2>5. QED
    BY <1>1, <2>1, <2>2, <2>3, <2>4 DEF Kept
<1>6. QED
  BY <1>2, <1>3, <1>4, <1>5 DEF ShutdownStep

LEMMA PollKept ==
    ASSUME BInv, PollReadiness \/ OwnershipPoll
    PROVE  Kept
<1>1. Core(ctl) /\ Flags(ctl) /\ ctl \in Controllers /\ main' = "idle"
  BY DEF BInv, Core, PollReadiness, OwnershipPoll, MainIdle
<1> DEFINE d == [ctl EXCEPT !.inFlight = TRUE]
           f == CaptureOwnedProcesses(ctl)
<1>2. \/ ctl.state = "starting" /\ ctl' = Fail(ctl)
      \/ ctl' = d
      \/ ctl' = f
  BY DEF PollReadiness, OwnershipPoll
<1>3. CASE ctl.state = "starting" /\ ctl' = Fail(ctl)
  BY <1>1, <1>3, FailFacts DEF Kept, Flags
<1>4. CASE ctl' = d
  <2>1. /\ d \in Controllers
        /\ d.process = ctl.process /\ d.context = ctl.context /\ d.owned = ctl.owned
        /\ d.state = ctl.state /\ d.session = ctl.session
        /\ d.intentional = ctl.intentional /\ d.polling = ctl.polling
    BY <1>1 DEF Controllers
  <2> HIDE DEF d
  <2>2. QED
    BY <1>1, <1>4, <2>1, SameFacts DEF Kept
<1>5. CASE ctl' = f
  <2>1. /\ Core(f) /\ f.state = ctl.state /\ f.session = ctl.session
        /\ f.process = ctl.process /\ f.context = ctl.context
        /\ f.intentional = ctl.intentional /\ f.polling = ctl.polling
    BY <1>1, CaptureFacts
  <2> HIDE DEF f
  <2>2. Flags(f)
    BY <1>1, <2>1 DEF Flags
  <2>3. QED
    BY <1>1, <1>5, <2>1, <2>2 DEF Kept
<1>6. QED
  BY <1>2, <1>3, <1>4, <1>5

LEMMA WorldKept ==
    ASSUME BInv, WorldStep
    PROVE  Kept
<1>1. Core(ctl) /\ Flags(ctl) /\ ctl \in Controllers
  BY DEF BInv, Core
<1>2. CASE StartupDeadline
  <2> DEFINE d == [ctl EXCEPT !.late = TRUE]
  <2>1. ctl' = d /\ main' = "idle"
    BY <1>2 DEF StartupDeadline, MainIdle
  <2>2. /\ d \in Controllers
        /\ d.process = ctl.process /\ d.context = ctl.context /\ d.owned = ctl.owned
        /\ d.state = ctl.state /\ d.session = ctl.session
        /\ d.intentional = ctl.intentional /\ d.polling = ctl.polling
    BY <1>1 DEF Controllers
  <2> HIDE DEF d
  <2>3. QED
    BY <1>1, <2>1, <2>2, SameFacts DEF Kept
<1>3. CASE ShutdownDeadline
  <2> DEFINE t == ctl.context.clock + 1
             x == [ctl.context EXCEPT !.clock = t]
             d == [ctl EXCEPT !.context = x]
  <2>1. ctl.context \in Context /\ ctl.context # None /\ ctl.context.clock < 2 /\ main' = "idle"
    BY <1>1, <1>3, TargetFacts DEF ShutdownDeadline, MainIdle
  <2>2. t \in 0..2
    BY <2>1 DEF Context
  <2>3. ctl' = d
    BY <1>1, <1>3, <2>1 DEF ShutdownDeadline, Controllers, Context
  <2> HIDE DEF t
  <2>4. x \in Context /\ x.targets = ctl.context.targets /\ x # None
    BY <2>1, <2>2, NoneAssumption DEF Context
  <2> HIDE DEF x
  <2>5. /\ d \in Controllers /\ d.context = x /\ d.process = ctl.process
        /\ d.owned = ctl.owned /\ d.state = ctl.state /\ d.session = ctl.session
        /\ d.intentional = ctl.intentional /\ d.polling = ctl.polling
    BY <1>1, <2>4 DEF Controllers
  <2> HIDE DEF d
  <2>6. \A p \in ctl.context.targets : p[1] = ctl.process
    BY <1>1, <2>1 DEF Core, Held
  <2>7. Core(d)
    BY <1>1, <2>1, <2>4, <2>5, <2>6, ContextFacts
  <2>8. Flags(d)
    BY <1>1, <2>1, <2>5, <2>4 DEF Flags
  <2>9. QED
    BY <2>1, <2>3, <2>7, <2>8 DEF Kept
<1>4. ASSUME NEW b \in Blocks, main' = main, ctl' = [ctl EXCEPT !.queue = Append(@, b)]
      PROVE  Kept
  <2> DEFINE q == Append(ctl.queue, b)
             d == [ctl EXCEPT !.queue = q]
  <2>1. q \in Seq(Blocks) /\ ctl' = d
    BY <1>1, <1>4 DEF Controllers
  <2> HIDE DEF q
  <2>2. /\ d \in Controllers
        /\ d.process = ctl.process /\ d.context = ctl.context /\ d.owned = ctl.owned
        /\ d.state = ctl.state /\ d.session = ctl.session
        /\ d.intentional = ctl.intentional /\ d.polling = ctl.polling
    BY <1>1, <2>1 DEF Controllers
  <2> HIDE DEF d
  <2>3. QED
    BY <1>1, <1>4, <2>1, <2>2, SameFacts DEF Kept, BInv
<1>5. ASSUME NEW n \in Launch, Reap(n) PROVE Kept
  <2>1. Exited(n) \in Blocks
    BY DEF Exited, Blocks
  <2>2. main' = main /\ ctl' = [ctl EXCEPT !.queue = Append(@, Exited(n))]
    BY <1>5 DEF Reap
  <2>3. QED
    BY <1>4, <2>1, <2>2
<1>6. ASSUME NEW n \in Launch, NEW a \in {"ok", "bad", "none"}, Respond(n, a) PROVE Kept
  <2>1. Health(n, a) \in Blocks
    BY DEF Health, Blocks
  <2>2. main' = main /\ ctl' = [ctl EXCEPT !.queue = Append(@, Health(n, a))]
    BY <1>6 DEF Respond
  <2>3. QED
    BY <1>4, <2>1, <2>2
<1>7. ASSUME NEW p \in Process, Fork(p) \/ Exit(p) PROVE Kept
  BY <1>1, <1>7 DEF Fork, Exit, BInv, Kept
<1>8. QED
  BY <1>2, <1>3, <1>5, <1>6, <1>7 DEF WorldStep

------------------------------------------------------------------------------
(* The invariant *)

LEMMA StepKept ==
    ASSUME BInv, Step
    PROVE  Kept
  BY UserKept, QueueKept, ShutdownKept, PollKept, WorldKept DEF Step

LEMMA StatusFacts ==
    ASSUME Typed, NEW c
    PROVE  /\ Start(c) => /\ st' \in [Process -> {"unborn", "run", "held", "dying", "dead"}]
                          /\ running' \in [Launch -> BOOLEAN]
           /\ Stop(c) => st' \in [Process -> {"unborn", "run", "held", "dying", "dead"}]
<1>1. ASSUME Start(c)
      PROVE  /\ st' \in [Process -> {"unborn", "run", "held", "dying", "dead"}]
             /\ running' \in [Launch -> BOOLEAN]
  BY <1>1 DEF Start, Typed, processes
<1>2. ASSUME Stop(c)
      PROVE  st' \in [Process -> {"unborn", "run", "held", "dying", "dead"}]
  <2>1. ASSUME NEW S
        PROVE  Killed(S) \in [Process -> {"unborn", "run", "held", "dying", "dead"}]
    BY DEF Killed, Typed
  <2>2. st' = st \/ \E S : st' = Killed(S)
    BY <1>2 DEF Stop, RetryTimedOutShutdown
  <2>3. QED
    BY <2>1, <2>2 DEF Typed
<1>3. QED
  BY <1>1, <1>2

LEMMA TypedKept ==
    ASSUME BInv, Step
    PROVE  Typed'
<1>1. Typed /\ Core(ctl) /\ Flags(ctl)
  BY DEF BInv
<1>2. CASE ApplicationStart
  BY <1>1, <1>2, StatusFacts DEF ApplicationStart, Typed
<1>3. CASE Restart \/ RequestTermination
  BY <1>1, <1>3, StatusFacts DEF Restart, RequestTermination, Typed
<1>4. CASE Call
  <2> DEFINE block == Head(ctl.queue)
             rest  == Tail(block.calls)
             c == [ctl EXCEPT !.queue = IF rest = <<>> THEN Tail(@)
                              ELSE <<[block EXCEPT !.calls = rest]>> \o Tail(@)]
  <2>1. /\ main' \in {"idle", "calls"}
        /\ round' = round /\ ui' = ui /\ requests' = requests
        /\ app' \in {app, "gone"} /\ pending' \in {pending, FALSE}
        /\ \/ Start(c)
           \/ UNCHANGED processes
           \/ Stop(c) /\ running' = running
    BY <1>4 DEF Call
  <2> HIDE DEF c
  <2>2. QED
    BY <1>1, <2>1, StatusFacts DEF Typed, processes
<1>5. CASE Apply
  <2>1. Head(ctl.queue) \in Blocks /\ Head(ctl.queue).kind = "state"
    BY <1>1, <1>5, HeadFacts DEF Apply, QueueHead
  <2>2. ui' \in {"starting", "ready", "failed"}
    BY <1>5, <2>1 DEF Apply, Blocks
  <2>3. QED
    BY <1>1, <1>5, <2>2 DEF Apply, Typed, processes
<1>6. CASE HandleHealthResponse \/ OwnershipPoll \/ StartupDeadline \/ ShutdownDeadline
  BY <1>1, <1>6 DEF HandleHealthResponse, OwnershipPoll, StartupDeadline, ShutdownDeadline,
                    Typed, host, processes
<1>7. CASE HandleTermination \/ ShutdownPoll
  <2>1. /\ main' \in {main, "freeze", "kill"}
        /\ UNCHANGED <<round, host, processes, requests>>
    BY <1>7 DEF HandleTermination, ShutdownPoll, EvaluateShutdown
  <2>2. QED
    BY <1>1, <2>1 DEF Typed, host, processes
<1>8. CASE PollReadiness
  <2>1. /\ UNCHANGED <<main, round, host, processes>>
        /\ \/ requests' = requests
           \/ /\ requests[ctl.process] < Requests
              /\ requests' = [requests EXCEPT ![ctl.process] = @ + 1]
    BY <1>8 DEF PollReadiness
  <2>2. requests' \in [Launch -> 0..Requests]
    BY <1>1, <2>1, BoundsAssumption DEF Typed
  <2>3. QED
    BY <1>1, <2>1, <2>2 DEF Typed, host, processes
<1>9. CASE Freeze \/ ForceTerminate
  BY <1>1, <1>9 DEF Freeze, ForceTerminate, Suspended, Killed, Typed, host
<1>10. CASE Scan
  <2>1. /\ main' \in {"kill", "freeze"}
        /\ round' = 0 \/ (round # Rounds /\ round' = round + 1)
        /\ UNCHANGED <<host, processes, requests>>
    BY <1>10 DEF Scan
  <2>2. round' \in 0..Rounds
    BY <1>1, <2>1, BoundsAssumption DEF Typed
  <2>3. QED
    BY <1>1, <2>1, <2>2 DEF Typed, host, processes
<1>11. CASE Deadline
  BY <1>1, <1>11 DEF Deadline, Typed, host, processes
<1>12. ASSUME NEW n \in Launch, NEW a \in {"ok", "bad", "none"}, Respond(n, a)
       PROVE  Typed'
  <2>1. requests' \in [Launch -> 0..Requests]
    BY <1>1, <1>12, BoundsAssumption DEF Respond, Typed
  <2>2. QED
    BY <1>1, <1>12, <2>1 DEF Respond, Typed, host, processes
<1>13. ASSUME NEW n \in Launch, Reap(n) PROVE Typed'
  BY <1>1, <1>13 DEF Reap, Typed, host
<1>14. ASSUME NEW p \in Process, Fork(p) \/ Exit(p) PROVE Typed'
  BY <1>1, <1>14 DEF Fork, Exit, Typed, host
<1>15. QED
  BY <1>2, <1>3, <1>4, <1>5, <1>6, <1>7, <1>8, <1>9, <1>10, <1>11, <1>12, <1>13, <1>14
     DEF Step, UserStep, QueueStep, ShutdownStep, WorldStep

\* The history variable drops what died, and adds what was captured.
LEMMA NextInvariant ==
    ASSUME BInv, [Next]_vars
    PROVE  BInv'
<1>1. CASE Next
  <2>1. Kept /\ Typed'
    BY <1>1, StepKept, TypedKept DEF Next
  <2>2. seen' = {p \in seen \cup Held(ctl') : Alive(p)'}
    BY <1>1 DEF Next, Remember
  <2>3. ctl' \in Controllers /\ Held(ctl') \in SUBSET Process
    BY <2>1 DEF Kept, Core, Held, Controllers, Context
  <2>4. seen' \subseteq Process /\ (\A p \in seen : Alive(p))'
    BY <2>2, <2>3 DEF BInv
  <2>5. seen \subseteq Held(ctl')
    BY <2>1 DEF Kept, BInv, Core
  <2>6. seen' \subseteq Held(ctl')
    BY <2>2, <2>5
  <2>7. Core(ctl)'
    BY <2>1, <2>3, <2>6 DEF Kept, Core, Held
  <2>8. Flags(ctl)'
    BY <2>1 DEF Kept, Flags
  <2>9. QED
    BY <2>1, <2>4, <2>7, <2>8 DEF BInv, Kept
<1>2. CASE UNCHANGED vars
  BY <1>2 DEF BInv, Typed, Core, Flags, Held, Alive, vars, host, processes
<1>3. QED
  BY <1>1, <1>2

LEMMA InitInvariant ==
    ASSUME Init
    PROVE  BInv
<1>1. <<>> \in Calls /\ <<>> \in Seq(Blocks)
  BY DEF Calls
<1>2. Idle \in Controllers
  BY <1>1 DEF Idle, Controllers, States
<1>3. Core(ctl) /\ Flags(ctl)
  BY <1>2 DEF Init, Core, Flags, Held, Idle
<1>4. Typed
  <2>1. 0 \in 0..Rounds /\ 0 \in 0..Requests
    BY BoundsAssumption
  <2>2. /\ st \in [Process -> {"unborn", "run", "held", "dying", "dead"}]
        /\ running \in [Launch -> BOOLEAN] /\ requests \in [Launch -> 0..Requests]
    BY <2>1 DEF Init
  <2>3. QED
    BY <2>1, <2>2 DEF Init, Typed
<1>5. QED
  BY <1>3, <1>4 DEF BInv, Init

\* What the controller knows of its processes is kept by every step.
THEOREM ControllerInvariant == Spec => []BInv
  BY InitInvariant, NextInvariant, PTL DEF Spec

\* The variables hold what the code's declarations allow.
THEOREM TypeCorrect == Spec => []TypeOK
<1>1. ASSUME BInv PROVE TypeOK
  <2>1. ctl \in Controllers /\ Typed /\ seen \subseteq Process
    BY <1>1 DEF BInv, Core
  <2>2. \A i \in DOMAIN ctl.completions : ctl.completions[i] \in {"restart", "quit"}
    BY <2>1 DEF Controllers, Calls
  <2>3. ASSUME NEW i \in DOMAIN ctl.queue
        PROVE  ctl.queue[i].kind = "done" \/ ctl.queue[i] \in Block
    <3>1. ctl.queue[i] \in Blocks
      BY <2>1 DEF Controllers
    <3>2. QED
      BY <3>1 DEF Blocks, Block, Notice, Exited, Health, States
  <2>4. QED
    BY <2>1, <2>2, <2>3 DEF TypeOK, Typed, Controllers
<1>2. QED
  BY <1>1, ControllerInvariant, PTL

\* No live process that was seen is ever let go.
THEOREM NothingIsForgotten == Spec => []NothingForgotten
<1>1. BInv => NothingForgotten
  BY DEF BInv, Core, NothingForgotten
<1>2. QED
  BY <1>1, ControllerInvariant, PTL

\* Live processes that were seen belong to one launch.
THEOREM OneLaunchAtATime == Spec => []OneLaunch
<1>1. BInv => OneLaunch
  BY DEF BInv, Core, OneLaunch
<1>2. QED
  BY <1>1, ControllerInvariant, PTL

\* A session is offered only for the launch under control.
THEOREM SessionIsCurrent == Spec => []ReadyIsCurrent
<1>1. BInv => ReadyIsCurrent
  BY DEF BInv, Flags, ReadyIsCurrent
<1>2. QED
  BY <1>1, ControllerInvariant, PTL

------------------------------------------------------------------------------
(* The frozen tree *)

\* The rescans of the code (`for _ in 0 ..< 8`) reach the end of every launch's tree.
ShallowTrees == \A n \in Launch : Depth[n] <= Rounds

\* Nothing below a member of T lives outside of T.
Closed(T) ==
    \A p \in Process :
        (\E k \in 0..p[2] : <<p[1], k>> \in T /\ \A i \in k..p[2] : Alive(<<p[1], i>>))
            => p \in T

Frozen(T) == Closed(T) /\ \A p \in T : st[p] # "run"

\* Each rescan that found something added a process of the one launch.
FInv ==
    /\ \A p \in Held(ctl) : st[p] # "unborn"
    /\ main \notin {"freeze", "scan"} => round = 0
    /\ ctl.context # None =>
           /\ main \notin {"idle", "calls"} => ctl.context.forced
           /\ ctl.context.forced /\ main \notin {"freeze", "scan"}
                  => Frozen(ctl.context.targets)
           /\ main = "scan" => \A p \in ctl.context.targets : st[p] # "run"
           /\ main \in {"freeze", "scan"} =>
                  round = 0 \/ Cardinality(ctl.context.targets) >= round + 1

\* From c to d a forced shutdown, if there is one, has kept its targets, and what came
\* to be held lives.
Settled(c, d) ==
    /\ \A p \in Held(d) : p \in Held(c) \/ Alive(p)
    /\ d.context # None /\ d.context.forced
           => /\ c.context # None /\ c.context.forced
              /\ d.context.targets = c.context.targets

LEMMA SettledTwice ==
    ASSUME NEW c, NEW d, NEW e, Settled(c, d), Settled(d, e)
    PROVE  Settled(c, e)
  BY DEF Settled

\* Where neither changed, or both are gone.
LEMMA SettledSame ==
    ASSUME NEW c, NEW d, d.owned = c.owned, d.context = c.context
    PROVE  Settled(c, d)
  BY DEF Settled, Held

LEMMA SettledGone ==
    ASSUME NEW c, NEW d, d.owned = {}, d.context = None
    PROVE  Settled(c, d)
  BY DEF Settled, Held

\* What Expand adds lives, and it finds everything at once.
LEMMA ExpandLives ==
    ASSUME NEW S \in SUBSET Process
    PROVE  /\ \A p \in Expand(S) : p \in S \/ Alive(p)
           /\ Closed(Expand(S))
           /\ Closed(S) <=> Expand(S) = S
<1>1. ASSUME NEW p \in Expand(S) PROVE p \in S \/ Alive(p)
  <2>1. SUFFICES ASSUME p \notin S PROVE Alive(p)
    OBVIOUS
  <2>2. p \in Process /\ \E k \in 0..p[2] : \A i \in k..p[2] : Alive(<<p[1], i>>)
    BY <2>1 DEF Expand
  <2>3. p[2] \in Nat /\ p = <<p[1], p[2]>>
    BY <2>2, ProcessShape, BoundsAssumption
  <2>4. QED
    BY <2>2, <2>3
<1>2. Closed(Expand(S))
  <2>1. SUFFICES ASSUME NEW p \in Process, NEW k \in 0..p[2], <<p[1], k>> \in Expand(S),
                        \A i \in k..p[2] : Alive(<<p[1], i>>)
                 PROVE  p \in Expand(S)
    BY DEF Closed
  <2>2. p[2] \in Nat
    BY ProcessShape, BoundsAssumption
  <2>3. CASE <<p[1], k>> \in S
    BY <2>1, <2>3 DEF Expand
  <2>4. CASE <<p[1], k>> \notin S
    <3>1. PICK j \in 0..k : /\ <<p[1], j>> \in S
                            /\ \A i \in j..k : Alive(<<p[1], i>>)
      BY <2>1, <2>4 DEF Expand
    <3>2. \A i \in j..p[2] : Alive(<<p[1], i>>)
      BY <2>1, <2>2, <3>1
    <3>3. j \in 0..p[2]
      BY <2>2, <3>1
    <3>4. QED
      BY <3>1, <3>2, <3>3 DEF Expand
  <2>5. QED
    BY <2>3, <2>4
<1>3. Closed(S) <=> Expand(S) = S
  BY DEF Closed, Expand
<1>4. QED
  BY <1>1, <1>2, <1>3

\* T is frozen after the step.
FrozenNext(T) ==
    /\ \A p \in Process :
          (\E k \in 0..p[2] : <<p[1], k>> \in T /\ \A i \in k..p[2] : Alive(<<p[1], i>>)')
              => p \in T
    /\ \A p \in T : st'[p] # "run"

LEMMA TargetsFrozen ==
    ASSUME NEW T, FrozenNext(T), ctl'.context.targets = T
    PROVE  Frozen(ctl.context.targets)'
  BY DEF FrozenNext, Frozen, Closed

\* Signals and deaths leave a closed set closed: they bring nobody to life.
LEMMA FrozenStays ==
    ASSUME NEW T \in SUBSET Process, Closed(T), \A p \in T : st'[p] # "run",
           \A p \in Process : Alive(p)' => Alive(p)
    PROVE  FrozenNext(T)
<1>1. SUFFICES ASSUME NEW p \in Process, NEW k \in 0..p[2], <<p[1], k>> \in T,
                      \A i \in k..p[2] : Alive(<<p[1], i>>)'
               PROVE  p \in T
  BY DEF FrozenNext
<1>2. ASSUME NEW i \in k..p[2] PROVE <<p[1], i>> \in Process
  <2>1. p[1] \in Launch /\ p[2] \in 0..Depth[p[1]] /\ Depth[p[1]] \in Nat
    BY ProcessShape, BoundsAssumption DEF Launch
  <2>2. i \in 0..Depth[p[1]]
    BY <2>1
  <2>3. QED
    BY <2>1, <2>2 DEF Process
<1>3. \A i \in k..p[2] : Alive(<<p[1], i>>)
  BY <1>1, <1>2
<1>4. QED
  BY <1>1, <1>3 DEF Closed

------------------------------------------------------------------------------
(* The methods, between two looks at the processes *)

LEMMA SetStateSame ==
    ASSUME NEW c \in Controllers, NEW s \in States
    PROVE  LET d == SetState(c, s)
           IN  d \in Controllers /\ d.context = c.context /\ d.owned = c.owned
<1> DEFINE q == IF s \in {"stopped", "stopping"} THEN c.queue
                ELSE Append(c.queue, Notice(s))
<1>1. q \in Seq(Blocks)
  BY DEF Controllers, Blocks, Notice, States
<1>2. SetState(c, s) = [c EXCEPT !.state = s, !.queue = q, !.session = None]
  BY DEF SetState, Controllers
<1> HIDE DEF q
<1>3. QED
  BY <1>1, <1>2 DEF Controllers

LEMMA ShowSame ==
    ASSUME NEW c \in Controllers, NEW s \in States
    PROVE  LET d == Show(c, s)
           IN  d \in Controllers /\ d.context = c.context /\ d.owned = c.owned
  BY SetStateSame DEF Show

LEMMA CompleteSame ==
    ASSUME NEW c \in Controllers, NEW ok \in BOOLEAN
    PROVE  LET d == CompleteStopRequests(c, ok)
           IN  d.context = c.context /\ d.owned = c.owned
<1>1. CASE c.completions = <<>>
  BY <1>1 DEF CompleteStopRequests
<1>2. CASE c.completions # <<>>
  <2> DEFINE q == Append(c.queue, Done(c.completions, ok))
  <2>1. CompleteStopRequests(c, ok) = [c EXCEPT !.queue = q, !.completions = <<>>]
    BY <1>2 DEF CompleteStopRequests, Controllers
  <2> HIDE DEF q
  <2>2. QED
    BY <2>1 DEF Controllers
<1>3. QED
  BY <1>1, <1>2

LEMMA CleanupSame ==
    ASSUME NEW c \in Controllers
    PROVE  LET d == Cleanup(c)
           IN  d \in Controllers /\ d.context = None /\ d.owned = {}
  BY DEF Cleanup, Controllers

LEMMA FinishSame ==
    ASSUME NEW c \in Controllers
    PROVE  FinishShutdown(c).context = None /\ FinishShutdown(c).owned = {}
<1>1. Cleanup(Show(c, "stopped")) \in Controllers
  BY ShowSame, CleanupSame DEF States
<1>2. QED
  BY <1>1, ShowSame, CleanupSame, CompleteSame DEF FinishShutdown, States

LEMMA CaptureSettles ==
    ASSUME NEW c \in Controllers
    PROVE  LET d == CaptureOwnedProcesses(c)
           IN  d \in Controllers /\ d.context = c.context /\ Settled(c, d)
<1>1. CASE c.context # None
  BY <1>1, SettledSame DEF CaptureOwnedProcesses
<1>2. CASE c.context = None
  <2> DEFINE roots == IF c.process = None THEN {} ELSE Identities(c.process)
             S     == Expand(c.owned \cup roots)
  <2>1. c.owned \in SUBSET Process
    BY DEF Controllers
  <2>2. roots \in SUBSET Process /\ \A p \in roots : Alive(p)
    <3>1. ASSUME NEW n \in Launch
          PROVE  Identities(n) \in SUBSET Process /\ \A p \in Identities(n) : Alive(p)
      <4>1. Active({Root(n)}) \in SUBSET Process /\ \A p \in Active({Root(n)}) : Alive(p)
        BY BoundsAssumption DEF Root, Process, Launch, Active
      <4>2. QED
        BY <4>1, IdentitiesFacts, ExpandLives DEF Identities
    <3>2. QED
      BY <3>1 DEF Controllers
  <2> HIDE DEF roots
  <2>3. S \in SUBSET Process /\ \A p \in S : p \in c.owned \/ Alive(p)
    BY <2>1, <2>2, ExpandLives, ExpandFacts
  <2>4. CaptureOwnedProcesses(c) = [c EXCEPT !.owned = S]
    BY <1>2 DEF CaptureOwnedProcesses, Controllers, roots
  <2> HIDE DEF S
  <2>5. LET d == [c EXCEPT !.owned = S]
        IN  d \in Controllers /\ d.owned = S /\ d.context = None
    BY <2>3, <1>2 DEF Controllers
  <2>6. QED
    BY <2>3, <2>4, <2>5, <1>2 DEF Settled, Held
<1>3. QED
  BY <1>1, <1>2

\* A shutdown that begins is not forced yet.
LEMMA BeginSettles ==
    ASSUME NEW c \in Controllers, NEW preserve \in BOOLEAN
    PROVE  Settled(c, BeginShutdown(c, preserve))
<1>1. CASE c.context # None
  BY <1>1, SettledSame DEF BeginShutdown
<1>2. CASE c.context = None
  <2> DEFINE d == CaptureOwnedProcesses(c)
             x == NewContext(d, preserve)
             e == [d EXCEPT !.tracking = FALSE, !.intentional = TRUE, !.polling = TRUE,
                            !.context = x]
             f == Show(e, "stopping")
  <2>1. BeginShutdown(c, preserve) = IF Over(f, f.owned) THEN FinishShutdown(f) ELSE f
    BY <1>2 DEF BeginShutdown
  <2>2. d \in Controllers /\ d.context = None /\ Settled(c, d) /\ d.owned \in SUBSET Process
    <3>1. d \in Controllers /\ d.context = None /\ Settled(c, d)
      BY <1>2, CaptureSettles
    <3>2. QED
      BY <3>1 DEF Controllers
  <2> HIDE DEF d
  <2>3. x \in Context /\ x # None /\ x.targets = d.owned /\ ~x.forced
    <3>1. x \in Context
      BY <2>2 DEF NewContext, Context
    <3>2. x.targets = d.owned /\ ~x.forced
      BY DEF NewContext
    <3>3. QED
      BY <3>1, <3>2, NoneAssumption
  <2> HIDE DEF x
  <2>4. e \in Controllers /\ e.context = x /\ e.owned = d.owned
    BY <2>2, <2>3 DEF Controllers
  <2> HIDE DEF e
  <2>5. f \in Controllers /\ f.context = x /\ f.owned = d.owned
    BY <2>4, ShowSame DEF States
  <2> HIDE DEF f
  <2>6. Settled(c, f)
    BY <1>2, <2>2, <2>3, <2>5 DEF Settled, Held
  <2>7. QED
    BY <2>1, <2>5, <2>6, FinishSame, SettledGone
<1>3. QED
  BY <1>1, <1>2

LEMMA FailSettles ==
    ASSUME NEW c \in Controllers
    PROVE  Settled(c, Fail(c))
<1> DEFINE a == [c EXCEPT !.startup = FALSE]
           b == SetState(a, "failed")
           d == CaptureOwnedProcesses(b)
<1>1. Fail(c) = IF Over(d, d.owned) THEN Cleanup(d) ELSE BeginShutdown(d, TRUE)
  BY DEF Fail
<1>2. a \in Controllers /\ a.context = c.context /\ a.owned = c.owned
  BY DEF Controllers
<1> HIDE DEF a
<1>3. b \in Controllers /\ b.context = c.context /\ b.owned = c.owned
  BY <1>2, SetStateSame DEF States
<1> HIDE DEF b
<1>4. d \in Controllers /\ Settled(c, d)
  BY <1>3, SettledSame, SettledTwice, CaptureSettles
<1> HIDE DEF d
<1>5. Settled(d, Cleanup(d)) /\ Settled(d, BeginShutdown(d, TRUE))
  BY <1>4, CleanupSame, SettledGone, BeginSettles
<1>6. QED
  BY <1>1, <1>4, <1>5, SettledTwice

LEMMA ReportSettles ==
    ASSUME NEW c \in Controllers, c.context # None
    PROVE  Settled(c, ReportShutdownTimeout(c))
<1> DEFINE x == [c.context EXCEPT !.reported = TRUE]
           d == [c EXCEPT !.polling = FALSE, !.context = x]
           e == Show(d, "failed")
<1>1. c.context \in Context
  BY DEF Controllers
<1>2. x \in Context /\ x.targets = c.context.targets /\ x.forced = c.context.forced
  BY <1>1 DEF Context
<1>3. [c EXCEPT !.context.reported = TRUE, !.polling = FALSE] = d
  BY <1>1 DEF Controllers, Context
<1> HIDE DEF x
<1>4. d \in Controllers /\ d.context = x /\ d.owned = c.owned
  BY <1>2 DEF Controllers
<1> HIDE DEF d
<1>5. e \in Controllers /\ e.context = x /\ e.owned = c.owned
  BY <1>4, ShowSame DEF States
<1>6. ReportShutdownTimeout(c) = CompleteStopRequests(e, FALSE)
  BY <1>3 DEF ReportShutdownTimeout
<1> HIDE DEF e
<1>7. LET f == CompleteStopRequests(e, FALSE)
      IN  f.context = x /\ f.owned = c.owned
  BY <1>5, CompleteSame
<1>8. QED
  BY <1>2, <1>6, <1>7 DEF Settled, Held

------------------------------------------------------------------------------
(* The steps, and the frozen tree *)

LEMMA FrozenUnmoved ==
    ASSUME NEW T, Frozen(T), st' = st
    PROVE  FrozenNext(T)
  BY DEF FrozenNext, Frozen, Closed, Alive

\* A step that signals no process, outside of the forced part.
LEMMA QuietStep ==
    ASSUME FInv, main \notin {"freeze", "scan"}, Settled(ctl, ctl'), st' = st,
           main' \in {"idle", "calls"}, round' = round
    PROVE  FInv'
<1>1. \A p \in Held(ctl') : st'[p] # "unborn"
  BY DEF FInv, Settled, Alive
<1>2. ASSUME ctl'.context # None, ctl'.context.forced
      PROVE  Frozen(ctl.context.targets)'
  <2>1. ctl'.context.targets = ctl.context.targets /\ Frozen(ctl.context.targets)
    BY <1>2 DEF FInv, Settled
  <2>2. QED
    BY <2>1, FrozenUnmoved, TargetsFrozen
<1>3. QED
  BY <1>1, <1>2 DEF FInv, Held

\* A retry kills what it finds, so that nothing of it can fork.
LEMMA RetryFreezes ==
    ASSUME Typed, FInv, NEW c \in Controllers, c.context # None,
           c.context = ctl.context, c.owned = ctl.owned,
           main \in {"idle", "calls"}, main' \in {"idle", "calls"}, round' = round,
           RetryTimedOutShutdown(c)
    PROVE  FInv'
<1> DEFINE T == Expand(c.context.targets)
           x == [c.context EXCEPT !.reported = FALSE, !.forced = TRUE, !.clock = 1,
                                  !.targets = T]
           b == [c EXCEPT !.polling = TRUE, !.context = x]
           d == Show(b, "stopping")
<1>1. c.context \in Context /\ c.context.targets \in SUBSET Process /\ c.owned \in SUBSET Process
  BY DEF Controllers, Context
<1>2. /\ T \in SUBSET Process /\ Closed(T)
      /\ \A p \in T : p \in c.context.targets \/ Alive(p)
  BY <1>1, ExpandFacts, ExpandLives
<1>3. /\ ctl' = IF Over(d, T) THEN FinishShutdown(d) ELSE d
      /\ st' = Killed(T)
  BY DEF RetryTimedOutShutdown
<1> HIDE DEF T
<1>4. x \in Context /\ x.targets = T
  <2>1. 1 \in 0..2
    OBVIOUS
  <2>2. x = [c.context EXCEPT !.reported = FALSE, !.forced = TRUE, !.clock = 1, !.targets = T]
    OBVIOUS
  <2> HIDE DEF x
  <2>3. QED
    BY <1>1, <1>2, <2>1, <2>2 DEF Context
<1> HIDE DEF x
<1>5. b \in Controllers /\ b.context = x /\ b.owned = c.owned
  BY <1>4 DEF Controllers
<1> HIDE DEF b
<1>6. d \in Controllers /\ d.context = x /\ d.owned = c.owned
  BY <1>5, ShowSame DEF States
<1> HIDE DEF d
<1>7. /\ \A p \in Process : Alive(p)' => Alive(p)
      /\ \A p \in Process : st[p] # "unborn" => st'[p] # "unborn"
      /\ \A p \in T : st'[p] # "run"
  BY <1>2, <1>3 DEF Killed, Alive, Typed
<1>8. FrozenNext(T)
  BY <1>2, <1>7, FrozenStays
<1>9. \A p \in c.owned \cup T : st'[p] # "unborn"
  BY <1>1, <1>2, <1>7 DEF FInv, Held, Alive
<1>10. round' = 0
  BY DEF FInv
<1>11. CASE ctl' = FinishShutdown(d)
  BY <1>6, <1>10, <1>11, FinishSame DEF FInv, Held
<1>12. CASE ctl' = d
  <2>1. Frozen(ctl.context.targets)'
    BY <1>4, <1>6, <1>8, <1>12, TargetsFrozen
  <2>2. QED
    BY <1>4, <1>6, <1>9, <1>10, <1>12, <2>1 DEF FInv, Held
<1>13. QED
  BY <1>3, <1>11, <1>12

LEMMA StopFrozen ==
    ASSUME Typed, FInv, NEW c \in Controllers, c.context = ctl.context, c.owned = ctl.owned,
           main \in {"idle", "calls"}, main' \in {"idle", "calls"}, round' = round,
           Stop(c)
    PROVE  FInv'
<1> DEFINE d == [c EXCEPT !.startup = FALSE, !.intentional = TRUE]
           e == CaptureOwnedProcesses(d)
<1>1. \/ d.context # None /\ RetryTimedOutShutdown(d)
      \/ ctl' = d /\ st' = st
      \/ ctl' = CompleteStopRequests(SetState(Cleanup(e), "stopped"), TRUE) /\ st' = st
      \/ ctl' = BeginShutdown(e, FALSE) /\ st' = st
  BY DEF Stop
<1>2. d \in Controllers /\ d.context = ctl.context /\ d.owned = ctl.owned
  BY DEF Controllers
<1> HIDE DEF d
<1>3. e \in Controllers /\ Settled(ctl, d) /\ Settled(d, e)
  BY <1>2, CaptureSettles, SettledSame
<1> HIDE DEF e
<1>4. Settled(ctl, e)
  BY <1>3, SettledTwice
<1>5. Settled(e, BeginShutdown(e, FALSE))
  BY <1>3, BeginSettles
<1>6. LET f == CompleteStopRequests(SetState(Cleanup(e), "stopped"), TRUE)
      IN  f.context = None /\ f.owned = {}
  <2>1. LET f == SetState(Cleanup(e), "stopped")
        IN  f \in Controllers /\ f.context = None /\ f.owned = {}
    BY <1>3, CleanupSame, SetStateSame DEF States
  <2>2. QED
    BY <2>1, CompleteSame
<1>7. CASE d.context # None /\ RetryTimedOutShutdown(d)
  BY <1>2, <1>7, RetryFreezes
<1>8. CASE st' = st /\ Settled(ctl, ctl')
  BY <1>8, QuietStep
<1>9. QED
  BY <1>1, <1>3, <1>4, <1>5, <1>6, <1>7, <1>8, SettledTwice, SettledGone

\* A launch begins without a shutdown under way.
LEMMA StartFrozen ==
    ASSUME Typed, FInv, NEW c \in Controllers, c.context = ctl.context, c.owned = ctl.owned,
           c.process = None => c.context = None,
           main \in {"idle", "calls"}, main' \in {"idle", "calls"}, round' = round,
           Start(c)
    PROVE  FInv'
<1> DEFINE a == [c EXCEPT !.intentional = FALSE]
           d == SetState(a, "starting")
<1>1. a \in Controllers /\ a.context = ctl.context /\ a.owned = ctl.owned
  BY DEF Controllers
<1> HIDE DEF a
<1>2. d \in Controllers /\ d.context = ctl.context /\ d.owned = ctl.owned
  BY <1>1, SetStateSame DEF States
<1>3. \/ ctl' = c /\ st' = st
      \/ ctl' = Fail(d) /\ st' = st
      \/ \E n \in Launch :
             /\ c.process = None
             /\ st' = [st EXCEPT ![Root(n)] = "run"]
             /\ ctl' = [d EXCEPT !.process = n, !.owned = {Root(n)}, !.tracking = TRUE,
                                 !.startup = TRUE, !.late = FALSE]
  BY DEF Start, processes, a, d
<1> HIDE DEF d
<1>4. CASE ctl' = c /\ st' = st
  BY <1>4, SettledSame, QuietStep
<1>5. CASE ctl' = Fail(d) /\ st' = st
  <2>1. Settled(ctl, d) /\ Settled(d, Fail(d))
    BY <1>2, SettledSame, FailSettles
  <2>2. Settled(ctl, ctl')
    BY <1>5, <2>1, SettledTwice
  <2>3. QED
    BY <1>5, <2>2, QuietStep
<1>6. ASSUME NEW n \in Launch, c.process = None, st' = [st EXCEPT ![Root(n)] = "run"],
             ctl' = [d EXCEPT !.process = n, !.owned = {Root(n)}, !.tracking = TRUE,
                              !.startup = TRUE, !.late = FALSE]
      PROVE  FInv'
  <2>1. ctl'.context = None /\ ctl'.owned = {Root(n)}
    BY <1>2, <1>6 DEF Controllers
  <2>2. Root(n) \in Process
    BY BoundsAssumption DEF Root, Process, Launch
  <2>3. st'[Root(n)] = "run"
    BY <1>6, <2>2 DEF Typed
  <2>4. QED
    BY <2>1, <2>3 DEF FInv, Held
<1>7. QED
  BY <1>3, <1>4, <1>5, <1>6

\* The first look adds to the targets of a forced shutdown nothing.
LEMMA EvaluateFrozen ==
    ASSUME FInv, NEW c \in Controllers, c.context # None,
           c.context = ctl.context, c.owned = ctl.owned, main = "idle", round' = round, st' = st,
           EvaluateShutdown(c)
    PROVE  FInv'
<1> DEFINE T == Expand(c.context.targets)
           x == [c.context EXCEPT !.targets = T]
           d == [c EXCEPT !.context = x]
           y == [x EXCEPT !.forced = TRUE]
           e == [d EXCEPT !.context = y]
<1>1. c.context \in Context /\ c.context.targets \in SUBSET Process
  BY DEF Controllers, Context
<1>2. /\ T \in SUBSET Process /\ Closed(T)
      /\ \A p \in T : p \in c.context.targets \/ Alive(p)
      /\ c.context.forced => T = c.context.targets
  <2>1. /\ T \in SUBSET Process /\ Closed(T)
        /\ \A p \in T : p \in c.context.targets \/ Alive(p)
        /\ Closed(c.context.targets) => T = c.context.targets
    BY <1>1, ExpandFacts, ExpandLives
  <2>2. QED
    BY <2>1 DEF FInv, Frozen
<1>3. [c EXCEPT !.context.targets = Expand(@)] = d
  BY <1>1 DEF Controllers, Context
<1> HIDE DEF T
<1>4. x \in Context /\ x.targets = T /\ x.forced = c.context.forced
  BY <1>1, <1>2 DEF Context
<1> HIDE DEF x
<1>5. y \in Context /\ y.targets = T /\ y.forced
  BY <1>4 DEF Context
<1>6. d \in Controllers /\ d.context = x /\ d.owned = c.owned
  BY <1>4 DEF Controllers
<1>7. [d EXCEPT !.context.forced = TRUE] = e
  BY <1>4, <1>6 DEF Controllers, Context
<1> HIDE DEF d, y
<1>8. e.context = y /\ e.owned = c.owned
  BY <1>6 DEF Controllers
<1>9. \/ ctl' = FinishShutdown(d) /\ main' = main
      \/ ctl' = d /\ main' = main
      \/ ctl' = e /\ main' = "freeze"
      \/ ctl' = d /\ main' = "kill" /\ d.context.forced
  BY <1>3, <1>7 DEF EvaluateShutdown
<1> HIDE DEF e
<1>10. Settled(ctl, d)
  BY <1>2, <1>4, <1>6 DEF Settled, Held
<1>11. CASE ctl' = FinishShutdown(d) /\ main' = main
  BY <1>6, <1>11, FinishSame, SettledGone, QuietStep
<1>12. CASE ctl' = d /\ main' = main
  BY <1>10, <1>12, QuietStep
<1>13. /\ \A p \in c.owned \cup T : st'[p] # "unborn"
       /\ round' = 0
  BY <1>1, <1>2 DEF FInv, Held, Alive
<1>14. CASE ctl' = e /\ main' = "freeze"
  BY <1>5, <1>8, <1>13, <1>14 DEF FInv, Held
<1>15. CASE ctl' = d /\ main' = "kill" /\ d.context.forced
  <2>1. Frozen(T)
    BY <1>2, <1>4, <1>6, <1>15 DEF FInv
  <2>2. Frozen(ctl.context.targets)'
    BY <1>4, <1>6, <1>15, <2>1, FrozenUnmoved, TargetsFrozen
  <2>3. QED
    BY <1>4, <1>6, <1>13, <1>15, <2>2 DEF FInv, Held
<1>16. QED
  BY <1>9, <1>11, <1>12, <1>14, <1>15

LEMMA FreezeFrozen ==
    ASSUME Typed, Core(ctl), FInv, Freeze
    PROVE  FInv'
<1>1. /\ main' = "scan" /\ main = "freeze" /\ UNCHANGED <<ctl, round>>
      /\ st' = Suspended(ctl.context.targets)
  BY DEF Freeze
<1>2. Held(ctl) \in SUBSET Process
  BY DEF Core, Controllers, Context, Held
<1>3. \A p \in Held(ctl) : st'[p] # "unborn"
  BY <1>1, <1>2 DEF FInv, Suspended
<1>4. ctl.context # None => \A p \in ctl.context.targets : st'[p] # "run"
  BY <1>1, <1>2 DEF Held, Suspended
<1>5. QED
  BY <1>1, <1>3, <1>4 DEF FInv, Held

\* A launch has no more processes than the rescans can find.
LEMMA TreeIsShallow ==
    ASSUME ShallowTrees, NEW n \in Launch, NEW T \in SUBSET Process, \A p \in T : p[1] = n
    PROVE  IsFiniteSet(T) /\ Cardinality(T) \in Nat /\ Cardinality(T) <= Rounds + 1
<1> DEFINE L == {n} \X (0..Depth[n])
<1>1. Depth[n] \in Nat /\ Depth[n] <= Rounds /\ Rounds \in Nat
  BY BoundsAssumption DEF Launch, ShallowTrees
<1>2. T \subseteq L
  <2>1. ASSUME NEW p \in T PROVE p \in L
    <3>1. p[1] = n /\ p[2] \in 0..Depth[p[1]] /\ p = <<p[1], p[2]>>
      BY ProcessShape
    <3>2. QED
      BY <3>1
  <2>2. QED
    BY <2>1
<1>3. IsFiniteSet(0..Depth[n]) /\ Cardinality(0..Depth[n]) = Depth[n] + 1
  <2>1. 0 \in Int /\ Depth[n] \in Int /\ ~(0 > Depth[n]) /\ Depth[n] - 0 + 1 = Depth[n] + 1
    BY <1>1
  <2>2. QED
    BY <2>1, FS_Interval
<1>4. IsFiniteSet({n}) /\ Cardinality({n}) = 1
  BY FS_Singleton
<1>5. IsFiniteSet(L) /\ Cardinality(L) = Depth[n] + 1
  <2>1. IsFiniteSet(L) /\ Cardinality(L) = Cardinality({n}) * Cardinality(0..Depth[n])
    BY <1>3, <1>4, FS_Product
  <2>2. QED
    BY <1>1, <1>3, <1>4, <2>1
<1>6. IsFiniteSet(T) /\ Cardinality(T) <= Cardinality(L)
  BY <1>2, <1>5, FS_Subset
<1>7. Cardinality(T) \in Nat
  BY <1>6, FS_CardinalityType
<1>8. QED
  BY <1>1, <1>5, <1>6, <1>7

LEMMA ScanFrozen ==
    ASSUME ShallowTrees, Typed, Core(ctl), ctl.context # None, FInv, Scan
    PROVE  FInv'
<1> DEFINE T == ctl.context.targets
           found == Expand(T) \ T
           x == [ctl.context EXCEPT !.targets = T \cup found]
           d == [ctl EXCEPT !.context = x]
<1>1. /\ ctl \in Controllers /\ ctl.context \in Context /\ T \in SUBSET Process
      /\ Expand(T) \in SUBSET Process /\ T \subseteq Expand(T)
      /\ \A p \in Expand(T) : p[1] = ctl.process
  BY TargetFacts DEF Core
<1>2. main = "scan" /\ st' = st
  BY DEF Scan, processes
<1>3. CASE found = {} /\ main' = "kill" /\ round' = 0 /\ ctl' = ctl
  <2>1. Expand(T) = T
    BY <1>1, <1>3
  <2>2. Frozen(T)
    BY <1>1, <1>2, <2>1, ExpandLives DEF FInv, Frozen
  <2>3. Frozen(ctl.context.targets)'
    BY <1>2, <1>3, <2>2, FrozenUnmoved, TargetsFrozen
  <2>4. QED
    BY <1>2, <1>3, <2>3 DEF FInv, Held
<1>4. ASSUME found # {}
      PROVE  /\ Cardinality(T) \in Nat /\ Cardinality(T \cup found) \in Nat
             /\ Cardinality(T) + 1 <= Cardinality(T \cup found)
             /\ Cardinality(T \cup found) <= Rounds + 1
             /\ Cardinality(T) >= 1
  <2>1. PICK p \in found : TRUE
    BY <1>4
  <2>2. ctl.process \in Launch
    <3>1. p \in Process /\ p[1] = ctl.process
      BY <1>1, <2>1
    <3>2. QED
      BY <3>1, ProcessShape
  <2>3. /\ IsFiniteSet(T) /\ Cardinality(T) \in Nat
        /\ IsFiniteSet(T \cup found) /\ Cardinality(T \cup found) \in Nat
        /\ Cardinality(T \cup found) <= Rounds + 1
    <3>1. T \cup found \in SUBSET Process /\ \A q \in T \cup found : q[1] = ctl.process
      BY <1>1
    <3>2. T \in SUBSET Process /\ \A q \in T : q[1] = ctl.process
      BY <1>1
    <3>3. QED
      BY <2>2, <3>1, <3>2, TreeIsShallow
  <2>4. Cardinality(T \cup {p}) = Cardinality(T) + 1
    BY <2>1, <2>3, FS_AddElement
  <2>5. Cardinality(T \cup {p}) <= Cardinality(T \cup found)
    BY <2>1, <2>3, FS_Subset
  <2>6. T # {}
    BY <1>4, ExpandFacts
  <2>7. Cardinality(T) # 0
    BY <2>3, <2>6, FS_EmptySet
  <2>8. QED
    BY <2>3, <2>4, <2>5, <2>7
<1>5. Rounds \in Nat /\ round \in 0..Rounds /\ (round = 0 \/ Cardinality(T) >= round + 1)
  BY <1>2, BoundsAssumption DEF Typed, FInv
<1>6. found # {} => round # Rounds
  BY <1>4, <1>5, BoundsAssumption
<1>7. CASE found # {} /\ ctl' = d /\ main' = "freeze" /\ round' = round + 1
  <2>1. /\ x \in Context /\ x.targets = T \cup found /\ x.forced = ctl.context.forced
    BY <1>1 DEF Context
  <2> HIDE DEF x
  <2>2. ctl'.context = x /\ ctl'.owned = ctl.owned
    BY <1>1, <1>7 DEF Controllers
  <2>3. \A p \in ctl.owned \cup T \cup found : st'[p] # "unborn"
    <3>1. \A p \in found : Alive(p)
      BY <1>1, ExpandLives
    <3>2. QED
      BY <1>2, <3>1 DEF FInv, Held, Alive
  <2>4. Cardinality(T \cup found) >= round' + 1
    BY <1>4, <1>5, <1>7
  <2> HIDE DEF found
  <2>5. x.forced
    BY <1>2, <2>1 DEF FInv
  <2>6. \A p \in Held(ctl') : st'[p] # "unborn"
    BY <2>1, <2>2, <2>3 DEF Held
  <2>7. Cardinality(ctl'.context.targets) >= round' + 1
    BY <2>1, <2>2, <2>4
  <2>8. ctl'.context.forced
    BY <2>2, <2>5
  <2>9. QED
    BY <1>7, <2>6, <2>7, <2>8 DEF FInv, Held
<1>8. [ctl EXCEPT !.context.targets = @ \cup found] = d
  BY <1>1 DEF Controllers, Context
<1>9. QED
  BY <1>3, <1>6, <1>7, <1>8 DEF Scan

LEMMA KillFrozen ==
    ASSUME Typed, Core(ctl), ctl.context # None, FInv, ForceTerminate
    PROVE  FInv'
<1> DEFINE T == ctl.context.targets
<1>1. /\ main = "kill" /\ main' = "deadline" /\ UNCHANGED <<ctl, round>>
      /\ st' = Killed(T)
  BY DEF ForceTerminate
<1>2. T \in SUBSET Process /\ Held(ctl) \in SUBSET Process
  BY DEF Core, Controllers, Context, Held
<1>3. Frozen(T)
  BY <1>1 DEF FInv
<1>4. /\ \A p \in Process : Alive(p)' => Alive(p)
      /\ \A p \in Process : st[p] # "unborn" => st'[p] # "unborn"
      /\ \A p \in T : st'[p] # "run"
  BY <1>1, <1>2 DEF Killed, Alive, Typed
<1>5. FrozenNext(T)
  BY <1>2, <1>3, <1>4, FrozenStays DEF Frozen
<1>6. Frozen(ctl.context.targets)'
  BY <1>1, <1>5, TargetsFrozen
<1>7. QED
  BY <1>1, <1>2, <1>4, <1>6 DEF FInv, Held

\* Only a process that nobody stopped forks, and then not below a frozen tree.
LEMMA ForkFrozen ==
    ASSUME Typed, Core(ctl), FInv, NEW p \in Process, Fork(p)
    PROVE  FInv'
<1> DEFINE c == <<p[1], p[2] + 1>>
           T == ctl.context.targets
<1>1. /\ st[p] = "run" /\ st[c] = "unborn" /\ UNCHANGED <<ctl, main, round>>
      /\ st' = [st EXCEPT ![c] = "run"]
  BY DEF Fork
<1>2. c \in Process /\ p[2] \in Nat /\ p = <<p[1], p[2]>>
  <2>1. /\ p[1] \in Launch /\ p[2] \in 0..Depth[p[1]] /\ Depth[p[1]] \in Nat
        /\ p = <<p[1], p[2]>> /\ p[2] < Depth[p[1]]
    BY ProcessShape, BoundsAssumption DEF Launch, Fork
  <2>2. p[2] + 1 \in 0..Depth[p[1]]
    BY <2>1
  <2>3. QED
    BY <2>1, <2>2 DEF Process
<1>3. Held(ctl) \in SUBSET Process
  BY DEF Core, Controllers, Context, Held
<1>4. /\ c \notin Held(ctl)
      /\ \A q \in Process : q # c => st'[q] = st[q]
  BY <1>1 DEF FInv
<1> HIDE DEF c
<1>5. \A q \in Held(ctl) : st'[q] = st[q]
  BY <1>3, <1>4
<1>6. ASSUME ctl.context # None, Frozen(T) PROVE FrozenNext(T)
  <2>1. SUFFICES ASSUME NEW q \in Process, NEW k \in 0..q[2], <<q[1], k>> \in T,
                        \A i \in k..q[2] : Alive(<<q[1], i>>)'
                 PROVE  q \in T
    BY <1>5, <1>6 DEF FrozenNext, Frozen, Held
  <2>2. q[2] \in Nat /\ q[1] \in Launch
    BY ProcessShape, BoundsAssumption
  <2>3. ASSUME NEW i \in k..q[2] PROVE <<q[1], i>> \in Process
    <3>1. q[1] \in Launch /\ q[2] \in 0..Depth[q[1]] /\ Depth[q[1]] \in Nat
      BY ProcessShape, BoundsAssumption DEF Launch
    <3>2. i \in 0..Depth[q[1]]
      BY <3>1
    <3>3. QED
      BY <3>1, <3>2 DEF Process
  <2>4. CASE \A i \in k..q[2] : <<q[1], i>> # c
    <3>1. \A i \in k..q[2] : Alive(<<q[1], i>>)
      BY <1>4, <2>1, <2>3, <2>4 DEF Alive
    <3>2. QED
      BY <1>6, <2>1, <3>1 DEF Frozen, Closed
  <2>5. ASSUME NEW j \in k..q[2], <<q[1], j>> = c PROVE FALSE
    <3>1. q[1] = p[1] /\ j = p[2] + 1
      BY <2>5 DEF c
    <3>2. j # k
      BY <1>4, <1>6, <2>1, <2>5 DEF Held
    <3>3. k \in 0..p[2]
      BY <1>2, <2>2, <3>1, <3>2
    <3>4. ASSUME NEW i \in k..p[2] PROVE Alive(<<p[1], i>>)
      <4>1. i \in k..q[2] /\ i # p[2] + 1
        BY <1>2, <2>2, <3>1, <3>3
      <4>2. <<q[1], i>> # c
        BY <3>1, <4>1 DEF c
      <4>3. QED
        BY <1>4, <2>1, <2>3, <3>1, <4>1, <4>2 DEF Alive
    <3>5. p \in T
      BY <1>6, <2>1, <3>1, <3>3, <3>4 DEF Frozen, Closed
    <3>6. QED
      BY <1>1, <1>6, <3>5 DEF Frozen
  <2>6. QED
    BY <2>4, <2>5
<1>7. ctl.context # None /\ Frozen(T) => Frozen(ctl.context.targets)'
  BY <1>1, <1>6, TargetsFrozen
<1>8. QED
  BY <1>1, <1>5, <1>7 DEF FInv, Held

LEMMA ExitFrozen ==
    ASSUME Typed, Core(ctl), FInv, NEW p \in Process, Exit(p)
    PROVE  FInv'
<1> DEFINE T == ctl.context.targets
<1>1. UNCHANGED <<ctl, main, round>>
  BY DEF Exit
<1>2. \A q \in Process : st'[q] = "dead" \/ st'[q] = st[q]
  BY DEF Exit
<1>3. Held(ctl) \in SUBSET Process
  BY DEF Core, Controllers, Context, Held
<1>4. \A q \in Held(ctl) : st'[q] = "dead" \/ st'[q] = st[q]
  BY <1>2, <1>3
<1>5. ASSUME ctl.context # None, Frozen(T) PROVE FrozenNext(T)
  <2>1. \A q \in Process : Alive(q)' => Alive(q)
    BY <1>2 DEF Alive
  <2>2. T \in SUBSET Process /\ \A q \in T : st'[q] # "run"
    BY <1>3, <1>4, <1>5 DEF Held, Frozen
  <2>3. QED
    BY <1>5, <2>1, <2>2, FrozenStays DEF Frozen
<1>6. ctl.context # None /\ Frozen(T) => Frozen(ctl.context.targets)'
  BY <1>1, <1>5, TargetsFrozen
<1>7. QED
  BY <1>1, <1>4, <1>6 DEF FInv, Held

\* Each kind of step keeps FInv.
LEMMA UserFrozen ==
    ASSUME BInv, FInv, UserStep
    PROVE  FInv'
<1>1. Typed /\ Core(ctl) /\ ctl \in Controllers
  BY DEF BInv, Core
<1>2. CASE ApplicationStart
  <2>1. Start(ctl) /\ main' = main /\ round' = round
    BY <1>2 DEF ApplicationStart
  <2>2. CASE main \in {"idle", "calls"}
    BY <1>1, <2>1, <2>2, StartFrozen DEF Core
  <2>3. CASE main \notin {"idle", "calls"}
    <3>1. ctl' = ctl /\ UNCHANGED processes
      BY <1>1, <2>1, <2>3 DEF Start, BInv, Core
    <3>2. st' = st
      BY <3>1 DEF processes
    <3>3. QED
      BY <2>1, <3>1, <3>2 DEF FInv, Frozen, Closed, Alive, Held
  <2>4. QED
    BY <2>2, <2>3
<1>3. ASSUME NEW w \in {"restart", "quit"}, main = "idle", UNCHANGED <<main, round>>,
             Stop([ctl EXCEPT !.completions = Append(@, w)])
      PROVE  FInv'
  <2> DEFINE q == Append(ctl.completions, w)
             d == [ctl EXCEPT !.completions = q]
  <2>1. q \in Calls /\ d = [ctl EXCEPT !.completions = Append(@, w)]
    BY <1>1 DEF Controllers, Calls
  <2> HIDE DEF q
  <2>2. d \in Controllers /\ d.context = ctl.context /\ d.owned = ctl.owned
    BY <1>1, <2>1 DEF Controllers
  <2>3. Stop(d)
    BY <1>3, <2>1
  <2> HIDE DEF d
  <2>4. QED
    BY <1>1, <1>3, <2>2, <2>3, StopFrozen
<1>4. CASE Restart
  BY <1>3, <1>4 DEF Restart, MainIdle
<1>5. CASE RequestTermination
  BY <1>3, <1>5 DEF RequestTermination, MainIdle
<1>6. QED
  BY <1>2, <1>4, <1>5 DEF UserStep

LEMMA CallFrozen ==
    ASSUME BInv, FInv, Call
    PROVE  FInv'
<1> DEFINE block == Head(ctl.queue)
           rest  == Tail(block.calls)
           last  == rest = <<>>
           q     == IF last THEN Tail(ctl.queue)
                    ELSE <<[block EXCEPT !.calls = rest]>> \o Tail(ctl.queue)
           c     == [ctl EXCEPT !.queue = q]
<1>1. /\ Core(ctl) /\ Flags(ctl) /\ ctl \in Controllers /\ ctl.queue # <<>>
      /\ block.kind = "done" /\ Typed
  BY DEF Call, QueueHead, BInv, Core
<1>2. block \in [kind : {"done"}, calls : Calls \ {<<>>}, ok : BOOLEAN]
  BY <1>1, HeadFacts DEF Blocks
<1>3. q \in Seq(Blocks)
  <2>1. Tail(ctl.queue) \in Seq(Blocks)
    BY <1>1, HeadFacts
  <2>2. CASE last
    BY <2>1, <2>2
  <2>3. CASE ~last
    <3>1. rest \in Calls \ {<<>>}
      BY <1>2, <2>3 DEF Calls
    <3> HIDE DEF rest
    <3>2. [block EXCEPT !.calls = rest] \in Blocks
      BY <1>2, <3>1 DEF Blocks
    <3>3. <<[block EXCEPT !.calls = rest]>> \in Seq(Blocks)
      BY <3>2
    <3>4. QED
      BY <2>1, <2>3, <3>3 DEF rest
  <2>4. QED
    BY <2>2, <2>3
<1>4. c = [ctl EXCEPT !.queue = IF last THEN Tail(@)
                      ELSE <<[block EXCEPT !.calls = rest]>> \o Tail(@)]
  BY <1>1 DEF Controllers
<1>5. /\ main \in {"idle", "calls"} /\ main' \in {"idle", "calls"} /\ round' = round
      /\ Start(c) \/ Stop(c) \/ (ctl' = c /\ UNCHANGED processes)
  BY <1>4 DEF Call
<1> HIDE DEF q
<1>6. /\ c \in Controllers /\ c.process = ctl.process /\ c.context = ctl.context
      /\ c.owned = ctl.owned
  BY <1>1, <1>3 DEF Controllers
<1> HIDE DEF c
<1>7. CASE Start(c)
  BY <1>1, <1>5, <1>6, <1>7, StartFrozen DEF Core
<1>8. CASE Stop(c)
  BY <1>1, <1>5, <1>6, <1>8, StopFrozen
<1>9. CASE ctl' = c /\ UNCHANGED processes
  BY <1>5, <1>6, <1>9, SettledSame, QuietStep DEF processes
<1>10. QED
  BY <1>5, <1>7, <1>8, <1>9

LEMMA HandlerFrozen ==
    ASSUME BInv, FInv, Apply \/ HandleHealthResponse \/ HandleTermination
    PROVE  FInv'
<1> DEFINE b == Dequeue(ctl)
           c == [b EXCEPT !.inFlight = FALSE]
           d == [b EXCEPT !.startup = FALSE]
           n == Head(ctl.queue).launch
           r == SetState(c, "ready")
           e == [r EXCEPT !.startup = FALSE, !.session = n]
           g == SetState(d, "failed")
           h == CaptureOwnedProcesses(g)
<1>1. /\ Core(ctl) /\ Flags(ctl) /\ ctl.queue # <<>> /\ main = "idle" /\ Typed
      /\ round' = round /\ st' = st
  BY DEF Apply, HandleHealthResponse, HandleTermination, MainIdle, QueueHead, BInv, processes
<1>2. b \in Controllers /\ b.context = ctl.context /\ b.owned = ctl.owned
  <2>1. ctl \in Controllers /\ Tail(ctl.queue) \in Seq(Blocks)
    BY <1>1, HeadFacts DEF Core
  <2>2. b = [ctl EXCEPT !.queue = Tail(ctl.queue)]
    BY <1>1, HeadFacts
  <2> HIDE DEF b
  <2>3. QED
    BY <2>1, <2>2 DEF Controllers
<1>3. \/ main' = main /\ (ctl' = b \/ ctl' = c \/ ctl' = Fail(c) \/ ctl' = e)
      \/ main' = main /\ ctl' = BeginShutdown(h, TRUE)
      \/ ctl.context # None /\ EvaluateShutdown(d)
  <2>1. CASE Apply
    BY <2>1 DEF Apply
  <2>2. CASE HandleHealthResponse
    BY <2>2 DEF HandleHealthResponse
  <2>3. CASE HandleTermination
    <3>1. b.process = ctl.process /\ b.intentional = ctl.intentional
      BY <1>1 DEF Dequeue, Core, Controllers
    <3>2. n \in Launch
      BY <1>1, <2>3, HeadFacts DEF HandleTermination, QueueHead, Blocks
    <3>3. b.process = n /\ b.intentional => ctl.context # None
      BY <1>1, <3>1, <3>2, NoneAssumption DEF Flags
    <3>4. QED
      BY <2>3, <3>3 DEF HandleTermination
  <2>4. QED
    BY <2>1, <2>2, <2>3
<1> HIDE DEF b, n
<1>4. /\ c \in Controllers /\ c.context = ctl.context /\ c.owned = ctl.owned
      /\ d \in Controllers /\ d.context = ctl.context /\ d.owned = ctl.owned
  BY <1>2 DEF Controllers
<1> HIDE DEF c, d
<1>5. /\ r \in Controllers /\ r.context = ctl.context /\ r.owned = ctl.owned
      /\ g \in Controllers /\ g.context = ctl.context /\ g.owned = ctl.owned
  BY <1>4, SetStateSame DEF States
<1> HIDE DEF r, g
<1>6. e.context = ctl.context /\ e.owned = ctl.owned
  BY <1>5 DEF Controllers
<1> HIDE DEF e
<1>7. h \in Controllers /\ Settled(ctl, h)
  BY <1>5, CaptureSettles, SettledSame, SettledTwice
<1> HIDE DEF h
<1>8. CASE main' = main /\ (ctl' = b \/ ctl' = c \/ ctl' = e)
  BY <1>1, <1>2, <1>4, <1>6, <1>8, SettledSame, QuietStep
<1>9. CASE main' = main /\ ctl' = Fail(c)
  <2>1. Settled(ctl, c) /\ Settled(c, Fail(c))
    BY <1>4, SettledSame, FailSettles
  <2>2. QED
    BY <1>1, <1>9, <2>1, SettledTwice, QuietStep
<1>10. CASE main' = main /\ ctl' = BeginShutdown(h, TRUE)
  <2>1. Settled(h, BeginShutdown(h, TRUE))
    BY <1>7, BeginSettles
  <2>2. QED
    BY <1>1, <1>7, <1>10, <2>1, SettledTwice, QuietStep
<1>11. CASE ctl.context # None /\ EvaluateShutdown(d)
  BY <1>1, <1>4, <1>11, EvaluateFrozen
<1>12. QED
  BY <1>3, <1>8, <1>9, <1>10, <1>11

LEMMA ShutdownFrozen ==
    ASSUME ShallowTrees, BInv, FInv, ShutdownStep
    PROVE  FInv'
<1>1. Typed /\ Core(ctl) /\ Flags(ctl) /\ ctl \in Controllers
  BY DEF BInv, Core
<1>2. CASE ShutdownPoll
  <2>1. /\ main = "idle" /\ ctl.context # None /\ EvaluateShutdown(ctl) /\ round' = round
        /\ st' = st
    BY <1>1, <1>2 DEF ShutdownPoll, MainIdle, Flags, processes
  <2>2. QED
    BY <1>1, <2>1, EvaluateFrozen
<1>3. CASE Freeze
  BY <1>1, <1>3, FreezeFrozen
<1>4. CASE Scan
  <2>1. ctl.context # None
    BY <1>4 DEF Scan, BInv
  <2>2. QED
    BY <1>1, <1>4, <2>1, ScanFrozen
<1>5. CASE ForceTerminate
  <2>1. ctl.context # None
    BY <1>5 DEF ForceTerminate, BInv
  <2>2. QED
    BY <1>1, <1>5, <2>1, KillFrozen
<1>6. CASE Deadline
  <2>1. /\ ctl.context # None /\ main = "deadline" /\ main' = "idle" /\ round' = round
        /\ st' = st
    BY <1>6 DEF Deadline, BInv, processes
  <2>2. \/ ctl' = ctl
        \/ ctl' = FinishShutdown(ctl)
        \/ ctl' = ReportShutdownTimeout(ctl)
    BY <1>6 DEF Deadline
  <2>3. Settled(ctl, ctl')
    BY <1>1, <2>1, <2>2, SettledSame, FinishSame, SettledGone, ReportSettles
  <2>4. QED
    BY <2>1, <2>3, QuietStep
<1>7. QED
  BY <1>2, <1>3, <1>4, <1>5, <1>6 DEF ShutdownStep

LEMMA OtherFrozen ==
    ASSUME BInv, FInv, PollReadiness \/ OwnershipPoll \/ WorldStep
    PROVE  FInv'
<1>1. Typed /\ Core(ctl) /\ ctl \in Controllers
  BY DEF BInv, Core
<1>2. CASE PollReadiness \/ OwnershipPoll
  <2>1. main = "idle" /\ main' = main /\ round' = round /\ st' = st
    BY <1>2 DEF PollReadiness, OwnershipPoll, MainIdle, processes
  <2>2. \/ ctl' = Fail(ctl)
        \/ ctl' = [ctl EXCEPT !.inFlight = TRUE]
        \/ ctl' = CaptureOwnedProcesses(ctl)
    BY <1>2 DEF PollReadiness, OwnershipPoll
  <2>3. LET d == [ctl EXCEPT !.inFlight = TRUE]
        IN  d.context = ctl.context /\ d.owned = ctl.owned
    BY <1>1 DEF Controllers
  <2>4. Settled(ctl, ctl')
    BY <1>1, <2>2, <2>3, FailSettles, CaptureSettles, SettledSame
  <2>5. QED
    BY <2>1, <2>4, QuietStep
<1>3. ASSUME ctl'.context = ctl.context, ctl'.owned = ctl.owned, st' = st,
             UNCHANGED <<main, round>>
      PROVE  FInv'
  BY <1>3 DEF FInv, Frozen, Closed, Alive, Held
<1>4. CASE StartupDeadline
  BY <1>1, <1>3, <1>4 DEF StartupDeadline, Controllers, processes
<1>5. CASE ShutdownDeadline
  <2> DEFINE t == ctl.context.clock + 1
             x == [ctl.context EXCEPT !.clock = t]
             d == [ctl EXCEPT !.context = x]
  <2>1. /\ ctl.context \in Context /\ ctl.context # None /\ ctl.context.clock < 2
        /\ main = "idle" /\ main' = main /\ round' = round /\ st' = st
    BY <1>1, <1>5, TargetFacts DEF ShutdownDeadline, MainIdle, processes
  <2>2. ctl' = d
    BY <1>1, <1>5, <2>1 DEF ShutdownDeadline, Controllers, Context
  <2> HIDE DEF t
  <2>3. x.targets = ctl.context.targets /\ x.forced = ctl.context.forced
    BY <2>1 DEF Context
  <2> HIDE DEF x
  <2>4. d.context = x /\ d.owned = ctl.owned
    BY <1>1 DEF Controllers
  <2>5. Settled(ctl, d)
    BY <2>1, <2>3, <2>4 DEF Settled, Held
  <2>6. QED
    BY <2>1, <2>2, <2>5, QuietStep
<1>6. ASSUME NEW n \in Launch, NEW a \in {"ok", "bad", "none"}, Reap(n) \/ Respond(n, a)
      PROVE  FInv'
  <2>1. \E b : ctl' = [ctl EXCEPT !.queue = Append(@, b)]
    BY <1>6 DEF Reap, Respond
  <2>2. ctl'.context = ctl.context /\ ctl'.owned = ctl.owned
    BY <1>1, <2>1 DEF Controllers
  <2>3. st' = st /\ UNCHANGED <<main, round>>
    BY <1>6 DEF Reap, Respond, processes
  <2>4. QED
    BY <1>3, <2>2, <2>3
<1>7. ASSUME NEW p \in Process, Fork(p) \/ Exit(p) PROVE FInv'
  BY <1>1, <1>7, ForkFrozen, ExitFrozen
<1>8. QED
  BY <1>2, <1>4, <1>5, <1>6, <1>7 DEF WorldStep

LEMMA FrozenInvariant ==
    ASSUME ShallowTrees
    PROVE  /\ Init => FInv
           /\ BInv /\ FInv /\ [Next]_vars => FInv'
<1>1. Init => FInv
  BY DEF Init, FInv, Held, Idle
<1>2. ASSUME BInv, FInv, Next PROVE FInv'
  BY <1>2, UserFrozen, CallFrozen, HandlerFrozen, ShutdownFrozen, OtherFrozen
     DEF Next, Step, QueueStep
<1>3. ASSUME BInv, FInv, UNCHANGED vars PROVE FInv'
  BY <1>3 DEF FInv, Frozen, Closed, Alive, Held, vars, processes
<1>4. QED
  BY <1>1, <1>2, <1>3

\* When the signal is sent no target can fork and nothing below a target is unknown,
\* if the rescans are as many as a launch has descendants.
THEOREM FrozenWhenKilled ==
    ASSUME ShallowTrees
    PROVE  Spec => []FrozenBeforeKill
<1>1. BInv /\ FInv => FrozenBeforeKill
  <2>1. SUFFICES ASSUME BInv, FInv, main = "kill"
                 PROVE  /\ Expand(ctl.context.targets) = ctl.context.targets
                        /\ \A p \in ctl.context.targets : st[p] # "run"
    BY DEF FrozenBeforeKill
  <2>2. ctl.context # None /\ Frozen(ctl.context.targets)
    BY <2>1 DEF BInv, FInv
  <2>3. ctl.context.targets \in SUBSET Process
    BY <2>1, <2>2 DEF BInv, Core, Controllers, Context
  <2>4. QED
    BY <2>2, <2>3, ExpandLives DEF Frozen
<1>2. QED
  BY ControllerInvariant, FrozenInvariant, <1>1, PTL DEF Spec
=============================================================================

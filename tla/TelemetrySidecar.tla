--------------------------- MODULE TelemetrySidecar ---------------------------
(****************************************************************************)
(* The telemetry session of the CUDA campaign (sidecar.py) with the safety  *)
(* evaluator it feeds (SafetyStateMachine of monitoring.py).  Three threads *)
(* share it: the collector takes a sample once a tick, the watchdog beats   *)
(* and judges the health of both, and the harness starts the session, polls *)
(* it for the first stop signal, and stops it.                              *)
(*                                                                          *)
(* A time stamp is kept as its age in ticks, capped; one tick is the        *)
(* sampling interval, and none passes between the reading of a clock and    *)
(* its use.  A step is what a thread does under one lock, or between two.   *)
(* A sample is what the evaluator asks of it: its time, the heartbeat, and  *)
(* whether it shows a reason to stop.  The warnings, which nothing acts on, *)
(* and the sustained limits, one more reason to stop, are left out.         *)
(****************************************************************************)
EXTENDS Integers, FiniteSets

CONSTANTS
    QualGap,      \* longest silence of a qualifying capture, qualifying_gap_seconds
    GapStop,      \* gap_stop_seconds
    BeatStop,     \* heartbeat_stop_seconds
    Faults,       \* the faults that may happen
    MaxFaults     \* bound: how many of them do

ASSUME LimitsAssumption ==
    /\ QualGap \in Nat \ {0} /\ GapStop \in Nat /\ BeatStop \in Nat \ {0}
    /\ QualGap < GapStop
    /\ MaxFaults \in Nat
    /\ Faults \subseteq {"probe", "probe-hangs", "tick", "tick-hangs", "limit",
                         "ownership", "deadline"}

VARIABLES
    h,          \* the harness thread, in start, safety_signal, settle and stop
    c,          \* the collector thread
    w,          \* the watchdog thread
    beat,       \* age of _heartbeat_monotonic_ns
    samples,    \* _samples: whether there is one, the age of the last (before there
                \* is one, of the start), whether a gap between them is wider than
                \* the qualifying one, and whether one lies after the stop
    safety,     \* SafetyStateMachine: stop_event and the age of _last_sample_ns
    events,     \* _safety_events
    signal,     \* _signal
    failure,    \* the failure codes of collector, watchdog and qualification
    ready,      \* _sample_ready and _watchdog_ready, as a set
    stopping,   \* _stop_event
    lost,       \* what the run lost: certain ownership, time to its deadline
    broken,     \* the faults so far
    quiet       \* history: the longest silence of the collector

shared == <<beat, samples, safety, events, signal, failure, ready>>
vars == <<h, c, w, shared, stopping, lost, broken, quiet>>

------------------------------------------------------------------------------
(* Ages *)

\* Older than the limits is as old as it matters.
LastAge == GapStop + 1
Older(age, cap) == IF age = cap THEN cap ELSE age + 1

NoSample == -1
None == "none"

------------------------------------------------------------------------------
(* SafetyStateMachine: the first event that stops, or the one that only spoils *)
(* the capture, or none.                                                     *)

Gap == IF safety.last = NoSample THEN 0 ELSE safety.last

\* Nothing is said after an event that stops.
\* Mutant: the gap is only looked at when a sample arrives.
HealthWithoutGap(collectorAlive, watchdogAlive, lostThen, beatAge) ==
    IF safety.stop # None THEN None
    ELSE IF ~collectorAlive THEN "COLLECTOR"
    ELSE IF "ownership" \in lostThen THEN "OWNERSHIP"
    ELSE IF ~watchdogAlive THEN "HEARTBEAT"
    ELSE IF "deadline" \in lostThen THEN "DEADLINE"
    ELSE IF beatAge >= BeatStop THEN "HEARTBEAT"
    ELSE None

HealthEvent(collectorAlive, watchdogAlive, lostThen, beatAge) ==
    IF safety.stop # None THEN None
    ELSE IF ~collectorAlive THEN "COLLECTOR"
    ELSE IF "ownership" \in lostThen THEN "OWNERSHIP"
    ELSE IF ~watchdogAlive THEN "HEARTBEAT"
    ELSE IF "deadline" \in lostThen THEN "DEADLINE"
    ELSE IF beatAge >= BeatStop THEN "HEARTBEAT"
    ELSE IF Gap > GapStop THEN "GAP"
    ELSE IF Gap > QualGap THEN "INVALID"
    ELSE None

SampleEvent ==
    IF safety.stop # None THEN None
    ELSE IF c.limit THEN "LIMIT"
    ELSE IF ~c.watched \/ c.beat >= BeatStop THEN "HEARTBEAT"
    ELSE IF "ownership" \in c.lost THEN "OWNERSHIP"
    ELSE IF "deadline" \in c.lost THEN "DEADLINE"
    ELSE IF Gap > GapStop THEN "GAP"
    ELSE IF Gap > QualGap THEN "INVALID"
    ELSE None

Stops(ev) == ev \notin {None, "INVALID"}

Judged(ev) == [safety EXCEPT !.stop = IF Stops(ev) THEN ev ELSE @]

RecordSignal(code) == signal' = IF signal = None THEN code ELSE signal

\* _record_events, of the one event that matters
RecordEvents(ev) ==
    /\ events' = events \cup ({ev} \ {None})
    /\ IF Stops(ev) THEN RecordSignal(ev) ELSE UNCHANGED signal
    /\ failure' = IF ev = "INVALID" /\ failure.q = None
                  THEN [failure EXCEPT !.q = "QUALIFYING_GAP"] ELSE failure

RecordFailure(t, code) ==
    /\ failure' = [failure EXCEPT ![t] = IF @ = None THEN code ELSE @]
    /\ RecordSignal(IF t = "c" THEN "COLLECTOR" ELSE "HEARTBEAT")

------------------------------------------------------------------------------
IdleH == [pc |-> "new", at |-> 0, c |-> FALSE, w |-> FALSE, beat |-> 0,
          fresh |-> FALSE, lost |-> {}, ev |-> None, healthy |-> FALSE]
IdleC == [pc |-> "off", beat |-> 0, watched |-> FALSE, lost |-> {},
          limit |-> FALSE, over |-> FALSE, ev |-> None, due |-> TRUE]
IdleW == [pc |-> "off", ev |-> None]

Init ==
    /\ h = IdleH /\ c = IdleC /\ w = IdleW
    /\ beat = 0
    /\ samples = [some |-> FALSE, age |-> 0, wide |-> FALSE, over |-> FALSE]
    /\ safety = [stop |-> None, last |-> NoSample]
    /\ events = {} /\ signal = None
    /\ failure = [c |-> None, w |-> None, q |-> None]
    /\ ready = {} /\ stopping = FALSE
    /\ lost = {} /\ broken = {} /\ quiet = 0

\* Thread.is_alive()
CollectorAlive == c.pc \notin {"off", "done"}
WatchdogAlive  == w.pc \notin {"off", "done"}

MayBreak(f) == f \in Faults /\ f \notin broken /\ Cardinality(broken) < MaxFaults
Break(f) == MayBreak(f) /\ broken' = broken \cup {f}

------------------------------------------------------------------------------
(* The harness thread *)

\* start(): the watchdog exists before the collector.
Start ==
    /\ h.pc = "new"
    /\ h' = [h EXCEPT !.pc = "begun"]
    /\ w' = [w EXCEPT !.pc = "sleep"]
    /\ UNCHANGED <<c, shared, stopping, lost, broken, quiet>>

StartCollector ==
    /\ h.pc = "begun"
    /\ h' = [h EXCEPT !.pc = "waiting"]
    /\ c' = [c EXCEPT !.pc = "begin"]
    /\ UNCHANGED <<w, shared, stopping, lost, broken, quiet>>

Failed == failure.c # None \/ failure.w # None
Ready  == ready = {"sample", "watchdog"}

\* The startup event is set: by both threads, or by a failure.
StartupEnds ==
    /\ h.pc = "waiting" /\ (Ready \/ Failed)
    /\ h' = [h EXCEPT !.pc = IF Ready /\ ~Failed THEN "up" ELSE "abort-collector"]
    /\ stopping' = (stopping \/ Failed \/ ~Ready)
    /\ UNCHANGED <<c, w, shared, lost, broken, quiet>>

ReadinessTimeout ==
    /\ h.pc = "waiting" /\ ~Ready /\ ~Failed
    /\ RecordFailure("c", "READINESS_TIMEOUT")
    /\ h' = [h EXCEPT !.pc = "abort-collector"]
    /\ stopping' = TRUE
    /\ UNCHANGED <<c, w, beat, samples, safety, events, ready, lost, broken, quiet>>

\* safety_signal(), when no signal is set: what it reads under the lock, ...
Poll ==
    /\ h.pc = "up" /\ signal = None
    /\ h' = [h EXCEPT !.pc = "look", !.c = CollectorAlive,
                      !.w = WatchdogAlive, !.beat = beat]
    /\ UNCHANGED <<c, w, shared, stopping, lost, broken, quiet>>

\* ... then the clock and the ownership, ...
Look ==
    /\ h.pc = "look"
    /\ h' = [h EXCEPT !.pc = "health", !.lost = lost]
    /\ UNCHANGED <<c, w, shared, stopping, lost, broken, quiet>>

\* ... which are judged later, ...
Health ==
    /\ h.pc = "health"
    /\ LET ev == HealthEvent(h.c, h.w, h.lost, h.beat) IN
       /\ safety' = Judged(ev)
       /\ h' = [h EXCEPT !.pc = "record", !.ev = ev]
    /\ UNCHANGED <<c, w, beat, samples, events, signal, failure, ready, stopping,
                   lost, broken, quiet>>

\* ... and recorded after that.
RecordHealth ==
    /\ h.pc = "record"
    /\ RecordEvents(h.ev)
    /\ h' = [IdleH EXCEPT !.pc = "up"]
    /\ UNCHANGED <<c, w, beat, samples, safety, ready, stopping, lost, broken, quiet>>

\* settle_stop_boundary(): when the harness has decided to stop, for whatever
\* reason, it waits for one more sample.
Settle ==
    /\ h.pc = "up"
    /\ h' = [IdleH EXCEPT !.pc = "settle"]
    /\ UNCHANGED <<c, w, shared, stopping, lost, broken, quiet>>

\* The wait ends and the stop time is read.
Settled == h.fresh \/ Failed \/ failure.q # None \/ h.at >= QualGap

StampStop ==
    /\ h.pc = "settle" /\ Settled
    /\ h' = [IdleH EXCEPT !.pc = "stop"]
    /\ UNCHANGED <<c, w, shared, stopping, lost, broken, quiet>>

Stop ==
    /\ h.pc = "stop"
    /\ h' = [h EXCEPT !.pc = "stop-collector"]
    /\ stopping' = TRUE
    /\ UNCHANGED <<c, w, shared, lost, broken, quiet>>

\* Mutant: a join without a timeout.
JoinForever(alive, timeout) == ~alive

\* A join returns when the thread is done, or at its timeout.
JoinReturns(alive, timeout) == ~alive \/ timeout

JoinCollector ==
    /\ h.pc \in {"abort-collector", "stop-collector"}
    /\ \E timeout \in BOOLEAN : JoinReturns(CollectorAlive, timeout)
    /\ h' = [h EXCEPT !.pc = IF @ = "abort-collector" THEN "abort-watchdog"
                                                      ELSE "stop-watchdog"]
    /\ UNCHANGED <<c, w, shared, stopping, lost, broken, quiet>>

\* Mutant: a thread that outlives its join is forgotten.
LingerForgotten(t, alive) == failure[t]

\* A thread that is still alive after both joins is a failure.
Linger(t, alive) == IF alive /\ failure[t] = None THEN "LINGERING" ELSE failure[t]

JoinWatchdog ==
    /\ h.pc \in {"abort-watchdog", "stop-watchdog"}
    /\ \E timeout \in BOOLEAN : JoinReturns(WatchdogAlive, timeout)
    /\ failure' = [failure EXCEPT !.c = Linger("c", CollectorAlive),
                                  !.w = Linger("w", WatchdogAlive)]
    /\ signal' = IF signal # None THEN signal
                 ELSE IF CollectorAlive THEN "COLLECTOR"
                 ELSE IF WatchdogAlive THEN "HEARTBEAT" ELSE None
    /\ h' = [h EXCEPT !.pc = IF @ = "abort-watchdog" THEN "aborted" ELSE "collect"]
    /\ UNCHANGED <<c, w, beat, samples, safety, events, ready, stopping, lost, broken,
                   quiet>>

\* Mutant: the gaps are taken between samples only.
WideBetweenSamples == samples.wide

\* maximum_gap_seconds: from the start, between samples, and to the stop.
WideGap == samples.wide \/ samples.age > QualGap

Healthy ==
    /\ failure = [c |-> None, w |-> None, q |-> None]
    /\ ~samples.over
    /\ ~WideGap
    /\ Ready /\ samples.some

Collect ==
    /\ h.pc = "collect"
    /\ h' = [h EXCEPT !.pc = "stopped", !.healthy = Healthy]
    /\ UNCHANGED <<c, w, shared, stopping, lost, broken, quiet>>

HarnessStep ==
    \/ Start \/ StartCollector \/ StartupEnds \/ ReadinessTimeout
    \/ Poll \/ Look \/ Health \/ RecordHealth
    \/ Settle \/ StampStop \/ Stop \/ JoinCollector \/ JoinWatchdog \/ Collect

------------------------------------------------------------------------------
(* The watchdog thread *)

WatchdogWakes ==
    /\ w.pc = "sleep"
    /\ w' = [w EXCEPT !.pc = IF stopping THEN "done" ELSE "tick"]
    /\ UNCHANGED <<h, c, shared, stopping, lost, broken, quiet>>

\* Mutant: the watchdog takes a collector that has not begun for a dead one.
SeemsAliveIfStarted == CollectorAlive

\* A collector that has not begun is not dead.
CollectorSeemsAlive == c.pc \in {"off", "begin"} \/ CollectorAlive

\* The hook of the tick returns; the clock it then reads is the heartbeat, and the
\* health is judged by what is so at that time: what another thread does before the
\* judgement, it may as well do after it, since whoever is dead or lost stays so.
Beat ==
    /\ w.pc = "tick"
    /\ beat' = 0
    /\ ready' = ready \cup {"watchdog"}
    /\ LET ev == HealthEvent(CollectorSeemsAlive, TRUE, lost, 0) IN
       /\ safety' = Judged(ev)
       /\ w' = [w EXCEPT !.pc = "record", !.ev = ev]
    /\ UNCHANGED <<h, c, samples, events, signal, failure, stopping, lost, broken, quiet>>

WatchdogFails ==
    /\ w.pc = "tick" /\ Break("tick")
    /\ RecordFailure("w", "FAILED")
    /\ w' = [IdleW EXCEPT !.pc = "done"]
    /\ UNCHANGED <<h, c, beat, samples, safety, events, ready, stopping, lost, quiet>>

WatchdogHangs ==
    /\ w.pc = "tick" /\ Break("tick-hangs")
    /\ w' = [w EXCEPT !.pc = "hung"]
    /\ UNCHANGED <<h, c, shared, stopping, lost, quiet>>

WatchdogRecords ==
    /\ w.pc = "record"
    /\ RecordEvents(w.ev)
    /\ w' = [IdleW EXCEPT !.pc = "sleep"]
    /\ UNCHANGED <<h, c, beat, samples, safety, ready, stopping, lost, broken, quiet>>

------------------------------------------------------------------------------
(* The collector thread *)

CollectorBegins ==
    /\ c.pc = "begin"
    /\ c' = [c EXCEPT !.pc = "sleep"]
    /\ UNCHANGED <<h, w, shared, stopping, lost, broken, quiet>>

CollectorWakes ==
    /\ c.pc = "sleep" /\ (c.due \/ stopping)
    /\ c' = [c EXCEPT !.pc = IF stopping THEN "done" ELSE "probe"]
    /\ UNCHANGED <<h, w, shared, stopping, lost, broken, quiet>>

ProbeFails ==
    /\ c.pc = "probe" /\ Break("probe")
    /\ RecordFailure("c", "PROBE_FAILED")
    /\ c' = [IdleC EXCEPT !.pc = "done"]
    /\ UNCHANGED <<h, w, beat, samples, safety, events, ready, stopping, lost, quiet>>

ProbeHangs ==
    /\ c.pc = "probe" /\ Break("probe-hangs")
    /\ c' = [c EXCEPT !.pc = "hung"]
    /\ UNCHANGED <<h, w, shared, stopping, lost, quiet>>

StopStamped == h.pc \in {"stop", "stop-collector", "stop-watchdog", "collect", "stopped"}

\* The probe returns and the time of the observation is read.
Observe ==
    /\ c.pc = "probe"
    /\ \E limit \in BOOLEAN :
         /\ IF limit THEN Break("limit") ELSE UNCHANGED broken
         /\ c' = [c EXCEPT !.pc = "observed", !.limit = limit,
                           !.over = StopStamped, !.lost = lost \cap {"deadline"}]
    /\ UNCHANGED <<h, w, shared, stopping, lost, quiet>>

\* The stop flag, then the ownership and what the watchdog last did.
LookAtWatchdog ==
    /\ c.pc = "observed"
    /\ c' = IF stopping THEN [IdleC EXCEPT !.pc = "done"]
            ELSE [c EXCEPT !.pc = "append", !.beat = beat,
                           !.watched = failure.w = None /\ WatchdogAlive,
                           !.lost = @ \cup (lost \cap {"ownership"})]
    /\ UNCHANGED <<h, w, shared, stopping, lost, broken, quiet>>

AppendSample ==
    /\ c.pc = "append"
    /\ samples' = [some |-> TRUE, age |-> 0, over |-> samples.over \/ c.over,
                   wide |-> samples.wide \/ samples.age > QualGap]
    /\ h' = [h EXCEPT !.fresh = h.pc = "settle"]
    /\ c' = [c EXCEPT !.pc = "judge"]
    /\ UNCHANGED <<w, beat, safety, events, signal, failure, ready, stopping, lost,
                   broken, quiet>>

ObserveSample ==
    /\ c.pc = "judge"
    /\ safety' = IF safety.stop # None \/ Stops(SampleEvent) THEN Judged(SampleEvent)
                 ELSE [safety EXCEPT !.last = 0]
    /\ c' = [c EXCEPT !.pc = "record", !.ev = SampleEvent]
    /\ UNCHANGED <<h, w, beat, samples, events, signal, failure, ready, stopping, lost,
                   broken, quiet>>

RecordSample ==
    /\ c.pc = "record"
    /\ RecordEvents(c.ev)
    /\ ready' = ready \cup {"sample"}
    /\ c' = [IdleC EXCEPT !.pc = "sleep", !.due = FALSE]
    /\ UNCHANGED <<h, w, beat, samples, safety, stopping, lost, broken, quiet>>

------------------------------------------------------------------------------
(* The world: what the run loses, and time.  Between the reading of the stop   *)
(* time and the end nothing asks for the time of day again.                    *)

Running == h.pc \in {"waiting", "up", "look", "health", "record", "settle"}

Lose(what) ==
    /\ Running /\ Break(what)
    /\ lost' = lost \cup {what}
    /\ UNCHANGED <<h, c, w, shared, stopping, quiet>>

HoldsReading == h.pc = "health" \/ c.pc \in {"observed", "append", "judge"}

Tick ==
    /\ Running /\ ~HoldsReading
    /\ h' = [h EXCEPT !.at = IF h.pc = "settle" THEN Older(@, QualGap) ELSE @,
                      !.beat = IF h.pc = "look" THEN Older(@, BeatStop) ELSE @]
    /\ c' = [c EXCEPT !.due = TRUE]
    /\ beat' = Older(beat, BeatStop)
    /\ samples' = [samples EXCEPT !.age = Older(@, LastAge)]
    /\ safety' = [safety EXCEPT !.last = IF @ = NoSample THEN @ ELSE Older(@, LastAge)]
    /\ quiet' = IF samples'.age > quiet THEN samples'.age ELSE quiet
    /\ UNCHANGED <<w, events, signal, failure, ready, stopping, lost, broken>>

Collector ==
    \/ CollectorBegins \/ CollectorWakes \/ ProbeFails \/ ProbeHangs
    \/ Observe \/ LookAtWatchdog \/ AppendSample \/ ObserveSample \/ RecordSample

Watchdog ==
    \/ WatchdogWakes \/ Beat \/ WatchdogFails \/ WatchdogHangs
    \/ WatchdogRecords

World == Tick \/ \E what \in {"ownership", "deadline"} : Lose(what)

Next == HarnessStep \/ Watchdog \/ Collector \/ World

Spec == Init /\ [][Next]_vars

\* Threads that are not stuck run, a harness that has a session polls it and ends
\* the stop it began, and time passes.  Nothing makes the harness stop.
FairSpec ==
    /\ Spec
    /\ WF_vars(Watchdog) /\ WF_vars(Collector)
    /\ WF_vars(Start \/ StartCollector \/ StartupEnds \/ ReadinessTimeout)
    /\ WF_vars(Poll \/ Look \/ Health \/ RecordHealth)
    /\ WF_vars(StampStop \/ Stop \/ JoinCollector \/ JoinWatchdog \/ Collect)
    /\ SF_vars(Tick)

------------------------------------------------------------------------------
(* Properties *)

Ages == 0..LastAge
Codes == {None, "LIMIT", "COLLECTOR", "HEARTBEAT", "OWNERSHIP", "DEADLINE", "GAP"}
Said  == Codes \cup {"INVALID"}
Failures == {None, "READINESS_TIMEOUT", "LINGERING", "PROBE_FAILED", "FAILED",
             "QUALIFYING_GAP"}
Losses == {"ownership", "deadline"}

HarnessAt == {"new", "begun", "waiting", "up", "look", "health", "record", "settle",
              "stop", "stop-collector", "stop-watchdog", "collect", "stopped",
              "abort-collector", "abort-watchdog", "aborted"}
CollectorAt == {"off", "begin", "sleep", "probe", "hung", "observed", "append",
                "judge", "record", "done"}
WatchdogAt == {"off", "sleep", "tick", "hung", "record", "done"}

\* Every variable stays in the set its readers assume.
TypeOK ==
    /\ h \in [pc : HarnessAt, at : 0..QualGap, c : BOOLEAN, w : BOOLEAN,
              beat : 0..BeatStop, fresh : BOOLEAN, lost : SUBSET Losses, ev : Said,
              healthy : BOOLEAN]
    /\ c \in [pc : CollectorAt, beat : 0..BeatStop, watched : BOOLEAN,
              lost : SUBSET Losses, limit : BOOLEAN, over : BOOLEAN, ev : Said,
              due : BOOLEAN]
    /\ w \in [pc : WatchdogAt, ev : Said]
    /\ beat \in 0..BeatStop /\ quiet \in Ages
    /\ samples \in [some : BOOLEAN, age : Ages, wide : BOOLEAN, over : BOOLEAN]
    /\ safety \in [stop : Codes, last : Ages \cup {NoSample}]
    /\ events \in SUBSET Said
    /\ signal \in Codes /\ stopping \in BOOLEAN
    /\ failure \in [c : Failures, w : Failures, q : Failures]
    /\ ready \in SUBSET {"sample", "watchdog"}
    /\ broken \in SUBSET Faults /\ lost \in SUBSET Losses

\* No alarm without its cause, as long as nobody has asked the threads to end: the
\* collector is called dead only if it failed, the ownership uncertain only if it
\* was lost, and the capture late only if it was (sidecar.py 510-567).
AlarmIsTrue ==
    ~stopping =>
       /\ "COLLECTOR" \in events => failure.c # None
       /\ "OWNERSHIP" \in events => "ownership" \in lost
       /\ "GAP" \in events => quiet > GapStop
       /\ "INVALID" \in events => quiet > QualGap

\* A capture called healthy was taken to its end by both threads, neither of which
\* is left behind, and no stretch of it is without a sample for longer than the
\* qualifying gap (stop, sidecar.py 841-915).
CaptureIsWhole ==
    h.healthy =>
       /\ ~CollectorAlive /\ ~WatchdogAlive
       /\ broken \cap {"probe", "probe-hangs", "tick", "tick-hangs"} = {}
       /\ quiet <= QualGap

\* A thread that is dead or stuck while the session is up is signalled, unless the
\* harness stops first: each thread is watched by another one (safety_signal,
\* sidecar.py 739-771, and _watchdog_loop).
Sick(t) == t.pc \in {"hung", "done"}
Up == h.pc \in {"up", "look", "health", "record"}
StuckThreadIsSeen == (Up /\ (Sick(c) \/ Sick(w))) ~> (signal # None \/ ~Up)

\* A start returns and a stop returns, whatever hangs: the waits have timeouts.
SessionCallsReturn ==
    /\ h.pc = "begun" ~> h.pc \in {"up", "aborted"}
    /\ h.pc = "settle" ~> h.pc = "stopped"

\* A session in which nothing failed and no sample was late is stopped as healthy,
\* and the only safety event it may show is a late heartbeat (the ready-stop test of
\* test_cuda_campaign_sidecar.py says there is none).
CleanStop ==
    /\ h.pc = "stopped" /\ broken = {} /\ quiet <= QualGap
    /\ failure.c = None /\ failure.w = None
    => h.healthy /\ events \subseteq {"HEARTBEAT"}
=============================================================================

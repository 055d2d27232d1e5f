------------------------ MODULE TelemetrySidecar_proofs ------------------------
(****************************************************************************)
(* For all limits, and any number of faults: a telemetry session raises no  *)
(* alarm without its cause before it is stopped, and a capture it calls     *)
(* healthy is whole.                                                        *)
(*                                                                          *)
(* Neither is inductive.  AlarmInv adds what the threads carry from the     *)
(* reading of a fact to the event they record about it, and that the        *)
(* evaluator's last sample is never older than the history says;            *)
(* CaptureInv adds what each broken thread leaves behind, and that a silent *)
(* stretch is a wide gap.                                                   *)
(****************************************************************************)
EXTENDS TelemetrySidecar, TLAPS

------------------------------------------------------------------------------
(* Types *)

LEMMA LimitFacts ==
    /\ QualGap \in Nat /\ GapStop \in Nat /\ BeatStop \in Nat
    /\ QualGap < GapStop /\ LastAge = GapStop + 1
  BY LimitsAssumption DEF LastAge

LEMMA OlderType ==
    ASSUME NEW n \in Nat, NEW age \in 0..n
    PROVE  Older(age, n) \in 0..n /\ Older(age, n) >= age
  BY DEF Older

\* An event is one of those the evaluator has.
LEMMA EventTypes ==
    ASSUME TypeOK
    PROVE  /\ \A x, y \in BOOLEAN : \A l \in SUBSET Losses : \A a \in 0..BeatStop :
                 HealthEvent(x, y, l, a) \in Said
           /\ SampleEvent \in Said
  BY DEF TypeOK, HealthEvent, SampleEvent, Said, Codes, None

LEMMA JudgedType ==
    ASSUME TypeOK, NEW ev \in Said
    PROVE  Judged(ev) \in [stop : Codes, last : Ages \cup {NoSample}]
  BY DEF TypeOK, Judged, Stops, Said

LEMMA RecordTypes ==
    ASSUME TypeOK
    PROVE  /\ \A ev \in Said : RecordEvents(ev) =>
                 /\ events' \in SUBSET Said /\ signal' \in Codes
                 /\ failure' \in [c : Failures, w : Failures, q : Failures]
           /\ \A code \in Failures :
                 RecordFailure("c", code) \/ RecordFailure("w", code) =>
                    /\ signal' \in Codes
                    /\ failure' \in [c : Failures, w : Failures, q : Failures]
<1>1. \A ev \in Said : Stops(ev) => ev \in Codes
  BY DEF Stops, Said
<1>2. /\ failure \in [c : Failures, w : Failures, q : Failures]
      /\ events \in SUBSET Said /\ signal \in Codes
  BY DEF TypeOK
<1>3. ASSUME NEW ev \in Said, RecordEvents(ev)
      PROVE  /\ events' \in SUBSET Said /\ signal' \in Codes
             /\ failure' \in [c : Failures, w : Failures, q : Failures]
  BY <1>1, <1>2, <1>3 DEF RecordEvents, RecordSignal, Failures
<1>4. ASSUME NEW code \in Failures,
             RecordFailure("c", code) \/ RecordFailure("w", code)
      PROVE  /\ signal' \in Codes
             /\ failure' \in [c : Failures, w : Failures, q : Failures]
  BY <1>2, <1>4 DEF RecordFailure, RecordSignal, Codes
<1>5. QED
  BY <1>3, <1>4

\* The records the threads go back to.
LEMMA IdleTypes ==
    /\ \A at \in HarnessAt :
         [IdleH EXCEPT !.pc = at]
            \in [pc : HarnessAt, at : 0..QualGap, c : BOOLEAN, w : BOOLEAN,
                beat : 0..BeatStop, fresh : BOOLEAN, lost : SUBSET Losses, ev : Said,
                healthy : BOOLEAN]
    /\ \A at \in CollectorAt, due \in BOOLEAN :
         [IdleC EXCEPT !.pc = at, !.due = due]
            \in [pc : CollectorAt, beat : 0..BeatStop, watched : BOOLEAN,
                lost : SUBSET Losses, limit : BOOLEAN, over : BOOLEAN, ev : Said,
                due : BOOLEAN]
    /\ \A at \in CollectorAt :
         [IdleC EXCEPT !.pc = at]
            \in [pc : CollectorAt, beat : 0..BeatStop, watched : BOOLEAN,
                lost : SUBSET Losses, limit : BOOLEAN, over : BOOLEAN, ev : Said,
                due : BOOLEAN]
    /\ \A at \in WatchdogAt : [IdleW EXCEPT !.pc = at] \in [pc : WatchdogAt, ev : Said]
<1>1. None \in Said /\ 0 \in 0..QualGap /\ 0 \in 0..BeatStop
  BY LimitFacts DEF Said, Codes
<1>2. QED
  BY <1>1 DEF IdleH, IdleC, IdleW

LEMMA TypeInit == Init => TypeOK
<1> SUFFICES ASSUME Init PROVE TypeOK
  OBVIOUS
<1>1. None \in Said /\ None \in Codes /\ None \in Failures
  BY DEF Said, Codes, Failures
<1>2. /\ "new" \in HarnessAt /\ "off" \in CollectorAt /\ "off" \in WatchdogAt
      /\ 0 \in Ages /\ 0 \in 0..BeatStop /\ 0 \in 0..QualGap
  BY LimitFacts DEF Ages, HarnessAt, CollectorAt, WatchdogAt
<1>3. /\ h \in [pc : HarnessAt, at : 0..QualGap, c : BOOLEAN, w : BOOLEAN,
               beat : 0..BeatStop, fresh : BOOLEAN, lost : SUBSET Losses, ev : Said,
               healthy : BOOLEAN]
      /\ c \in [pc : CollectorAt, beat : 0..BeatStop, watched : BOOLEAN,
               lost : SUBSET Losses, limit : BOOLEAN, over : BOOLEAN, ev : Said,
               due : BOOLEAN]
      /\ w \in [pc : WatchdogAt, ev : Said]
  BY <1>1, <1>2 DEF Init, IdleH, IdleC, IdleW
<1>4. QED
  BY <1>1, <1>2, <1>3 DEF Init, TypeOK

LEMMA HarnessTypes == TypeOK /\ HarnessStep => TypeOK'
<1> SUFFICES ASSUME TypeOK, HarnessStep PROVE TypeOK'
  OBVIOUS
<1> USE LimitFacts DEF TypeOK, HarnessAt, shared
<1>n. None \in Said /\ None \in Codes /\ None \in Failures
  BY DEF Said, Codes, Failures
<1>1. CASE Start
  BY <1>1 DEF Start, WatchdogAt
<1>2. CASE StartCollector
  BY <1>2 DEF StartCollector, CollectorAt
<1>3. CASE StartupEnds
  BY <1>3 DEF StartupEnds, Ready, Failed
<1>4. CASE ReadinessTimeout
  <2>1. "READINESS_TIMEOUT" \in Failures
    BY DEF Failures
  <2>2. /\ signal' \in Codes
        /\ failure' \in [c : Failures, w : Failures, q : Failures]
    BY <1>4, <2>1, RecordTypes DEF ReadinessTimeout
  <2>3. QED
    BY <1>4, <2>2 DEF ReadinessTimeout
<1>5. CASE Poll
  BY <1>5 DEF Poll, CollectorAlive, WatchdogAlive
<1>6. CASE Look
  BY <1>6 DEF Look
<1>7. CASE Health
  <2>1. HealthEvent(h.c, h.w, h.lost, h.beat) \in Said
    BY EventTypes
  <2>2. QED
    BY <1>7, <2>1, JudgedType DEF Health
<1>8. CASE RecordHealth
  <2>1. /\ events' \in SUBSET Said /\ signal' \in Codes
        /\ failure' \in [c : Failures, w : Failures, q : Failures]
    BY <1>8, RecordTypes DEF RecordHealth
  <2>2. QED
    BY <1>8, <2>1, IdleTypes DEF RecordHealth
<1>9. CASE Settle
  BY <1>9, IdleTypes DEF Settle
<1>10. CASE StampStop
  BY <1>10, IdleTypes DEF StampStop
<1>11. CASE Stop
  BY <1>11 DEF Stop
<1>12. CASE JoinCollector
  BY <1>12 DEF JoinCollector
<1>13. CASE JoinWatchdog
  <2>1. /\ Linger("c", CollectorAlive) \in Failures
        /\ Linger("w", WatchdogAlive) \in Failures
    BY DEF Linger, Failures
  <2>2. /\ signal' \in Codes
        /\ failure' \in [c : Failures, w : Failures, q : Failures]
    BY <1>13, <2>1 DEF JoinWatchdog, Codes
  <2>3. QED
    BY <1>13, <2>2 DEF JoinWatchdog
<1>14. CASE Collect
  BY <1>14 DEF Collect, Healthy, WideGap, Ready
<1>15. QED
  BY <1>1, <1>2, <1>3, <1>4, <1>5, <1>6, <1>7, <1>8, <1>9, <1>10, <1>11, <1>12,
     <1>13, <1>14 DEF HarnessStep

LEMMA WatchdogTypes == TypeOK /\ Watchdog => TypeOK'
<1> SUFFICES ASSUME TypeOK, Watchdog PROVE TypeOK'
  OBVIOUS
<1> USE LimitFacts DEF TypeOK, WatchdogAt, shared
<1>n. None \in Said /\ "FAILED" \in Failures
  BY DEF Said, Codes, Failures
<1>1. CASE WatchdogWakes
  BY <1>1 DEF WatchdogWakes
<1>2. CASE Beat
  <2>1. CollectorSeemsAlive \in BOOLEAN /\ 0 \in 0..BeatStop /\ lost \in SUBSET Losses
    BY DEF CollectorSeemsAlive, CollectorAlive
  <2>2. HealthEvent(CollectorSeemsAlive, TRUE, lost, 0) \in Said
    <3> DEFINE alive == CollectorSeemsAlive
    <3>1. alive \in BOOLEAN
      BY <2>1
    <3> HIDE DEF alive
    <3>2. HealthEvent(alive, TRUE, lost, 0) \in Said
      BY <2>1, <3>1, EventTypes
    <3>3. QED
      BY <3>2 DEF alive
  <2>3. PICK ev \in Said : /\ safety' = Judged(ev)
                          /\ w' = [w EXCEPT !.pc = "record", !.ev = ev]
    BY <1>2, <2>2 DEF Beat
  <2>4. /\ safety' \in [stop : Codes, last : Ages \cup {NoSample}]
        /\ w' \in [pc : WatchdogAt, ev : Said]
    BY <2>3, JudgedType
  <2>5. ready' \in SUBSET {"sample", "watchdog"}
    BY <1>2 DEF Beat
  <2>6. /\ beat' = 0
        /\ UNCHANGED <<h, c, samples, events, signal, failure, stopping, lost, broken, quiet>>
    BY <1>2 DEF Beat
  <2>7. QED
    BY <2>1, <2>4, <2>5, <2>6
<1>3. CASE WatchdogFails
  <2>1. /\ signal' \in Codes
        /\ failure' \in [c : Failures, w : Failures, q : Failures]
    BY <1>3, <1>n, RecordTypes DEF WatchdogFails
  <2>2. QED
    BY <1>3, <1>n, <2>1 DEF WatchdogFails, IdleW, Break, MayBreak
<1>4. CASE WatchdogHangs
  BY <1>4 DEF WatchdogHangs, Break, MayBreak
<1>5. CASE WatchdogRecords
  <2>1. /\ events' \in SUBSET Said /\ signal' \in Codes
        /\ failure' \in [c : Failures, w : Failures, q : Failures]
    BY <1>5, RecordTypes DEF WatchdogRecords
  <2>2. QED
    BY <1>5, <1>n, <2>1 DEF WatchdogRecords, IdleW
<1>6. QED
  BY <1>1, <1>2, <1>3, <1>4, <1>5 DEF Watchdog

LEMMA CollectorTypes == TypeOK /\ Collector => TypeOK'
<1> SUFFICES ASSUME TypeOK, Collector PROVE TypeOK'
  OBVIOUS
<1> USE LimitFacts DEF TypeOK, CollectorAt, shared
<1>n. None \in Said /\ "PROBE_FAILED" \in Failures
  BY DEF Said, Codes, Failures
<1>1. CASE CollectorBegins
  BY <1>1 DEF CollectorBegins
<1>2. CASE CollectorWakes
  BY <1>2 DEF CollectorWakes
<1>3. CASE ProbeFails
  <2>1. /\ signal' \in Codes
        /\ failure' \in [c : Failures, w : Failures, q : Failures]
    BY <1>3, <1>n, RecordTypes DEF ProbeFails
  <2>2. c' \in [pc : CollectorAt, beat : 0..BeatStop, watched : BOOLEAN,
                lost : SUBSET Losses, limit : BOOLEAN, over : BOOLEAN, ev : Said,
                due : BOOLEAN]
    BY <1>3, IdleTypes DEF ProbeFails
  <2>3. broken' \in SUBSET Faults
    BY <1>3 DEF ProbeFails, Break, MayBreak
  <2>4. QED
    BY <1>3, <2>1, <2>2, <2>3 DEF ProbeFails
<1>4. CASE ProbeHangs
  BY <1>4 DEF ProbeHangs, Break, MayBreak
<1>5. CASE Observe
  <2>1. PICK limit \in BOOLEAN :
           /\ IF limit THEN Break("limit") ELSE UNCHANGED broken
           /\ c' = [c EXCEPT !.pc = "observed", !.limit = limit,
                             !.over = StopStamped, !.lost = lost \cap {"deadline"}]
    BY <1>5 DEF Observe
  <2>2. StopStamped \in BOOLEAN /\ lost \cap {"deadline"} \in SUBSET Losses
    BY DEF StopStamped, Losses
  <2>3. c' \in [pc : CollectorAt, beat : 0..BeatStop, watched : BOOLEAN,
                lost : SUBSET Losses, limit : BOOLEAN, over : BOOLEAN, ev : Said,
                due : BOOLEAN]
    BY <2>1, <2>2
  <2>4. broken' \in SUBSET Faults
    BY <2>1 DEF Break, MayBreak
  <2>5. QED
    BY <1>5, <2>3, <2>4 DEF Observe
<1>6. CASE LookAtWatchdog
  <2>1. c.lost \cup (lost \cap {"ownership"}) \in SUBSET Losses
    BY DEF Losses
  <2>2. (failure.w = None /\ WatchdogAlive) \in BOOLEAN
    BY DEF WatchdogAlive
  <2>3. CASE stopping
    BY <1>6, <2>3, IdleTypes DEF LookAtWatchdog
  <2>4. CASE ~stopping
    BY <1>6, <2>1, <2>2, <2>4 DEF LookAtWatchdog
  <2>5. QED
    BY <2>3, <2>4
<1>7. CASE AppendSample
  <2>1. samples' \in [some : BOOLEAN, age : Ages, wide : BOOLEAN, over : BOOLEAN]
    BY <1>7 DEF AppendSample, Ages
  <2>2. (h.pc = "settle") \in BOOLEAN
    OBVIOUS
  <2>3. QED
    BY <1>7, <2>1, <2>2 DEF AppendSample
<1>8. CASE ObserveSample
  <2>1. SampleEvent \in Said
    BY EventTypes
  <2>2. safety' \in [stop : Codes, last : Ages \cup {NoSample}]
    BY <1>8, <2>1, JudgedType DEF ObserveSample, Ages
  <2>3. QED
    BY <1>8, <2>1, <2>2 DEF ObserveSample
<1>9. CASE RecordSample
  <2>1. /\ events' \in SUBSET Said /\ signal' \in Codes
        /\ failure' \in [c : Failures, w : Failures, q : Failures]
    BY <1>9, RecordTypes DEF RecordSample
  <2>2. QED
    BY <1>9, <2>1, IdleTypes DEF RecordSample
<1>10. QED
  BY <1>1, <1>2, <1>3, <1>4, <1>5, <1>6, <1>7, <1>8, <1>9 DEF Collector

LEMMA WorldTypes == TypeOK /\ World => TypeOK'
<1> SUFFICES ASSUME TypeOK, World PROVE TypeOK'
  OBVIOUS
<1>1. CASE Tick
  <2>0. LastAge \in Nat
    BY LimitFacts
  <2>1. /\ Older(h.at, QualGap) \in 0..QualGap /\ Older(h.beat, BeatStop) \in 0..BeatStop
        /\ Older(beat, BeatStop) \in 0..BeatStop /\ Older(samples.age, LastAge) \in Ages
        /\ safety.last # NoSample => Older(safety.last, LastAge) \in Ages
    BY <2>0, LimitFacts, OlderType DEF TypeOK, Ages
  <2>2. samples' \in [some : BOOLEAN, age : Ages, wide : BOOLEAN, over : BOOLEAN]
    BY <1>1, <2>1 DEF Tick, TypeOK
  <2>3. QED
    BY <1>1, <2>1, <2>2 DEF Tick, TypeOK
<1>2. ASSUME NEW what \in {"ownership", "deadline"}, Lose(what) PROVE TypeOK'
  BY <1>2 DEF Lose, Break, MayBreak, TypeOK, Losses, shared
<1>3. QED
  BY <1>1, <1>2 DEF World

LEMMA TypeStep == TypeOK /\ [Next]_vars => TypeOK'
<1>1. TypeOK /\ UNCHANGED vars => TypeOK'
  BY DEF TypeOK, vars, shared
<1>2. QED
  BY <1>1, HarnessTypes, WatchdogTypes, CollectorTypes, WorldTypes DEF Next

\* The variables stay in the sets their readers assume (sidecar.py 290-322).
THEOREM SessionTypes == Spec => []TypeOK
  BY TypeInit, TypeStep, PTL DEF Spec

------------------------------------------------------------------------------
(* A healthy capture is whole *)

\* What a broken thread leaves behind.
TraceInv ==
    /\ "probe" \in broken => failure.c # None
    /\ "tick" \in broken => failure.w # None
    /\ "probe-hangs" \in broken => c.pc = "hung"
    /\ "tick-hangs" \in broken => w.pc = "hung"

\* After the joins a thread that is alive is a failure.
JoinedInv ==
    h.pc \in {"collect", "stopped"} =>
       /\ CollectorAlive => failure.c # None
       /\ WatchdogAlive => failure.w # None

HealthyInv == h.healthy => h.pc = "stopped" /\ Healthy

\* Threads that were not started do nothing.
OffInv ==
    /\ h.pc \in {"new", "begun"} => c.pc = "off"
    /\ h.pc = "new" => w.pc = "off"

CaptureInv ==
    /\ OffInv
    /\ quiet > QualGap => WideGap
    /\ TraceInv /\ JoinedInv /\ HealthyInv

\* A failure code, once there, stays.
LEMMA FailuresStay ==
    ASSUME TypeOK, [Next]_vars
    PROVE  /\ failure.c # None => failure'.c # None
           /\ failure.w # None => failure'.w # None
<1> USE DEF TypeOK
<1>r. /\ \A ev : RecordEvents(ev) => failure'.c = failure.c /\ failure'.w = failure.w
      /\ \A code : RecordFailure("c", code) =>
            failure'.c = (IF failure.c = None THEN code ELSE failure.c) /\ failure'.w = failure.w
      /\ \A code : RecordFailure("w", code) =>
            failure'.w = (IF failure.w = None THEN code ELSE failure.w) /\ failure'.c = failure.c
  BY DEF RecordEvents, RecordFailure
<1>1. CASE HarnessStep
  <2>1. CASE ReadinessTimeout
    BY <2>1, <1>r DEF ReadinessTimeout
  <2>2. CASE RecordHealth
    BY <2>2, <1>r DEF RecordHealth
  <2>3. CASE JoinWatchdog
    BY <2>3 DEF JoinWatchdog, Linger
  <2>4. CASE UNCHANGED failure
    BY <2>4
  <2>5. QED
    BY <1>1, <2>1, <2>2, <2>3, <2>4 DEF HarnessStep, Start, StartCollector, StartupEnds,
       Poll, Look, Health, Settle, StampStop, Stop, JoinCollector, Collect, shared
<1>2. CASE Watchdog
  BY <1>2, <1>r DEF Watchdog, WatchdogWakes, Beat, WatchdogFails, WatchdogHangs,
     WatchdogRecords, shared
<1>3. CASE Collector
  BY <1>3, <1>r DEF Collector, CollectorBegins, CollectorWakes, ProbeFails, ProbeHangs,
     Observe, LookAtWatchdog, AppendSample, ObserveSample, RecordSample, shared
<1>4. CASE World \/ UNCHANGED vars
  BY <1>4 DEF World, Tick, Lose, shared, vars
<1>5. QED
  BY <1>1, <1>2, <1>3, <1>4 DEF Next

\* What ends a thread ends it for good.
LEMMA ThreadsStay ==
    ASSUME TypeOK, OffInv, [Next]_vars
    PROVE  /\ OffInv'
           /\ c.pc = "hung" => c'.pc = "hung"
           /\ w.pc = "hung" => w'.pc = "hung"
           /\ h.pc \notin {"new", "begun"} =>
                 /\ ~CollectorAlive => c'.pc = c.pc
                 /\ ~WatchdogAlive => w'.pc = w.pc
<1> USE DEF TypeOK, OffInv, CollectorAlive, WatchdogAlive, HarnessAt, CollectorAt, WatchdogAt
<1>1. CASE Start \/ StartCollector
  BY <1>1 DEF Start, StartCollector
<1>2. CASE HarnessStep /\ ~(Start \/ StartCollector)
  BY <1>2 DEF HarnessStep, StartupEnds, ReadinessTimeout, Poll, Look, Health, RecordHealth,
     Settle, StampStop, Stop, JoinCollector, JoinWatchdog, Collect, IdleH
<1>3. CASE Watchdog
  BY <1>3 DEF Watchdog, WatchdogWakes, Beat, WatchdogFails, WatchdogHangs,
     WatchdogRecords, IdleW
<1>4. CASE Collector
  BY <1>4 DEF Collector, CollectorBegins, CollectorWakes, ProbeFails, ProbeHangs,
     Observe, LookAtWatchdog, AppendSample, ObserveSample, RecordSample, IdleC
<1>5. CASE World \/ UNCHANGED vars
  BY <1>5 DEF World, Tick, Lose, Running, HoldsReading, vars
<1>6. QED
  BY <1>1, <1>2, <1>3, <1>4, <1>5 DEF Next, HarnessStep

LEMMA TraceKept ==
    ASSUME TypeOK, OffInv, TraceInv, [Next]_vars
    PROVE  TraceInv'
<1>1. /\ failure.c # None => failure'.c # None
      /\ failure.w # None => failure'.w # None
      /\ c.pc = "hung" => c'.pc = "hung"
      /\ w.pc = "hung" => w'.pc = "hung"
  BY FailuresStay, ThreadsStay
<1>2. CASE broken' = broken
  BY <1>1, <1>2 DEF TraceInv
<1>3. CASE ProbeFails \/ WatchdogFails
  <2>1. "PROBE_FAILED" # None /\ "FAILED" # None
    BY DEF None
  <2>2. ProbeFails => failure'.c # None /\ broken' = broken \cup {"probe"}
    BY <2>1 DEF ProbeFails, RecordFailure, Break, TypeOK
  <2>3. WatchdogFails => failure'.w # None /\ broken' = broken \cup {"tick"}
    BY <2>1 DEF WatchdogFails, RecordFailure, Break, TypeOK
  <2>4. QED
    BY <1>1, <1>3, <2>2, <2>3 DEF TraceInv
<1>4. CASE ProbeHangs \/ WatchdogHangs
  BY <1>1, <1>4 DEF ProbeHangs, WatchdogHangs, Break, TraceInv, TypeOK
<1>5. CASE Observe
  BY <1>1, <1>5 DEF Observe, Break, TraceInv
<1>6. CASE \E what \in {"ownership", "deadline"} : Lose(what)
  BY <1>1, <1>6 DEF Lose, Break, TraceInv
<1>7. QED
  BY <1>2, <1>3, <1>4, <1>5, <1>6 DEF Next, HarnessStep, Start, StartCollector,
     StartupEnds, ReadinessTimeout, Poll, Look, Health, RecordHealth, Settle, StampStop,
     Stop, JoinCollector, JoinWatchdog, Collect, Watchdog, WatchdogWakes, Beat,
     WatchdogRecords, Collector, CollectorBegins, CollectorWakes, LookAtWatchdog,
     AppendSample, ObserveSample, RecordSample, World, Tick, vars

LEMMA JoinedKept ==
    ASSUME TypeOK, OffInv, JoinedInv, [Next]_vars
    PROVE  JoinedInv'
<1>1. /\ failure.c # None => failure'.c # None
      /\ failure.w # None => failure'.w # None
  BY FailuresStay
<1>2. h.pc \notin {"new", "begun"} =>
         /\ ~CollectorAlive => ~CollectorAlive'
         /\ ~WatchdogAlive => ~WatchdogAlive'
  BY ThreadsStay DEF CollectorAlive, WatchdogAlive
<1>3. CASE h.pc \in {"collect", "stopped"}
  BY <1>1, <1>2, <1>3 DEF JoinedInv
<1>4. CASE JoinWatchdog
  <2>1. /\ CollectorAlive => failure'.c # None
        /\ WatchdogAlive => failure'.w # None
    BY <1>4 DEF JoinWatchdog, Linger, TypeOK, None
  <2>2. UNCHANGED <<c, w>>
    BY <1>4 DEF JoinWatchdog
  <2>3. QED
    BY <2>1, <2>2 DEF JoinedInv, CollectorAlive, WatchdogAlive
<1>5. CASE h.pc \notin {"collect", "stopped"} /\ ~JoinWatchdog
  <2>1. CASE HarnessStep
    <3>1. ~Collect
      BY <1>5 DEF Collect
    <3>2. CASE RecordHealth \/ Settle \/ StampStop
      BY <3>2 DEF RecordHealth, Settle, StampStop, IdleH, JoinedInv
    <3>3. CASE JoinCollector
      BY <3>3 DEF JoinCollector, JoinedInv, TypeOK
    <3>4. CASE \/ Start \/ StartCollector \/ StartupEnds \/ ReadinessTimeout
               \/ Poll \/ Look \/ Health \/ Stop
      BY <3>4 DEF Start, StartCollector, StartupEnds, ReadinessTimeout, Poll, Look,
         Health, Stop, JoinedInv, TypeOK
    <3>5. QED
      BY <1>5, <2>1, <3>1, <3>2, <3>3, <3>4 DEF HarnessStep
  <2>2. CASE Watchdog \/ Collector \/ World \/ UNCHANGED vars
    <3>1. h'.pc = h.pc
      BY <2>2 DEF Watchdog, WatchdogWakes, Beat, WatchdogFails, WatchdogHangs,
         WatchdogRecords, Collector, CollectorBegins, CollectorWakes, ProbeFails,
         ProbeHangs, Observe, LookAtWatchdog, AppendSample, ObserveSample, RecordSample,
         World, Tick, Lose, vars, TypeOK
    <3>2. QED
      BY <1>5, <3>1 DEF JoinedInv
  <2>3. QED
    BY <2>1, <2>2 DEF Next
<1>6. QED
  BY <1>3, <1>4, <1>5

\* A silence is a gap: the gap it makes is open, or has been closed by a sample.
LEMMA GapKept ==
    ASSUME TypeOK, quiet > QualGap => WideGap, [Next]_vars
    PROVE  quiet' > QualGap => WideGap'
<1> USE LimitFacts DEF WideGap, TypeOK, Ages
<1>1. CASE Tick
  <2>1. /\ samples'.age = Older(samples.age, LastAge)
        /\ samples'.wide = samples.wide
        /\ quiet' \in {quiet, samples'.age}
    BY <1>1 DEF Tick
  <2>2. Older(samples.age, LastAge) \in 0..LastAge
        /\ Older(samples.age, LastAge) >= samples.age
    <3>1. LastAge \in Nat /\ samples.age \in 0..LastAge
      OBVIOUS
    <3>2. QED
      BY <3>1, OlderType
  <2>3. samples.age \in 0..LastAge /\ LastAge \in Nat
    OBVIOUS
  <2>4. QED
    BY <2>1, <2>2, <2>3
<1>2. CASE AppendSample
  BY <1>2 DEF AppendSample
<1>3. CASE UNCHANGED <<samples, quiet>>
  BY <1>3
<1>4. QED
  BY <1>1, <1>2, <1>3 DEF Next, HarnessStep, Start, StartCollector,
     StartupEnds, ReadinessTimeout, Poll, Look, Health, RecordHealth, Settle, StampStop,
     Stop, JoinCollector, JoinWatchdog, Collect, Watchdog, WatchdogWakes, Beat, WatchdogFails,
     WatchdogHangs, ProbeFails, ProbeHangs, Observe, Lose, shared,
     WatchdogRecords, Collector, CollectorBegins, CollectorWakes, LookAtWatchdog,
     ObserveSample, RecordSample, World, vars

\* The verdict is given once, and nothing it was read from changes after it.
LEMMA HealthyKept ==
    ASSUME TypeOK, JoinedInv, HealthyInv, [Next]_vars
    PROVE  HealthyInv'
<1>1. CASE h.healthy
  <2>1. /\ h.pc = "stopped" /\ failure.c = None /\ failure.w = None
    BY <1>1 DEF HealthyInv, Healthy
  <2>2. c.pc \in {"off", "done"} /\ w.pc \in {"off", "done"}
    BY <2>1 DEF JoinedInv, CollectorAlive, WatchdogAlive
  <2>3. ~HarnessStep
    BY <2>1 DEF HarnessStep, Start, StartCollector, StartupEnds, ReadinessTimeout, Poll,
       Look, Health, RecordHealth, Settle, StampStop, Stop, JoinCollector, JoinWatchdog,
       Collect
  <2>4. ~Watchdog /\ ~Collector
    BY <2>2 DEF Watchdog, WatchdogWakes, Beat, WatchdogFails, WatchdogHangs,
       WatchdogRecords, Collector, CollectorBegins, CollectorWakes, ProbeFails,
       ProbeHangs, Observe, LookAtWatchdog, AppendSample, ObserveSample, RecordSample
  <2>5. ~World
    BY <2>1 DEF World, Tick, Lose, Running
  <2>6. UNCHANGED vars
    BY <2>3, <2>4, <2>5 DEF Next
  <2>7. QED
    BY <2>6 DEF vars, shared, HealthyInv, Healthy, WideGap, Ready
<1>2. CASE ~h.healthy /\ Collect
  <2>1. /\ h'.pc = "stopped" /\ h'.healthy = Healthy
        /\ UNCHANGED <<failure, samples, ready>>
    BY <1>2 DEF Collect, TypeOK, shared
  <2>2. QED
    BY <2>1 DEF HealthyInv, Healthy, WideGap, Ready
<1>3. CASE ~h.healthy /\ ~Collect
  <2>1. h'.healthy = FALSE
    <3>1. CASE HarnessStep
      BY <1>3, <3>1 DEF HarnessStep, Start, StartCollector, StartupEnds, ReadinessTimeout,
         Poll, Look, Health, RecordHealth, Settle, StampStop, Stop, JoinCollector,
         JoinWatchdog, TypeOK, IdleH
    <3>2. CASE Watchdog \/ Collector \/ World \/ UNCHANGED vars
      BY <1>3, <3>2 DEF Watchdog, WatchdogWakes, Beat, WatchdogFails, WatchdogHangs,
         WatchdogRecords, Collector, CollectorBegins, CollectorWakes, ProbeFails,
         ProbeHangs, Observe, LookAtWatchdog, AppendSample, ObserveSample, RecordSample,
         World, Tick, Lose, vars, TypeOK
    <3>3. QED
      BY <3>1, <3>2 DEF Next
  <2>2. QED
    BY <2>1 DEF HealthyInv
<1>4. QED
  BY <1>1, <1>2, <1>3

LEMMA CaptureInit == Init => CaptureInv
  BY LimitFacts DEF Init, IdleH, IdleC, IdleW, CaptureInv, OffInv, TraceInv, JoinedInv,
     HealthyInv

LEMMA CaptureImplies == TypeOK /\ CaptureInv => CaptureIsWhole
<1> SUFFICES ASSUME TypeOK, CaptureInv, h.healthy
             PROVE  /\ ~CollectorAlive /\ ~WatchdogAlive
                    /\ broken \cap {"probe", "probe-hangs", "tick", "tick-hangs"} = {}
                    /\ quiet <= QualGap
  BY DEF CaptureIsWhole
<1>1. h.pc = "stopped" /\ failure.c = None /\ failure.w = None /\ ~WideGap
  BY DEF CaptureInv, HealthyInv, Healthy
<1>2. ~CollectorAlive /\ ~WatchdogAlive
  BY <1>1 DEF CaptureInv, JoinedInv
<1>3. broken \cap {"probe", "probe-hangs", "tick", "tick-hangs"} = {}
  BY <1>1, <1>2 DEF CaptureInv, TraceInv, CollectorAlive, WatchdogAlive
<1>4. quiet <= QualGap
  BY <1>1, LimitFacts DEF CaptureInv, TypeOK, Ages
<1>5. QED
  BY <1>2, <1>3, <1>4

\* A capture called healthy was taken to its end by both threads, and no stretch of
\* it is without a sample for longer than the qualifying gap (stop, sidecar.py 841).
THEOREM HealthyIsWhole == Spec => []CaptureIsWhole
<1>1. Init => TypeOK /\ CaptureInv
  BY TypeInit, CaptureInit
<1>2. TypeOK /\ CaptureInv /\ [Next]_vars => (TypeOK /\ CaptureInv)'
  <2> SUFFICES ASSUME TypeOK, CaptureInv, [Next]_vars PROVE (TypeOK /\ CaptureInv)'
    OBVIOUS
  <2>1. TypeOK'
    BY TypeStep
  <2>2. OffInv' /\ TraceInv' /\ JoinedInv' /\ HealthyInv'
    BY ThreadsStay, TraceKept, JoinedKept, HealthyKept DEF CaptureInv
  <2>3. quiet' > QualGap => WideGap'
    BY GapKept DEF CaptureInv
  <2>4. QED
    BY <2>1, <2>2, <2>3 DEF CaptureInv
<1>3. QED
  BY <1>1, <1>2, CaptureImplies, PTL DEF Spec

------------------------------------------------------------------------------
(* No alarm without its cause *)

\* What an event says is so, and stays so.
Tells(ev) ==
    /\ ev = "COLLECTOR" => failure.c # None
    /\ ev = "OWNERSHIP" => "ownership" \in lost
    /\ ev = "GAP" => quiet > GapStop
    /\ ev = "INVALID" => quiet > QualGap

EventsInv ==
    /\ Tells(h.ev) /\ Tells(c.ev) /\ Tells(w.ev)
    /\ \A ev \in events : Tells(ev)

\* What was read of a thread or of the run was so.
ReadInv ==
    /\ h.pc \notin {"new", "begun"} => c.pc # "off"
    /\ c.pc = "done" => failure.c # None
    /\ h.pc \in {"look", "health"} /\ ~h.c => failure.c # None
    /\ h.lost \subseteq lost /\ c.lost \subseteq lost

\* The evaluator's last sample is as old as the last one kept, except between the
\* keeping and the judging of one.
LastInv ==
    safety.stop = None =>
       /\ safety.last <= quiet
       /\ c.pc # "judge" => safety.last <= samples.age

AlarmInv == ~stopping => EventsInv /\ ReadInv /\ LastInv

LEMMA HealthTells ==
    ASSUME TypeOK, LastInv, NEW x, NEW y, NEW l, NEW a,
           ~x => failure.c # None, "ownership" \in l => "ownership" \in lost
    PROVE  Tells(HealthEvent(x, y, l, a))
<1>1. Gap > GapStop => safety.stop # None \/ quiet > GapStop
  BY LimitFacts DEF Gap, LastInv, TypeOK, Ages, NoSample
<1>2. Gap > QualGap => safety.stop # None \/ quiet > QualGap
  BY LimitFacts DEF Gap, LastInv, TypeOK, Ages, NoSample
<1>3. QED
  BY <1>1, <1>2 DEF HealthEvent, Tells, None

LEMMA SampleTells ==
    ASSUME TypeOK, LastInv, c.lost \subseteq lost
    PROVE  Tells(SampleEvent)
<1>1. Gap > GapStop => safety.stop # None \/ quiet > GapStop
  BY LimitFacts DEF Gap, LastInv, TypeOK, Ages, NoSample
<1>2. Gap > QualGap => safety.stop # None \/ quiet > QualGap
  BY LimitFacts DEF Gap, LastInv, TypeOK, Ages, NoSample
<1>3. QED
  BY <1>1, <1>2 DEF SampleEvent, Tells, None

\* The stop flag is never taken back.
LEMMA StopStays == [Next]_vars /\ stopping => stopping'
<1>1. stopping /\ HarnessStep => stopping'
  BY DEF HarnessStep, Start, StartCollector, StartupEnds, ReadinessTimeout, Poll, Look,
     Health, RecordHealth, Settle, StampStop, Stop, JoinCollector, JoinWatchdog, Collect
<1>2. stopping /\ Watchdog => stopping'
  BY DEF Watchdog, WatchdogWakes, Beat, WatchdogFails, WatchdogHangs, WatchdogRecords
<1>3. stopping /\ Collector => stopping'
  BY DEF Collector, CollectorBegins, CollectorWakes, ProbeFails, ProbeHangs, Observe,
     LookAtWatchdog, AppendSample, ObserveSample, RecordSample
<1>4. stopping /\ (World \/ UNCHANGED vars) => stopping'
  BY DEF World, Tick, Lose, vars
<1>5. QED
  BY <1>1, <1>2, <1>3, <1>4 DEF Next

\* Nothing that was told becomes false.
LEMMA TellingStays ==
    ASSUME TypeOK, [Next]_vars, NEW ev, Tells(ev)
    PROVE  Tells(ev)'
<1>1. failure.c # None => failure'.c # None
  BY FailuresStay
<1>2. lost \subseteq lost' /\ quiet' >= quiet
  <2>1. CASE Tick
    <3>1. quiet' = (IF samples'.age > quiet THEN samples'.age ELSE quiet)
          /\ lost' = lost
      BY <2>1 DEF Tick
    <3>2. samples'.age \in 0..LastAge /\ quiet \in 0..LastAge /\ LastAge \in Nat
      BY TypeStep, LimitFacts DEF TypeOK, Ages
    <3>3. QED
      BY <3>1, <3>2
  <2>2. CASE \E what \in {"ownership", "deadline"} : Lose(what)
    BY <2>2, LimitFacts DEF Lose, TypeOK, Ages
  <2>3. CASE UNCHANGED <<lost, quiet>>
    BY <2>3, LimitFacts DEF TypeOK, Ages
  <2>4. QED
    BY <2>1, <2>2, <2>3 DEF Next, HarnessStep, Start, StartCollector,
     StartupEnds, ReadinessTimeout, Poll, Look, Health, RecordHealth, Settle, StampStop,
     Stop, JoinCollector, JoinWatchdog, Collect, Watchdog, WatchdogWakes, Beat, WatchdogFails,
     WatchdogHangs, ProbeFails, ProbeHangs, Observe,
     WatchdogRecords, Collector, CollectorBegins, CollectorWakes, LookAtWatchdog,
     AppendSample, ObserveSample, RecordSample, World, vars
<1>3. QED
  BY <1>1, <1>2, LimitFacts, TypeStep DEF Tells, TypeOK, Ages

LEMMA LastKept ==
    ASSUME TypeOK, OffInv, LastInv, [Next]_vars
    PROVE  LastInv'
<1>t. /\ samples.age \in 0..LastAge /\ quiet \in 0..LastAge /\ LastAge \in Nat
      /\ safety.last \in 0..LastAge \cup {-1}
      /\ samples'.age \in 0..LastAge /\ quiet' \in 0..LastAge
      /\ safety'.last \in 0..LastAge \cup {-1}
  BY TypeStep, LimitFacts DEF TypeOK, Ages, NoSample
<1>1. CASE Tick
  <2>1. /\ samples'.age = Older(samples.age, LastAge)
        /\ safety'.stop = safety.stop
        /\ safety'.last = (IF safety.last = -1 THEN -1 ELSE Older(safety.last, LastAge))
        /\ quiet' = (IF samples'.age > quiet THEN samples'.age ELSE quiet)
        /\ c.pc # "judge"
    BY <1>1 DEF Tick, TypeOK, NoSample, HoldsReading
  <2>2. safety.last <= samples.age => safety'.last <= samples'.age
    BY <1>t, <2>1 DEF Older
  <2>3. samples'.age <= quiet'
    BY <1>t, <2>1
  <2>4. QED
    BY <1>t, <2>1, <2>2, <2>3 DEF LastInv
<1>2. CASE AppendSample
  BY <1>2 DEF AppendSample, LastInv, TypeOK
<1>3. CASE ObserveSample
  <2>1. c.pc = "judge" /\ UNCHANGED <<samples, quiet>>
    BY <1>3 DEF ObserveSample
  <2>2. safety'.stop = None => safety'.last = 0
    BY <1>3 DEF ObserveSample, Judged, Stops, None, TypeOK
  <2>3. QED
    BY <1>t, <2>1, <2>2 DEF LastInv
<1>4. CASE Health \/ Beat
  <2>1. safety'.last = safety.last /\ (safety'.stop = None => safety.stop = None)
    BY <1>4 DEF Health, Beat, Judged, Stops, TypeOK
  <2>2. UNCHANGED <<c, samples, quiet>>
    BY <1>4 DEF Health, Beat
  <2>3. QED
    BY <2>1, <2>2 DEF LastInv
<1>5. CASE UNCHANGED <<safety, samples, quiet>> /\ (c'.pc = "judge" \/ c.pc # "judge")
  BY <1>5 DEF LastInv
<1>6. ASSUME ~Tick, ~AppendSample, ~ObserveSample, ~Health, ~Beat
      PROVE  UNCHANGED <<safety, samples, quiet>> /\ (c'.pc = "judge" \/ c.pc # "judge")
  <2>1. CASE HarnessStep
    BY <1>6, <2>1 DEF HarnessStep, Start, StartCollector, StartupEnds, ReadinessTimeout,
       Poll, Look, RecordHealth, Settle, StampStop, Stop, JoinCollector, JoinWatchdog,
       Collect, shared, OffInv
  <2>2. CASE Watchdog
    BY <1>6, <2>2 DEF Watchdog, WatchdogWakes, WatchdogFails, WatchdogHangs,
       WatchdogRecords, shared
  <2>3. CASE Collector
    BY <1>6, <2>3 DEF Collector, CollectorBegins, CollectorWakes, ProbeFails, ProbeHangs,
       Observe, LookAtWatchdog, RecordSample, shared
  <2>4. CASE World \/ UNCHANGED vars
    BY <1>6, <2>4 DEF World, Lose, shared, vars
  <2>5. QED
    BY <2>1, <2>2, <2>3, <2>4 DEF Next
<1>7. QED
  BY <1>1, <1>2, <1>3, <1>4, <1>5, <1>6

\* What a step records was told before it, or is nothing.
LEMMA RecordTells ==
    ASSUME NEW ev, RecordEvents(ev)
    PROVE  events' \subseteq events \cup {ev}
  BY DEF RecordEvents

LEMMA EventsKept ==
    ASSUME TypeOK, EventsInv, ReadInv, LastInv, [Next]_vars
    PROVE  EventsInv'
<1>1. \A ev : Tells(ev) => Tells(ev)'
  BY TellingStays
<1>2. Tells(None)
  BY DEF Tells, None
<1>3. /\ Tells(HealthEvent(h.c, h.w, h.lost, h.beat)) \/ h.pc # "health"
      /\ Tells(SampleEvent)
      /\ Tells(HealthEvent(CollectorSeemsAlive, TRUE, lost, 0))
  <2>1. Tells(SampleEvent)
    BY SampleTells DEF ReadInv
  <2>2. ~CollectorSeemsAlive => failure.c # None
    BY DEF CollectorSeemsAlive, CollectorAlive, ReadInv
  <2>3. Tells(HealthEvent(CollectorSeemsAlive, TRUE, lost, 0))
    BY <2>2, HealthTells
  <2>4. h.pc = "health" => Tells(HealthEvent(h.c, h.w, h.lost, h.beat))
    BY HealthTells DEF ReadInv
  <2>5. QED
    BY <2>1, <2>3, <2>4
<1>4. Tells(h'.ev)
  <2>1. CASE Health
    <3>1. h'.ev = HealthEvent(h.c, h.w, h.lost, h.beat) /\ h.pc = "health"
      BY <2>1 DEF Health, TypeOK
    <3>2. QED
      BY <3>1, <1>3
  <2>2. CASE HarnessStep /\ ~Health
    <3>1. h'.ev \in {h.ev, None}
      BY <2>2 DEF HarnessStep, Start, StartCollector, StartupEnds, ReadinessTimeout, Poll,
         Look, RecordHealth, Settle, StampStop, Stop, JoinCollector, JoinWatchdog, Collect,
         IdleH, TypeOK
    <3>2. QED
      BY <3>1, <1>2 DEF EventsInv
  <2>3. CASE Watchdog \/ Collector \/ World \/ UNCHANGED vars
    <3>1. h'.ev = h.ev
      BY <2>3 DEF Watchdog, WatchdogWakes, Beat, WatchdogFails, WatchdogHangs,
         WatchdogRecords, Collector, CollectorBegins, CollectorWakes, ProbeFails,
         ProbeHangs, Observe, LookAtWatchdog, AppendSample, ObserveSample, RecordSample,
         World, Tick, Lose, vars, TypeOK
    <3>2. QED
      BY <3>1 DEF EventsInv
  <2>4. QED
    BY <2>1, <2>2, <2>3 DEF Next
<1>5. Tells(c'.ev)
  <2>1. CASE ObserveSample
    BY <2>1, <1>3 DEF ObserveSample, TypeOK
  <2>2. CASE ~ObserveSample
    <3>1. c'.ev \in {c.ev, None}
      <4>1. CASE Collector
        BY <2>2, <4>1 DEF Collector, CollectorBegins, CollectorWakes, ProbeFails,
           ProbeHangs, Observe, LookAtWatchdog, AppendSample, RecordSample, IdleC, TypeOK
      <4>2. CASE HarnessStep \/ Watchdog \/ World \/ UNCHANGED vars
        BY <4>2 DEF HarnessStep, Start, StartCollector, StartupEnds, ReadinessTimeout,
           Poll, Look, Health, RecordHealth, Settle, StampStop, Stop, JoinCollector,
           JoinWatchdog, Collect, Watchdog, WatchdogWakes, Beat, WatchdogFails,
           WatchdogHangs, WatchdogRecords, World, Tick, Lose, vars, TypeOK
      <4>3. QED
        BY <4>1, <4>2 DEF Next
    <3>2. QED
      BY <3>1, <1>2 DEF EventsInv
  <2>3. QED
    BY <2>1, <2>2
<1>6. Tells(w'.ev)
  <2>1. CASE Beat
    BY <2>1, <1>3 DEF Beat, TypeOK
  <2>2. CASE ~Beat
    <3>1. w'.ev \in {w.ev, None}
      <4>1. CASE Watchdog
        BY <2>2, <4>1 DEF Watchdog, WatchdogWakes, WatchdogFails, WatchdogHangs,
           WatchdogRecords, IdleW, TypeOK
      <4>2. CASE HarnessStep \/ Collector \/ World \/ UNCHANGED vars
        BY <4>2 DEF HarnessStep, Start, StartCollector, StartupEnds, ReadinessTimeout,
           Poll, Look, Health, RecordHealth, Settle, StampStop, Stop, JoinCollector,
           JoinWatchdog, Collect, Collector, CollectorBegins, CollectorWakes, ProbeFails,
           ProbeHangs, Observe, LookAtWatchdog, AppendSample, ObserveSample, RecordSample,
           World, Tick, Lose, vars, TypeOK
      <4>3. QED
        BY <4>1, <4>2 DEF Next
    <3>2. QED
      BY <3>1, <1>2 DEF EventsInv
  <2>3. QED
    BY <2>1, <2>2
<1>7. \A ev \in events' : Tells(ev)
  <2>1. events' \subseteq events \cup {h.ev, c.ev, w.ev}
    <3>1. CASE RecordHealth \/ WatchdogRecords \/ RecordSample
      BY <3>1, RecordTells DEF RecordHealth, WatchdogRecords, RecordSample
    <3>2. CASE UNCHANGED events
      BY <3>2
    <3>3. QED
      BY <3>1, <3>2 DEF Next, HarnessStep, Start, StartCollector, StartupEnds,
         ReadinessTimeout, Poll, Look, Health, Settle, StampStop, Stop, JoinCollector,
         JoinWatchdog, Collect, Watchdog, WatchdogWakes, Beat, WatchdogFails,
         WatchdogHangs, Collector, CollectorBegins, CollectorWakes, ProbeFails,
         ProbeHangs, Observe, LookAtWatchdog, AppendSample, ObserveSample, World, Tick,
         Lose, shared, vars
  <2>2. QED
    BY <2>1 DEF EventsInv
<1>8. QED
  <2>1. \A ev \in events' : Tells(ev)'
    BY <1>1, <1>7
  <2>2. /\ \A v : v = h'.ev => Tells(v)'
        /\ \A v : v = c'.ev => Tells(v)'
        /\ \A v : v = w'.ev => Tells(v)'
    BY <1>1, <1>4, <1>5, <1>6
  <2>3. QED
    BY <2>1, <2>2 DEF EventsInv, Tells

LEMMA ReadKept ==
    ASSUME TypeOK, ReadInv, ~stopping, [Next]_vars
    PROVE  ReadInv'
<1>1. failure.c # None => failure'.c # None
  BY FailuresStay
<1>2. CASE HarnessStep
  <2>1. UNCHANGED lost /\ (c' = c \/ (c'.pc = "begin" /\ c'.lost = c.lost))
    BY <1>2 DEF HarnessStep, Start, StartCollector, StartupEnds, ReadinessTimeout, Poll,
       Look, Health, RecordHealth, Settle, StampStop, Stop, JoinCollector, JoinWatchdog,
       Collect, TypeOK
  <2>2. CASE Poll
    <3>1. ~CollectorAlive => failure.c # None
      BY <2>2 DEF Poll, ReadInv, CollectorAlive
    <3>2. QED
      BY <1>1, <2>2, <3>1 DEF Poll, ReadInv, TypeOK
  <2>3. CASE StartCollector
    BY <1>1, <2>3 DEF StartCollector, ReadInv, TypeOK
  <2>4. CASE Start \/ StartupEnds \/ ReadinessTimeout \/ Look \/ Health \/ Stop
    <3>1. CASE Look
      BY <1>1, <3>1 DEF Look, ReadInv, TypeOK
    <3>2. CASE Start \/ StartupEnds \/ ReadinessTimeout
      BY <1>1, <3>2 DEF Start, StartupEnds, ReadinessTimeout, ReadInv, TypeOK
    <3>3. CASE Health \/ Stop
      BY <1>1, <3>3 DEF Health, Stop, ReadInv, TypeOK
    <3>4. QED
      BY <2>4, <3>1, <3>2, <3>3
  <2>5. CASE RecordHealth \/ Settle \/ StampStop
    BY <1>1, <2>5 DEF RecordHealth, Settle, StampStop, ReadInv, IdleH
  <2>6. CASE JoinCollector \/ JoinWatchdog \/ Collect
    BY <1>1, <2>6 DEF JoinCollector, JoinWatchdog, Collect, ReadInv, TypeOK
  <2>7. QED
    BY <1>2, <2>2, <2>3, <2>4, <2>5, <2>6 DEF HarnessStep
<1>3. CASE Watchdog
  <2>1. UNCHANGED <<h, c, lost>>
    BY <1>3 DEF Watchdog, WatchdogWakes, Beat, WatchdogFails, WatchdogHangs, WatchdogRecords
  <2>2. QED
    BY <1>1, <2>1 DEF ReadInv
<1>4. CASE Collector
  <2>1. CASE AppendSample
    BY <1>1, <2>1 DEF AppendSample, ReadInv, TypeOK
  <2>2. CASE ProbeFails
    <3>1. failure'.c # None
      BY <2>2 DEF ProbeFails, RecordFailure, TypeOK, None
    <3>2. QED
      BY <2>2, <3>1 DEF ProbeFails, ReadInv, IdleC
  <2>3. CASE \/ CollectorBegins \/ CollectorWakes \/ ProbeHangs \/ ObserveSample
    BY <1>1, <2>3 DEF CollectorBegins, CollectorWakes, ProbeHangs, ObserveSample, ReadInv,
       TypeOK
  <2>4. CASE Observe \/ LookAtWatchdog
    <3>1. /\ UNCHANGED <<h, lost>>
          /\ c'.pc \in {"observed", "append"} /\ c'.lost \subseteq c.lost \cup lost
      <4>1. CASE Observe
        <5>1. PICK limit \in BOOLEAN :
                 c' = [c EXCEPT !.pc = "observed", !.limit = limit,
                               !.over = StopStamped, !.lost = lost \cap {"deadline"}]
          BY <4>1 DEF Observe
        <5>2. c'.pc = "observed" /\ c'.lost = lost \cap {"deadline"}
          BY <5>1 DEF TypeOK
        <5>3. QED
          BY <4>1, <5>2 DEF Observe
      <4>2. CASE LookAtWatchdog
        <5>1. c'.pc = "append" /\ c'.lost = c.lost \cup (lost \cap {"ownership"})
          BY <4>2 DEF LookAtWatchdog, TypeOK
        <5>2. QED
          BY <4>2, <5>1 DEF LookAtWatchdog
      <4>3. QED
        BY <2>4, <4>1, <4>2
    <3>2. QED
      BY <1>1, <3>1 DEF ReadInv
  <2>5. CASE RecordSample
    BY <1>1, <2>5 DEF RecordSample, ReadInv, IdleC
  <2>6. QED
    BY <1>4, <2>1, <2>2, <2>3, <2>4, <2>5 DEF Collector
<1>5. CASE World \/ UNCHANGED vars
  <2>1. CASE Tick
    BY <1>1, <2>1 DEF Tick, ReadInv, TypeOK
  <2>2. CASE UNCHANGED vars \/ \E what \in {"ownership", "deadline"} : Lose(what)
    BY <1>1, <2>2 DEF Lose, ReadInv, vars
  <2>3. QED
    BY <1>5, <2>1, <2>2 DEF World
<1>6. QED
  BY <1>2, <1>3, <1>4, <1>5 DEF Next

LEMMA AlarmInit == Init => AlarmInv
  BY LimitFacts DEF Init, IdleH, IdleC, IdleW, AlarmInv, EventsInv, ReadInv, LastInv,
     Tells, None, NoSample

\* As long as nobody has asked the threads to end, a collector called dead has
\* failed, an ownership called uncertain was lost, and a capture called late was
\* late (sidecar.py 510-567, monitoring.py 3138-3406).
THEOREM AlarmsAreTrue == Spec => []AlarmIsTrue
<1>1. Init => TypeOK /\ OffInv /\ AlarmInv
  BY TypeInit, AlarmInit, CaptureInit DEF CaptureInv
<1>2. TypeOK /\ OffInv /\ AlarmInv /\ [Next]_vars => (TypeOK /\ OffInv /\ AlarmInv)'
  <2> SUFFICES ASSUME TypeOK, OffInv, AlarmInv, [Next]_vars
               PROVE  (TypeOK /\ OffInv /\ AlarmInv)'
    OBVIOUS
  <2>1. TypeOK' /\ OffInv'
    BY TypeStep, ThreadsStay
  <2>2. CASE stopping
    BY <2>1, <2>2, StopStays DEF AlarmInv
  <2>3. CASE ~stopping
    BY <2>1, <2>3, EventsKept, ReadKept, LastKept DEF AlarmInv
  <2>4. QED
    BY <2>2, <2>3
<1>3. AlarmInv => AlarmIsTrue
  BY DEF AlarmInv, EventsInv, Tells, AlarmIsTrue
<1>4. QED
  BY <1>1, <1>2, <1>3, PTL DEF Spec
=============================================================================

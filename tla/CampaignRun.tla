----------------------------- MODULE CampaignRun -----------------------------
(****************************************************************************)
(* One managed sequence of the CUDA campaign harness                        *)
(* (tools/cuda_campaign/harness.py): it starts the telemetry session,       *)
(* submits the actions one after the other to the JobService it owns, polls *)
(* each job, copies the boundaries its child journals into the event        *)
(* ledger, stops the job when a safety signal trips or the deadline passes, *)
(* and ends by sealing either the artifact or the capture-failure fallback. *)
(*                                                                          *)
(* The ledger is a sequence of rows.  Time stamps are not modelled: what    *)
(* the code asks of them is whether a row or a signal is older than the     *)
(* last row, and that is kept as order (sig.at, late).            *)
(****************************************************************************)
EXTENDS Integers, Sequences, FiniteSets, SequencesExt

CONSTANTS
    Actions,      \* the frozen order of the actions of the sequence
    Faults,       \* the faults that may happen
    MaxFaults     \* how many of them happen in one run

ASSUME ActionsAssumption ==
    /\ Actions \in {SubSeq(<<"preflight", "pilot", "train">>, 1, n) : n \in 1..3}
    /\ MaxFaults \in Nat
    /\ Faults \subseteq {"telemetry", "precheck", "submit", "poll", "journal",
                         "kill", "foreign", "sla", "store", "raise"}

VARIABLES
    pc,        \* where the harness thread is
    i,         \* the action it runs, an index of Actions
    act,       \* what it knows of that action
    ledger,    \* the event ledger, in memory until the seal
    results,   \* the results of the actions that ended
    job,       \* the job of the action, as the service has it
    child,     \* the process group of the job
    journal,   \* the boundaries the job journaled
    sig,       \* the first stop signal of the telemetry session
    late,      \* the last row is younger than that signal
    deadline,  \* the supervision deadline of the action has passed
    known,     \* the job is in _known_active_job_ids
    block,     \* the durable marker that blocks submissions
    tele,      \* the telemetry session
    cool,      \* the post-run cooldown window was valid
    capture,   \* the evidence status, and whether capture failed
    kept,      \* what the run left on disk
    faults     \* faults so far

vars == <<pc, i, act, ledger, results, job, child, journal, sig, late, deadline,
          known, block, tele, cool, capture, kept, faults>>

harness == <<pc, i, act, ledger, results, late, known, block, tele, cool,
             capture, kept>>
service == <<job, child, journal, deadline>>

------------------------------------------------------------------------------
(* Rows and boundaries *)

None == [why |-> "NONE", at |-> 0]
Row(ev, a, out, why) == [ev |-> ev, act |-> a, out |-> out, why |-> why]
Plain(ev)       == Row(ev, "run", "none", "NONE")

StartOf  == [pilot1 |-> "pilot1.started", pilot2 |-> "pilot2.started",
             training |-> "training.started", export |-> "export.started",
             verification |-> "verification.started"]
FinishOf == [pilot1 |-> "pilot1.finished", pilot2 |-> "pilot2.finished",
             training |-> "training.finished", export |-> "export.finished",
             verification |-> "verification.finished"]
Phases   == DOMAIN StartOf

Began(ph, a)    == Row(StartOf[ph], a, "none", "NONE")
Ended(ph, a, out, why) == Row(FinishOf[ph], a, out, why)
Passed(ph, a)   == Ended(ph, a, "passed", "NONE")

\* The ten runtime boundaries of a passing sequence.
PassOrder ==
    << Began("pilot1", "pilot"), Passed("pilot1", "pilot"),
       Began("pilot2", "pilot"), Passed("pilot2", "pilot"),
       Began("training", "train"), Began("export", "train"),
       Passed("export", "train"), Passed("training", "train"),
       Began("verification", "train"), Passed("verification", "train") >>

RuntimeEvents == Range(StartOf) \cup Range(FinishOf)
SafetyOrder ==
    <<"safety.triggered", "cancellation.requested", "process-group.terminated",
      "lease.reconciled">>

PassOf(a) == CASE a = "pilot" -> SubSeq(PassOrder, 1, 4)
               [] a = "train" -> SubSeq(PassOrder, 5, 10)
               [] OTHER -> <<>>

\* What a pass of the whole sequence has of them.
Order == SubSeq(PassOrder, 1, <<0, 4, 10>>[Len(Actions)])

\* A stranded job is a queued record that no worker serves.
ActiveJob   == {"queued", "running", "verifying", "stranded"}
TerminalJob == {"completed", "failed", "cancelled"}

\* How a sequence of passing boundaries may end when the work fails after its
\* k-th one: the innermost open boundary is closed as failed, then its outer one.
Closings(k, out, why) ==
    LET f(ph, a) == Ended(ph, a, out, why) IN
    CASE k = 1 -> {<<f("pilot1", "pilot")>>}
      [] k = 3 -> {<<f("pilot2", "pilot")>>}
      [] k \in {5, 7} -> {<<f("training", "train")>>}
      [] k = 6 -> {<<f("export", "train")>>,
                   <<f("export", "train"), f("training", "train")>>}
      [] k = 9 -> {<<f("verification", "train")>>}
      [] OTHER -> {}

------------------------------------------------------------------------------
(* The two validators the harness runs over its own ledger *)

Places(l, evs) == {k \in DOMAIN l : l[k].ev \in evs}

\* What l has at the places K is, in their order, s.
Reads(l, K, s) ==
    /\ Cardinality(K) = Len(s)
    /\ \A k \in K : l[k] = s[Cardinality({m \in K : m <= k})]

\* A pass has every boundary; a non-pass a prefix of them, perhaps with the
\* closing boundaries of the failure the outcome itself names.
RuntimeShape(l, order, out, why) ==
    LET rt == Places(l, RuntimeEvents)
        as == IF out = "timed-out" THEN "cancelled" ELSE out IN
    IF out = "passed" THEN Reads(l, rt, order)
    ELSE \E k \in 0..Len(order) :
           \E tail \in {<<>>} \cup
                (IF out \in {"failed", "cancelled", "timed-out"}
                 THEN Closings(k, as, why) ELSE {}) :
             Reads(l, rt, SubSeq(order, 1, k) \o tail)

\* The phases that started and have no finish.
OpenStarts(l) ==
    {ph \in Phases : Places(l, {StartOf[ph]}) # {} /\ Places(l, {FinishOf[ph]}) = {}}

\* The stopping action's safety rows are the four of one cancellation, in
\* order, all of its reason, after its last runtime boundary.
ExactChain(l, a, why) ==
    LET chain == Places(l, Range(SafetyOrder)) IN
    /\ Reads([k \in DOMAIN l |-> l[k].ev], chain, SafetyOrder)
    /\ \A k \in chain : l[k].act = a /\ l[k].why = why
    /\ \A k \in chain, m \in Places(l, RuntimeEvents) : m < k

\* validate_event_ledger: only a terminal non-pass may leave a start open, and
\* a cancelled one only with its whole chain.
LedgerValid(l, out, why) ==
    /\ OpenStarts(l) = {} \/
          /\ out \in {"failed", "cancelled", "timed-out", "unknown"}
          /\ why # "NONE"
          /\ RuntimeShape(l, PassOrder, out, why)
          /\ LET last == l[Max(Places(l, {"command.finished"}))] IN
             /\ last.act = l[Max(Places(l, RuntimeEvents))].act
             /\ out \in {"cancelled", "timed-out"} => ExactChain(l, last.act, why)
    /\ \A k \in Places(l, Range(Tail(SafetyOrder))) :
          \E m \in Places(l, {"safety.triggered"}) :
              m < k /\ l[m].act = l[k].act /\ l[m].why = l[k].why

\* The observed states of a job end with its terminal one, and that one is the
\* outcome the action reports.
ObservationsAgree(l, rs, evidence) ==
    \A k \in DOMAIN rs :
        LET r == rs[k]
            seen == {m \in Places(l, {"job.state-observed"}) : l[m].act = r.act}
            ends == {m \in seen : l[m].out # "none"}
            as == IF r.out = "timed-out" THEN "cancelled" ELSE r.out IN
        /\ ~r.job => seen = {}
        /\ \A e \in ends : /\ ends = {e} /\ \A m \in seen : m <= e
                           /\ l[e].out = as /\ l[e].why = r.why
        /\ r.out = "passed" \/ (r.out = "failed" /\ evidence) => ends # {}

\* validate_managed_sequence_outcome.
OutcomeValid(l, rs, out, why, evidence, clean) ==
    LET safety == Places(l, Range(SafetyOrder))
        final  == Last(rs) IN
    /\ rs # <<>>
    /\ evidence = (clean /\ \A k \in DOMAIN rs : rs[k].cap = "NONE")
    /\ \A k \in DOMAIN rs :
         /\ rs[k].act = Actions[k]
         /\ k < Len(rs) => rs[k].out = "passed"
         /\ rs[k].out = "passed" => rs[k].term /\ rs[k].job
         /\ rs[k].out \notin {"passed", "unknown"} => rs[k].term
         /\ rs[k].out \in {"refused", "guard-blocked"} => ~rs[k].job
         /\ rs[k].out \in {"failed", "cancelled", "timed-out"} => rs[k].job
    /\ out = final.out /\ why = final.why
    /\ out = "passed" => Len(rs) = Len(Actions)
    /\ out = "timed-out" => why = "DEADLINE"
    /\ out = "cancelled" => why # "DEADLINE"
    /\ (out = "passed") <=> (why = "NONE")
    /\ LedgerValid(l, out, why)
    /\ RuntimeShape(l, Order, out, why)
    /\ out # "passed" =>
         /\ final.act = "preflight" => Places(l, RuntimeEvents) = {}
         /\ final.act = "train" => Cardinality(Places(l, RuntimeEvents)) >= 4
         /\ out \in {"refused", "guard-blocked"} =>
              \A k \in Places(l, RuntimeEvents) : l[k].act # final.act
    /\ ~(evidence /\ OpenStarts(l) # {}
         /\ \E k \in Places(l, {"export.finished"}) : l[k].out # "passed")
    /\ ObservationsAgree(l, rs, evidence)
    /\ IF out \in {"cancelled", "timed-out"} THEN ExactChain(l, final.act, why)
       ELSE IF out = "guard-blocked"
            THEN \E k \in safety : /\ safety = {k} /\ l[k].why = why
                                   /\ l[k].ev = "safety.triggered"
            ELSE safety = {}

------------------------------------------------------------------------------
(* Init *)

Idle == [st |-> "none", sure |-> TRUE]
NoAct == [cur |-> Idle, drained |-> 0, reader |-> "none", stop |-> None,
          chain |-> FALSE, out |-> "unknown", why |-> "UNKNOWN", term |-> FALSE, cap |-> "NONE"]

Init ==
    /\ pc = "start" /\ i = 1 /\ act = NoAct
    /\ ledger = <<Plain("clock.mapping"), Plain("harness.started")>>
    /\ results = <<>>
    /\ job = "none" /\ child = "none" /\ journal = <<>>
    /\ sig = None /\ late = FALSE /\ deadline = FALSE
    /\ known = FALSE /\ block = FALSE
    /\ tele = "off" /\ cool = FALSE
    /\ capture = [failed |-> FALSE, valid |-> FALSE]
    /\ kept = "nothing"
    /\ faults = 0

Fault(f) == f \in Faults /\ faults < MaxFaults /\ faults' = faults + 1
NoFault  == UNCHANGED faults
Label    == Actions[i]

\* Mutant: only a job that was lost from sight blocks.
BlockUnlessKnown == block' = (block \/ ~known)

\* The durable marker: _block_submissions.
BlockSubmissions == block' = TRUE

Append1(row) == ledger' = Append(ledger, row)

------------------------------------------------------------------------------
(* The job, its child and the telemetry session: what runs beside the harness *)

\* What the child may journal next: the boundary that passes, or, when the work
\* of an open phase failed, the closing of that phase.
NextBoundaries ==
    LET done == PassOf(Label)
        n    == Len(journal)
        f(ph) == Ended(ph, Label, "failed", "FAULT") IN
    IF n > 0 /\ Last(journal).out = "failed"
    THEN IF Last(journal).ev = "export.finished" THEN {f("training")} ELSE {}
    ELSE (IF n < Len(done) /\ done[n + 1].ev # "verification.started"
             /\ done[n + 1].ev # "verification.finished"
          THEN {done[n + 1]} ELSE {})
         \cup (IF n = 0 THEN {} ELSE
               CASE Last(journal).ev = "pilot1.started" -> {f("pilot1")}
                 [] Last(journal).ev = "pilot2.started" -> {f("pilot2")}
                 [] Last(journal).ev \in {"training.started", "export.finished"} ->
                      {f("training")}
                 [] Last(journal).ev = "export.started" -> {f("export")}
                 [] OTHER -> {})

Launch ==   \* the worker thread starts the child behind its permit
    /\ job \in {"queued", "disowned"} /\ child = "none"
    /\ job' = "running" /\ child' = "alive"
    /\ UNCHANGED <<harness, act, journal, sig, deadline, faults>>

Emit ==     \* emit_boundary
    /\ job = "running" /\ child = "alive"
    /\ \E b \in NextBoundaries : journal' = Append(journal, b)
    /\ UNCHANGED <<harness, job, child, sig, deadline, faults>>

Succeeds == child = "alive" /\ Len(journal) = (CASE Label = "pilot" -> 4
                                                 [] Label = "train" -> 4
                                                 [] OTHER -> 0)
            /\ \A k \in DOMAIN journal : journal[k].out # "failed"

ChildExits ==
    /\ job = "running" /\ child = "alive"
    /\ \/ Succeeds /\ child' = "ok" /\ NoFault
       \/ /\ journal # <<>> => /\ Last(journal).out = "failed"
                                /\ Last(journal).ev # "export.finished"
          /\ child' = "bad" /\ NoFault
       \/ child' = "bad" /\ Fault("kill")
    /\ UNCHANGED <<harness, job, journal, sig, deadline>>

\* The worker after wait(): the verdict, for train after it verified and
\* promoted the artifacts between two boundaries of its own.
WorkerEnds ==
    /\ \/ /\ job = "running" /\ child = "bad" /\ job' = "failed"
          /\ UNCHANGED journal
       \/ /\ job = "running" /\ child = "ok" /\ Label # "train"
          /\ job' = "completed" /\ UNCHANGED journal
       \/ /\ job = "running" /\ child = "ok" /\ Label = "train"
          /\ job' = "verifying"
          /\ journal' = Append(journal, Began("verification", "train"))
       \/ /\ job = "verifying" /\ Last(journal).ev = "verification.started"
          /\ \E b \in {Passed("verification", "train"),
                       Ended("verification", "train", "failed", "FAULT")} :
                journal' = Append(journal, b)
          /\ UNCHANGED job
       \/ /\ job = "verifying" /\ Last(journal).ev = "verification.finished"
          /\ job' = IF Last(journal).out = "passed" THEN "completed" ELSE "failed"
          /\ UNCHANGED journal
    /\ UNCHANGED <<harness, child, sig, deadline, faults>>

ForeignCancel ==  \* another caller of the same service cancels the job
    /\ job \in {"queued", "running"} /\ Fault("foreign")
    /\ job' = "cancelled" /\ child' = "none"
    /\ UNCHANGED <<harness, journal, sig, deadline>>

\* A sample trips a limit, or one of the sidecar's threads fails; the first
\* signal stands.  A failed thread also makes the capture unhealthy.
Trip ==
    /\ tele = "up" /\ sig = None
    /\ \E why \in {"SAFETY", "TELEMETRY"} : sig' = [why |-> why, at |-> Len(journal)]
    /\ UNCHANGED <<harness, job, child, journal, deadline, faults>>

DeadlinePasses ==
    /\ ~deadline /\ pc \in {"get", "drain", "decide"} /\ deadline' = TRUE
    /\ UNCHANGED <<harness, job, child, journal, sig, faults>>

Environment == Launch \/ Emit \/ ChildExits \/ WorkerEnds \/ ForeignCancel
               \/ Trip \/ DeadlinePasses

------------------------------------------------------------------------------
(* The harness *)

StartTelemetry ==
    /\ pc = "start"
    /\ \/ /\ tele' = "up" /\ Append1(Plain("telemetry.started")) /\ pc' = "action"
          /\ NoFault /\ UNCHANGED <<block, capture>>
       \/ /\ Fault("telemetry")      \* start() raised
          /\ ledger' = ledger \o <<Plain("telemetry.started"),
                                   Plain("telemetry.failed")>>
          /\ BlockSubmissions /\ capture' = [capture EXCEPT !.failed = TRUE]
          /\ tele' = "failed" /\ pc' = "qualify"
       \/ /\ Fault("telemetry")      \* the configuration does not qualify
          /\ capture' = [capture EXCEPT !.failed = TRUE]
          /\ tele' = "failed" /\ pc' = "qualify" /\ UNCHANGED <<block, ledger>>
    /\ UNCHANGED <<service, i, act, results, sig, late, known, cool, kept>>

\* _append_action_started, and the per-action state of _supervise_managed_action.
BeginAction ==
    /\ pc = "action" /\ pc' = "presubmit"
    /\ Append1(Row("command.started", Label, "none", "NONE"))
    /\ late' = (sig # None)
    /\ act' = NoAct /\ job' = "none" /\ child' = "none" /\ journal' = <<>>
    /\ deadline' = FALSE
    /\ UNCHANGED <<i, results, sig, known, block, tele, cool, capture, kept, faults>>

\* What a result keeps of an action, with its command.finished row.
Close(l, r) ==
    /\ results' = Append(results, r)
    /\ ledger' = Append(l, Row("command.finished", Label, r.out, r.why))
    /\ pc' = "record"
Result(hasJob, out, why, term, cap, st) ==
    [act |-> Label, job |-> hasJob, out |-> out, why |-> why, term |-> term,
     cap |-> cap, st |-> st]

\* _pre_submit_signal and _guard_blocked_action.
PreSubmit ==
    /\ pc = "presubmit"
    /\ \/ /\ sig = None /\ pc' = "submit" /\ NoFault
          /\ UNCHANGED <<ledger, results, block>>
       \/ /\ sig # None /\ NoFault
          /\ Close(Append(ledger, Row("safety.triggered", Label, "none", sig.why)),
                   Result(FALSE, "guard-blocked", sig.why, TRUE,
                          IF late THEN "EVIDENCE" ELSE "NONE", "none"))
          /\ UNCHANGED block
       \/ /\ sig = None /\ Fault("precheck") /\ BlockSubmissions
          /\ Close(Append(ledger, Row("safety.triggered", Label, "none", "OWNERSHIP")),
                   Result(FALSE, "guard-blocked", "OWNERSHIP", TRUE, "NONE", "none"))
    /\ UNCHANGED <<service, i, act, sig, late, known, tele, cool, capture, kept>>

\* JobSubmissionFailure with a record that reads failed.
LostSubmission == Result(TRUE, "failed", "UNKNOWN", TRUE, "EVIDENCE", "failed")

\* service.submit: accepted; refused; failed after the record was persisted, before
\* a worker was started or after it (Handoff); or an answer that does not say
\* whether a job runs.
Submit ==
    /\ pc = "submit"
    /\ \/ /\ job' = "queued" /\ known' = TRUE /\ pc' = "opened" /\ NoFault
          /\ act' = [act EXCEPT !.cur.st = "queued"]
          /\ UNCHANGED <<ledger, results, block>>
       \/ /\ Close(ledger, Result(FALSE, "refused", "ADMISSION", TRUE, "NONE", "none"))
          /\ NoFault /\ UNCHANGED <<act, job, known, block>>
       \/ /\ Fault("submit") /\ job' \in {"failed", "stranded"}
          /\ Close(ledger, LostSubmission) /\ UNCHANGED <<act, known, block>>
       \/ /\ Fault("submit") /\ job' = "queued" /\ pc' = "handoff"
          /\ UNCHANGED <<act, ledger, results, known, block>>
       \/ /\ Fault("submit") /\ job' \in {"none", "queued"} /\ BlockSubmissions
          /\ Close(ledger, Result(FALSE, "unknown", "OWNERSHIP", FALSE, "NONE", "none"))
          /\ UNCHANGED <<act, known>>
    /\ UNCHANGED <<i, child, journal, sig, late, deadline, tele, cool, capture,
                   kept>>

\* The failed snapshot of a submission, where it is written: the record is failed,
\* until a worker that has not registered its child yet registers it all the same.
Overwritten == IF job = "queued" THEN "disowned" ELSE "failed"

\* submit has started the worker and cannot read the record it is to return: it
\* cancels the job.  Either an ended record is found, by cancel or by the second
\* reading, or the job is taken for failed and may or may not be stopped, and the
\* snapshot of it written or not.  The harness takes a completed record for failed.
Handoff ==
    /\ pc = "handoff"
    /\ \/ /\ job = "cancelled" /\ UNCHANGED <<job, child>>
          /\ Close(ledger, Result(TRUE, "cancelled", "UNKNOWN", TRUE, "EVIDENCE", job))
       \/ /\ job \in {"completed", "failed"} /\ UNCHANGED <<job, child>>
          /\ Close(ledger, Result(TRUE, "failed", "UNKNOWN", TRUE, "EVIDENCE", job))
       \/ /\ job \in {"queued", "running"} /\ job' = "cancelled" /\ child' = "none"
          /\ Close(ledger, Result(TRUE, "cancelled", "OWNERSHIP", TRUE, "EVIDENCE",
                                  "cancelled"))
       \/ /\ \/ job' \in {job, Overwritten} /\ UNCHANGED child
             \/ /\ job \in {"queued", "running"} /\ child' = "none"
                /\ job' \in {"cancelled", Overwritten}
          /\ Close(ledger, LostSubmission)
    /\ UNCHANGED <<i, act, journal, sig, late, deadline, known, block, tele, cool,
                   capture, kept, faults>>

\* _drain_runtime_boundaries: the rows of the boundaries not yet drained.
New == SubSeq(journal, act.drained + 1, Len(journal))
Drained == [act EXCEPT !.drained = Len(journal)]
Younger == late \/ (sig # None /\ New # <<>> /\ Len(journal) > sig.at)

\* _runtime_reader, and its first drain.
OpenReader ==
    /\ pc = "opened" /\ pc' = "get"
    /\ \/ /\ Label = "preflight" /\ NoFault /\ UNCHANGED <<act, ledger, late>>
       \/ /\ Label # "preflight" /\ NoFault
          /\ act' = [Drained EXCEPT !.reader = "open"]
          /\ ledger' = ledger \o New /\ late' = Younger
       \/ /\ Label # "preflight" /\ Fault("journal")
          /\ act' = [act EXCEPT !.cap = "EVIDENCE"] /\ UNCHANGED <<ledger, late>>
    /\ UNCHANGED <<service, i, results, sig, known, block, tele, cool, capture, kept>>

\* A job whose artifacts are being verified still reads "running".
Shown == IF job = "verifying" THEN "running" ELSE job

\* service.get: a record, or none that can be trusted.
GetJob ==
    /\ pc = "get" /\ pc' = "drain"
    /\ \/ /\ act' = [act EXCEPT !.cur = [st |-> job, sure |-> TRUE]]
          /\ NoFault /\ UNCHANGED block
       \/ /\ act' = [act EXCEPT !.cur.sure = FALSE]
          /\ BlockSubmissions /\ Fault("poll")
    /\ UNCHANGED <<service, i, ledger, results, sig, late, known, tele, cool, capture,
                   kept>>

\* drain_and_sample_monotonic: the drain and the clock under the journal's lock.
Drain ==
    /\ pc = "drain" /\ pc' = "decide"
    /\ \/ /\ act.reader = "open" /\ NoFault
          /\ act' = Drained /\ ledger' = ledger \o New /\ late' = Younger
       \/ /\ act.reader = "open" /\ Fault("journal")
          /\ act' = [act EXCEPT !.reader = "none", !.cap = "EVIDENCE"]
          /\ UNCHANGED <<ledger, late>>
       \/ act.reader = "none" /\ NoFault /\ UNCHANGED <<act, ledger, late>>
    /\ UNCHANGED <<service, i, results, sig, known, block, tele, cool, capture, kept>>

\* _trusted_runtime_failure_reason.
FailureReason ==
    LET emitted == SelectSeq(SubSeq(journal, 1, act.drained),
                     LAMBDA b : b.ev # "export.finished" /\ b.out = "failed") IN
    IF act.reader = "open" /\ emitted # <<>> THEN Last(emitted).why ELSE "EXIT"

\* Mutant: a cancelled job counts as failed.
VerdictOfFailure(st) == IF st = "completed" THEN "passed" ELSE "failed"

\* The outcome of an action whose job is terminal.
Verdict(st) == IF st = "completed" THEN "passed" ELSE st

\* Mutant: the row keeps the word of the record.
StateRowRaw(st, why) == Row("job.state-observed", Label, st, why)

\* The observed terminal state; rows of active states carry no outcome and are
\* left out.
StateRow(st, why) == Row("job.state-observed", Label, Verdict(st), why)

\* The record is terminal: the outcome is the job's.
JobEnded ==
    /\ pc = "decide" /\ act.cur.sure /\ act.cur.st \in TerminalJob
    /\ LET st  == act.cur.st
           why == CASE st = "completed" -> "NONE" [] st = "failed" -> FailureReason
                    [] OTHER -> "UNKNOWN" IN
       /\ act' = [act EXCEPT !.out = Verdict(st), !.why = why, !.term = TRUE]
       /\ Append1(StateRow(st, why))
    /\ pc' = "final"
    /\ UNCHANGED <<service, i, results, sig, late, known, block, tele, cool, capture,
                   kept, faults>>

\* Mutant: the deadline of the run is not looked at.
StopReasonsUntimed ==
    IF ~act.cur.sure THEN {"OWNERSHIP"} ELSE IF sig # None THEN {sig.why} ELSE {}

\* Why the poll stops the job, if it does; an answer it cannot trust comes first.
StopReasons ==
    IF ~act.cur.sure THEN {"OWNERSHIP"}
    ELSE IF sig # None THEN {sig.why}
    ELSE IF deadline THEN {"DEADLINE"} ELSE {}

PollAgain ==
    /\ pc = "decide" /\ act.cur.st \notin TerminalJob /\ StopReasons = {}
    /\ pc' = "get"
    /\ UNCHANGED <<service, i, act, ledger, results, sig, late, known, block, tele, cool, capture,
                   kept, faults>>

\* A stop: the signal gets its row unless the ledger has gone past it.
DecideStop ==
    /\ pc = "decide" /\ (act.cur.sure => act.cur.st \notin TerminalJob)
    /\ \E why \in StopReasons :
         LET mine == why \in {"OWNERSHIP", "DEADLINE"}   \* detected at observed_ns
             old  == ~mine /\ late IN
         /\ act' = [act EXCEPT !.stop = [why |-> why, at |-> IF mine THEN 0 ELSE sig.at],
                               !.chain = ~old, !.cap = IF old THEN "EVIDENCE" ELSE @]
         /\ ledger' = IF old THEN ledger
                      ELSE Append(ledger, Row("safety.triggered", Label, "none", why))
         /\ IF old \/ why = "OWNERSHIP" THEN BlockSubmissions ELSE UNCHANGED block
    /\ pc' = "cancel"
    /\ UNCHANGED <<service, i, results, sig, late, known, tele, cool, capture, kept,
                   faults>>

\* service.cancel and verify_cancellation_milestones.  A job that already ended,
\* or whose artifacts are being verified, is not cancelled; a cancellation that
\* breaks its deadlines may leave the job running.
Cancel ==
    /\ pc = "cancel" /\ pc' = "final"
    /\ \/ /\ job \in {"queued", "running"} /\ NoFault
          /\ job' = "cancelled" /\ child' = "none"
          /\ act' = [act EXCEPT !.cur = [st |-> "cancelled", sure |-> TRUE],
                       !.out = IF act.stop.why = "DEADLINE" THEN "timed-out"
                               ELSE "cancelled",
                       !.why = act.stop.why, !.term = TRUE]
          /\ ledger' = IF ~act.chain THEN ledger
                       ELSE ledger \o [k \in 1..3 |->
                              Row(SafetyOrder[k + 1], Label, "cancelled", act.stop.why)]
          /\ UNCHANGED block
       \/ /\ \/ job \in {"verifying"} \cup TerminalJob
                /\ NoFault /\ UNCHANGED <<job, child>>
             \/ job \in {"queued", "running"} /\ Fault("sla")
                /\ \/ UNCHANGED <<job, child>>
                   \/ job' = "cancelled" /\ child' = "none"
          /\ act' = [act EXCEPT !.out = "unknown", !.why = "CANCEL", !.chain = FALSE]
          /\ BlockSubmissions /\ UNCHANGED ledger
    /\ UNCHANGED <<i, results, journal, sig, late, deadline, known, tele, cool,
                   capture, kept>>

\* The last drain: a boundary older than the last row is refused by the ledger.
\* Then _append_action_finished.
Finalize ==
    /\ pc = "final"
    /\ LET older == New # <<>> /\ \/ act.term /\ act.chain
                                  \/ act.stop.at > act.drained
           lost  == act.reader = "open" /\ older
           cap   == IF lost THEN "EVIDENCE" ELSE act.cap IN
       /\ Close(ledger \o (IF act.reader = "open" /\ ~lost THEN New ELSE <<>>),
                Result(TRUE, act.out, act.why, act.term, cap, act.cur.st))
       /\ act' = [act EXCEPT !.cap = cap]
    /\ known' = (known /\ ~act.term)
    /\ UNCHANGED <<service, i, sig, late, block, tele, cool, capture, kept, faults>>

------------------------------------------------------------------------------
(* After the actions: what the run may claim, and what it leaves *)

\* The next action only after a pass.
GoesOn == Last(results).out = "passed"

\* The payloads of the action, then the next one.  What the harness knew of the
\* action, its deadline and where in its journal a signal fell were locals of the
\* call that returned.
Record ==
    /\ pc = "record"
    /\ \/ /\ Fault("store") /\ capture' = [capture EXCEPT !.failed = TRUE]
          /\ pc' = "stop" /\ UNCHANGED i
       \/ /\ NoFault /\ UNCHANGED capture
          /\ IF ~GoesOn THEN pc' = "stop" /\ UNCHANGED i
             ELSE IF i < Len(Actions) THEN pc' = "action" /\ i' = i + 1
             ELSE pc' = "cooldown" /\ UNCHANGED i
    /\ act' = NoAct /\ deadline' = FALSE /\ sig' = [sig EXCEPT !.at = 0]
    /\ UNCHANGED <<job, child, journal, ledger, results, late, known, block, tele,
                   cool, kept>>

\* _capture_qualifying_cooldown: idle samples for long enough, and no signal.
Cooldown ==
    /\ pc = "cooldown" /\ pc' = "stop"
    /\ cool' \in (IF sig = None THEN BOOLEAN ELSE {FALSE})
    /\ ledger' = ledger \o
         <<Row("cooldown.started", "run", "none", "NONE"),
           Row("cooldown.finished", "run", IF cool' THEN "passed" ELSE "failed",
               IF cool' THEN "NONE" ELSE "EVIDENCE")>>
    /\ UNCHANGED <<service, i, act, results, sig, late, known, block, tele, capture,
                   kept, faults>>

\* _stop_telemetry_detailed: a failed thread or a gap makes the capture unhealthy.
StopTelemetry ==
    /\ pc = "stop" /\ pc' = "qualify"
    /\ tele' \in (IF sig.why = "TELEMETRY" THEN {"failed"} ELSE {"healthy", "failed"})
    /\ Append1(Plain(IF tele' = "healthy" THEN "telemetry.stopped"
                     ELSE "telemetry.failed"))
    /\ UNCHANGED <<service, i, act, results, sig, late, known, block, cool, capture,
                   kept, faults>>

PassingCandidate ==
    /\ Len(results) = Len(Actions)
    /\ \A k \in DOMAIN results : results[k].out = "passed"

\* Every boundary is in the ledger, once and in order.
WholeOrder == Reads(ledger, Places(ledger, RuntimeEvents), Order)

\* Mutant: the signal and the cooldown are not asked for.
QualifiesByBoundaries ==
    /\ \A k \in DOMAIN results : results[k].st = "completed"
    /\ WholeOrder

\* evaluate_passing_qualification.
Qualifies ==
    /\ \A k \in DOMAIN results : results[k].st = "completed"
    /\ WholeOrder
    /\ sig = None /\ cool

\* The selected artifacts, and the evidence status they and the telemetry allow.
Qualify ==
    /\ pc = "qualify" /\ pc' = "finish"
    /\ \/ Fault("store") /\ capture' = [failed |-> TRUE, valid |-> FALSE]
       \/ /\ NoFault
          /\ capture' = [capture EXCEPT !.valid =
               /\ ~capture.failed /\ tele = "healthy"
               /\ \A k \in DOMAIN results : results[k].cap = "NONE"
               /\ PassingCandidate => Qualifies]
    /\ UNCHANGED <<service, i, act, ledger, results, sig, late, known, block, tele,
                   cool, kept>>

Native == IF results = <<>> THEN [out |-> "guard-blocked", why |-> "TELEMETRY"]
          ELSE [out |-> Last(results).out, why |-> Last(results).why]

Finished(l) ==
    l \o << Row("harness.finished", "run", Native.out, Native.why),
            Plain("clock.mapping"),
            Row("seal.started", "run", Native.out, Native.why) >>

\* _finish_ledger: the bytes of an invalid ledger are an exception, and nothing
\* between here and the caller handles it.
FinishLedger ==
    /\ pc = "finish" /\ ledger' = Finished(ledger)
    /\ IF LedgerValid(ledger', Native.out, Native.why)
       THEN pc' = "profile" /\ UNCHANGED kept
       ELSE pc' = "over" /\ kept' = "raised"
    /\ UNCHANGED <<service, i, act, results, sig, late, known, block, tele, cool,
                   capture, faults>>

Accepted ==
    OutcomeValid(ledger, results, Native.out, Native.why, capture.valid, capture.valid)

\* The outcome profile, then the finalized records, which need terminal jobs.
Profile ==
    /\ pc = "profile" /\ pc' = "seal"
    /\ IF /\ Accepted
          /\ ~capture.failed
          /\ \A k \in DOMAIN results : results[k].job => results[k].st \in TerminalJob
       THEN UNCHANGED capture
       ELSE capture' = [failed |-> TRUE, valid |-> FALSE]
    /\ UNCHANGED <<service, i, act, ledger, results, sig, late, known, block, tele,
                   cool, kept, faults>>

Seal ==
    /\ pc = "seal"
    /\ \/ /\ ~capture.failed /\ NoFault
          /\ kept' = "artifact" /\ pc' = "over" /\ UNCHANGED capture
       \/ /\ capture.failed /\ NoFault
          /\ pc' = "fallback" /\ UNCHANGED <<kept, capture>>
       \/ /\ ~capture.failed /\ Fault("store")
          /\ pc' = "fallback" /\ capture' = [failed |-> TRUE, valid |-> FALSE]
          /\ UNCHANGED kept
    /\ UNCHANGED <<service, i, act, ledger, results, sig, late, known, block, tele,
                   cool>>

Fallback ==
    /\ pc = "fallback" /\ pc' = "over"
    /\ \/ kept' = "fallback" /\ NoFault /\ UNCHANGED block
       \/ kept' = "raised" /\ BlockSubmissions /\ Fault("store")
    /\ UNCHANGED <<service, i, act, ledger, results, sig, late, known, tele, cool,
                   capture>>

\* An exception of _supervise_managed_action: unexpected_lifecycle_outcome cancels
\* the jobs it knows of, stops the telemetry and writes the fallback.
Raise ==
    /\ pc \in {"presubmit", "submit", "opened", "get", "drain", "decide", "final"}
    /\ Fault("raise") /\ pc' = "cleanup" /\ act' = NoAct
    /\ UNCHANGED <<service, i, ledger, results, sig, late, known, block, tele,
                   cool, capture, kept>>

CleanUp ==
    /\ pc = "cleanup" /\ pc' = "fallback"
    /\ \/ /\ ~known /\ NoFault /\ UNCHANGED <<job, child, known, block>>
       \/ /\ known /\ job \in {"queued", "running"} /\ NoFault
          /\ job' = "cancelled" /\ child' = "none" /\ known' = FALSE
          /\ UNCHANGED block
       \/ /\ known /\ BlockSubmissions
          /\ \/ job \in {"queued", "running"} /\ Fault("sla")
             \/ job \in {"verifying"} \cup TerminalJob /\ NoFault
          /\ UNCHANGED <<job, child, known>>
    /\ tele' = "failed" /\ capture' = [failed |-> TRUE, valid |-> FALSE]
    /\ UNCHANGED <<i, act, ledger, results, journal, sig, late, deadline, cool, kept>>

Over == pc = "over" /\ UNCHANGED vars

Harness == \/ StartTelemetry \/ BeginAction \/ PreSubmit \/ Submit \/ Handoff
           \/ OpenReader \/ GetJob \/ Drain \/ JobEnded \/ PollAgain \/ DecideStop \/ Cancel
           \/ Finalize \/ Record \/ Cooldown \/ StopTelemetry \/ Qualify
           \/ FinishLedger \/ Profile \/ Seal \/ Fallback \/ Raise \/ CleanUp

Next == Harness \/ (pc # "over" /\ Environment) \/ Over

\* The harness thread keeps running and the deadline of an action passes; nothing
\* is assumed of the child, of the worker or of the telemetry.
Fairness == WF_vars(Harness) /\ WF_vars(DeadlinePasses)
Spec == Init /\ [][Next]_vars /\ Fairness

------------------------------------------------------------------------------
(* Properties *)

Boundaries == Range(PassOrder) \cup
    {Ended(ph, a, "failed", "FAULT") : ph \in Phases, a \in {"pilot", "train"}}

\* Types of the variables, the ledger and the journal as sequences of rows.
TypeOK ==
    /\ i \in 1..Len(Actions) /\ faults \in 0..MaxFaults
    /\ job \in ActiveJob \cup TerminalJob \cup {"none", "disowned"}
    /\ child \in {"none", "alive", "ok", "bad"}
    /\ journal \in Seq(Boundaries) /\ act.drained \in 0..Len(journal)
    /\ sig.at \in 0..Len(journal) \cup 0..10
    /\ {late, deadline, known, block, cool} \subseteq BOOLEAN
    /\ tele \in {"off", "up", "healthy", "failed"}
    /\ kept \in {"nothing", "artifact", "fallback", "raised"}
    /\ Len(results) <= Len(Actions)

\* A result of a submission that failed after its record was persisted.
SubmissionFailed(r) == r.out = "failed" /\ r.why = "UNKNOWN"
EndedUnsubmitted    == results # <<>> /\ SubmissionFailed(Last(results))

\* The run never ends with a job of its own still active and later submissions
\* allowed: a job it lost sight of leaves the durable marker
\* (submission_blocked, _block_submissions).  The one exception is a job whose
\* submission failed at its end (JobSubmissionFailure), which writes no marker:
\* that run is the failure of its last action and is never valid evidence.
NoUnwatchedJob ==
    pc = "over" /\ job \in ActiveJob =>
        block \/ (EndedUnsubmitted /\ ~capture.valid)

\* A verdict about a job is the verdict of the service: passed, failed, cancelled
\* and timed out only for a job that ended so, no job at all for a refusal, and
\* whatever is unknown blocks later submissions.  Only a failed submission says
\* failed of a job that may have become anything, and marks its evidence missing.
VerdictMatchesJob ==
    pc = "record" =>
        LET r == Last(results) IN
        /\ r.out = "passed" => job = "completed"
        /\ r.out = "failed" =>
             job = "failed" \/ (SubmissionFailed(r) /\ r.cap = "EVIDENCE")
        /\ r.out \in {"cancelled", "timed-out"} => job = "cancelled"
        /\ r.out \in {"refused", "guard-blocked"} => job = "none"
        /\ r.out = "unknown" => block

\* A sealed artifact that may be published stands for a run in which nothing went
\* wrong: no signal, no deadline used, no marker, every boundary in the ledger.
PublishableMeansWhole ==
    kept = "artifact" /\ capture.valid /\ Native.out = "passed" =>
        /\ sig = None /\ ~block /\ tele = "healthy" /\ cool
        /\ job = "completed" /\ Len(results) = Len(Actions)
        /\ WholeOrder

\* A run that qualified is accepted by the outcome validator, as a producer and a
\* consumer of the same ledger must agree: no pass is lost to the harness's own
\* check.
PassIsAccepted ==
    pc = "profile" /\ capture.valid /\ PassingCandidate => Accepted

\* No job comes to be after the marker was written, by whatever path it was and
\* whatever becomes of the submission.
SubmitsUnblocked == [][job = "none" /\ job' # "none" => ~block]_vars

\* A run ends, even when the child hangs and the telemetry stays silent: the
\* deadline of the action stops the job.
RunEnds == <>(pc = "over")

\* "if neither a canonical raw manifest nor that receipt can be sealed, block ...
\* all further submissions" (docs/operations/cuda-empirical-campaign.md:531).
SealedOrBlocked == pc = "over" => (kept \in {"artifact", "fallback"} \/ block)
=============================================================================

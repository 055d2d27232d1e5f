-------------------------- MODULE CampaignRun_proofs --------------------------
(****************************************************************************)
(* For every sequence of actions and any number of faults: a managed        *)
(* sequence submits nothing once its marker is written; unless the          *)
(* submission of the job itself failed at its end, what it says of a job is *)
(* what the service says, and it never ends beside an active job of its own *)
(* without the marker; a published pass is one of a whole run, and a run    *)
(* that qualified is not refused by the validator of its own ledger.        *)
(*                                                                          *)
(* None of them is inductive.  RunInv adds what each program point          *)
(* knows: where the marker may be set (BlockInv), that a terminal answer of *)
(* a poll stays true (AnswerInv), what a verdict about to be recorded says  *)
(* (VerdictInv), which list an active job is on (WatchInv), and that no     *)
(* evidence is valid before it is judged (CaptureInv).  SealInv says what   *)
(* still stands of that when the artifact is sealed.  PassInv               *)
(* says what the ledger of a run without a failure holds at each point: no  *)
(* row of a stop, and one observed pass for each action that ended.         *)
(****************************************************************************)
EXTENDS CampaignRun, FiniteSetTheorems, TLAPS

------------------------------------------------------------------------------
(* The inductive invariant *)

AnyJob == ActiveJob \cup TerminalJob \cup {"none", "disowned"}

\* The jobs whose record is active, or may become active again.
Unended == ActiveJob \cup {"disowned"}

ShapeInv ==
    /\ job \in AnyJob
    /\ results \in Seq(Range(results))
    /\ DOMAIN act = DOMAIN NoAct
    /\ DOMAIN act.cur = DOMAIN Idle
    /\ DOMAIN capture = DOMAIN [failed |-> FALSE, valid |-> FALSE]

\* Before the submission there is no job of the action; its end has one.
FreshInv == /\ pc \in {"start", "presubmit", "submit"} => job = "none"
            /\ pc = "handoff" => job # "none"

\* Where the marker may be set, what is known excludes a pass.
BlockInv ==
    /\ pc \in {"start", "action", "presubmit", "submit", "opened", "get"} => ~block
    /\ pc \in {"drain", "decide"} /\ block => ~act.cur.sure
    /\ pc = "final" /\ block => act.out # "passed"
    /\ pc = "record" /\ block => Last(results).out # "passed"

\* A terminal state that was read is the state.
AnswerInv ==
    pc \in {"drain", "decide"} /\ act.cur.sure /\ act.cur.st \in TerminalJob
        => job = act.cur.st

\* The failure of a submission, whose evidence is missing.
Unsubmitted(r) == SubmissionFailed(r) /\ r.cap = "EVIDENCE"

Agrees(out) ==
    /\ out = "passed" => job = "completed"
    /\ out \in {"cancelled", "timed-out"} => job = "cancelled"
    /\ out \in {"refused", "guard-blocked"} => job = "none"
    /\ out = "unknown" => block

VerdictInv ==
    /\ pc = "final" => /\ Agrees(act.out) /\ (act.out = "failed" => job = "failed")
                       /\ act.out \in {"passed", "failed", "cancelled", "timed-out",
                                       "unknown"}
    /\ pc = "record" => /\ Agrees(Last(results).out)
                        /\ Last(results).out = "failed" =>
                             job = "failed" \/ Unsubmitted(Last(results))
                        /\ Last(results).out \in
                             {"passed", "failed", "cancelled", "timed-out", "unknown",
                              "refused", "guard-blocked"}

\* A job that is not over is known to the clean-up, or the marker is there, or its
\* submission failed and the run is no evidence.
WatchInv ==
    /\ pc \in {"opened", "get", "drain", "decide", "cancel", "final", "cleanup"}
         /\ job \in Unended => known
    /\ pc \in {"record", "cooldown", "stop", "qualify", "finish", "profile", "seal",
               "fallback", "over"}
         /\ job \in Unended /\ ~block =>
             results # <<>> /\ Unsubmitted(Last(results)) /\ ~capture.valid

\* Before the evidence is judged none is valid.
CaptureInv ==
    pc \notin {"finish", "profile", "seal", "fallback", "over"} => ~capture.valid

RunInv == /\ ShapeInv /\ FreshInv /\ BlockInv /\ AnswerInv /\ VerdictInv /\ WatchInv
          /\ CaptureInv

------------------------------------------------------------------------------
(* Sequences *)

\* A sequence stays one, and ends with what was appended to it.
LEMMA AppendLast ==
    ASSUME NEW s, s \in Seq(Range(s)), NEW r
    PROVE  /\ Append(s, r) \in Seq(Range(Append(s, r)))
           /\ Last(Append(s, r)) = r
           /\ Append(s, r) # <<>>
<1> DEFINE S == Range(s) \cup {r}
           t == Append(s, r)
<1>1. s \in Seq(S)
  OBVIOUS
<1>2. t \in Seq(S) /\ Len(t) = Len(s) + 1 /\ Len(s) \in Nat
  BY <1>1
<1>3. Last(t) = r
  BY <1>1, <1>2 DEF Last
<1>4. \A k \in 1..Len(t) : t[k] \in Range(t)
  BY <1>2 DEF Range
<1>5. t \in Seq(Range(t))
  BY <1>2, <1>4
<1>6. QED
  BY <1>2, <1>3, <1>5

------------------------------------------------------------------------------
(* Preservation *)

\* The service, its jobs and the telemetry keep the invariant: a job that is
\* over stays so, and a job that is none stays none.
LEMMA EnvironmentKeeps == RunInv /\ Environment => RunInv'
<1> SUFFICES ASSUME RunInv, Environment PROVE RunInv'
  OBVIOUS
<1>1. UNCHANGED <<pc, act, results, known, block, capture>>
  BY DEF Environment, Launch, Emit, ChildExits, WorkerEnds, ForeignCancel, Trip,
         DeadlinePasses, harness
<1>2. \/ job' = job
      \/ job \in Unended /\ job' \in AnyJob \ {"none"}
  BY DEF Environment, Launch, Emit, ChildExits, WorkerEnds, ForeignCancel, Trip,
         DeadlinePasses, AnyJob, Unended, ActiveJob, TerminalJob
<1>3. (job \in TerminalJob \cup {"none"} => job' = job) /\ (job' \in Unended => job \in Unended)
  BY <1>2 DEF RunInv, ShapeInv, AnyJob, Unended, ActiveJob, TerminalJob
<1>4. QED
  BY <1>1, <1>2, <1>3 DEF RunInv, ShapeInv, FreshInv, BlockInv, AnswerInv, Agrees,
     VerdictInv, WatchInv, CaptureInv, AnyJob, Unended, ActiveJob, TerminalJob

\* Every action up to the submission.
LEMMA OpeningKeeps ==
    RunInv /\ (StartTelemetry \/ BeginAction \/ PreSubmit \/ Submit \/ Handoff
                 \/ OpenReader)
        => RunInv'
<1> SUFFICES ASSUME RunInv,
                    StartTelemetry \/ BeginAction \/ PreSubmit \/ Submit \/ Handoff
                      \/ OpenReader
             PROVE  RunInv'
  OBVIOUS
<1> USE DEF RunInv, ShapeInv, FreshInv, BlockInv, AnswerInv, Agrees, VerdictInv,
            WatchInv, CaptureInv, AnyJob, Unended, ActiveJob, TerminalJob
<1>1. CASE StartTelemetry
  BY <1>1 DEF StartTelemetry, service, BlockSubmissions
<1>2. CASE BeginAction
  BY <1>2 DEF BeginAction, NoAct, Idle
<1>r. \A l, r : Close(l, r) => /\ results' \in Seq(Range(results'))
                             /\ Last(results') = r
                             /\ results' # <<>>
                             /\ pc' = "record"
  BY AppendLast DEF Close
<1>3. CASE PreSubmit
  BY <1>3, <1>r DEF PreSubmit, service, BlockSubmissions, Result
<1>l. Close(ledger, LostSubmission) => /\ results' # <<>> /\ Unsubmitted(Last(results'))
                                       /\ Last(results').out = "failed"
  BY <1>r DEF LostSubmission, Result, Unsubmitted, SubmissionFailed
<1>4. CASE Submit
  <2>1. CASE Close(ledger, LostSubmission)
    BY <1>4, <1>r, <1>l, <2>1 DEF Submit, BlockSubmissions, Result
  <2>2. CASE ~Close(ledger, LostSubmission)
    BY <1>4, <1>r, <2>2 DEF Submit, BlockSubmissions, Result, NoAct, Idle
  <2>3. QED
    BY <2>1, <2>2
<1>h. CASE Handoff
  <2>1. /\ pc = "handoff" /\ UNCHANGED <<act, known, block, capture>> /\ job # "none"
        /\ job' \in AnyJob \ {"none"}
    BY <1>h DEF Handoff, Overwritten
  <2>2. CASE Close(ledger, LostSubmission)
    BY <1>r, <1>l, <2>1, <2>2
  <2>3. CASE ~Close(ledger, LostSubmission)
    <3>1. PICK out, why, st :
             /\ Close(ledger, Result(TRUE, out, why, TRUE, "EVIDENCE", st))
             /\ \/ out = "cancelled" /\ job' = "cancelled"
                \/ out = "failed" /\ why = "UNKNOWN" /\ job' \in {"completed", "failed"}
      BY <1>h, <2>3 DEF Handoff
    <3>2. /\ Last(results').out = out /\ Last(results').why = why
          /\ Last(results').cap = "EVIDENCE" /\ pc' = "record"
          /\ results' # <<>> /\ results' \in Seq(Range(results'))
      BY <1>r, <3>1 DEF Result
    <3>3. QED
      BY <2>1, <3>1, <3>2 DEF Unsubmitted, SubmissionFailed
  <2>4. QED
    BY <2>2, <2>3
<1>5. CASE OpenReader
  BY <1>5 DEF OpenReader, service, Drained, NoAct, Idle
<1>6. QED
  BY <1>1, <1>2, <1>3, <1>4, <1>5, <1>h

\* Every action that watches the job.
LEMMA WatchKeeps ==
    RunInv /\ (GetJob \/ Drain \/ JobEnded \/ PollAgain \/ DecideStop \/ Cancel
                 \/ Finalize)
        => RunInv'
<1> SUFFICES ASSUME RunInv,
                    GetJob \/ Drain \/ JobEnded \/ PollAgain \/ DecideStop \/ Cancel
                      \/ Finalize
             PROVE  RunInv'
  OBVIOUS
<1> USE DEF RunInv, ShapeInv, FreshInv, BlockInv, AnswerInv, Agrees, VerdictInv,
            WatchInv, CaptureInv, AnyJob, Unended, ActiveJob, TerminalJob
<1>1. CASE GetJob
  BY <1>1 DEF GetJob, service, BlockSubmissions, NoAct, Idle
<1>2. CASE Drain
  BY <1>2 DEF Drain, service, Drained, NoAct, Idle
<1>3. CASE JobEnded
  BY <1>3 DEF JobEnded, service, Verdict, NoAct, Idle
<1>4. CASE PollAgain
  BY <1>4 DEF PollAgain, service, StopReasons
<1>5. CASE DecideStop
  BY <1>5 DEF DecideStop, service, BlockSubmissions, NoAct, Idle
<1>6. CASE Cancel
  BY <1>6 DEF Cancel, BlockSubmissions, NoAct, Idle
<1>r. \A l, r : Close(l, r) => /\ results' \in Seq(Range(results'))
                             /\ Last(results') = r
                             /\ pc' = "record"
  BY AppendLast DEF Close
<1>7. CASE Finalize
  BY <1>7, <1>r DEF Finalize, service, Result, NoAct, Idle
<1>8. QED
  BY <1>1, <1>2, <1>3, <1>4, <1>5, <1>6, <1>7

\* Every action after the actions, and the clean-up.
LEMMA ClosingKeeps ==
    RunInv /\ (Record \/ Cooldown \/ StopTelemetry \/ Qualify \/ FinishLedger
                 \/ Profile \/ Seal \/ Fallback \/ Raise \/ CleanUp)
        => RunInv'
<1> SUFFICES ASSUME RunInv,
                    Record \/ Cooldown \/ StopTelemetry \/ Qualify \/ FinishLedger
                      \/ Profile \/ Seal \/ Fallback \/ Raise \/ CleanUp
             PROVE  RunInv'
  OBVIOUS
<1> USE DEF RunInv, ShapeInv, FreshInv, BlockInv, AnswerInv, Agrees, VerdictInv,
            WatchInv, CaptureInv, AnyJob, Unended, ActiveJob, TerminalJob
<1>1. CASE Record
  BY <1>1 DEF Record, GoesOn, NoAct
<1>2. CASE Cooldown
  BY <1>2 DEF Cooldown, service
<1>3. CASE StopTelemetry
  BY <1>3 DEF StopTelemetry, service
<1>4. CASE Qualify
  <2>1. /\ pc = "qualify" /\ pc' = "finish"
        /\ UNCHANGED <<job, act, results, known, block>>
    BY <1>4 DEF Qualify, service
  <2>2. /\ DOMAIN capture' = DOMAIN capture
        /\ capture'.valid => \A k \in DOMAIN results : results[k].cap = "NONE"
    BY <1>4 DEF Qualify
  <2>3. results # <<>> => Len(results) \in DOMAIN results
    BY DEF ShapeInv
  <2>4. results # <<>> /\ Last(results).cap = "EVIDENCE" => ~capture'.valid
    BY <2>2, <2>3 DEF Last
  <2>5. QED
    BY <2>1, <2>2, <2>4 DEF Unsubmitted, SubmissionFailed
<1>5. CASE FinishLedger
  BY <1>5 DEF FinishLedger, service
<1>6. CASE Profile
  BY <1>6 DEF Profile, service
<1>7. CASE Seal
  BY <1>7 DEF Seal, service
<1>8. CASE Fallback
  BY <1>8 DEF Fallback, service, BlockSubmissions, Unsubmitted, SubmissionFailed
<1>9. CASE Raise
  BY <1>9 DEF Raise, service, NoAct
<1>10. CASE CleanUp
  BY <1>10 DEF CleanUp, BlockSubmissions
<1>11. QED
  BY <1>1, <1>2, <1>3, <1>4, <1>5, <1>6, <1>7, <1>8, <1>9, <1>10

\* RunInv holds at the start, and a step that changes nothing keeps it.
LEMMA RunInvStart == Init => RunInv
<1> SUFFICES ASSUME Init PROVE RunInv
  OBVIOUS
<1>1. results \in Seq(Range(results))
  <2>1. <<>> \in Seq(Range(<<>>))
    OBVIOUS
  <2>2. QED
    BY <2>1 DEF Init
<1>2. DOMAIN act = DOMAIN NoAct /\ DOMAIN act.cur = DOMAIN Idle
  BY DEF Init, NoAct
<1>3. QED
  BY <1>1, <1>2 DEF Init, RunInv, ShapeInv, FreshInv, BlockInv, AnswerInv, VerdictInv,
     WatchInv, CaptureInv, AnyJob, Unended, ActiveJob, TerminalJob

LEMMA RunInvStutter == RunInv /\ UNCHANGED vars => RunInv'
  BY DEF vars, RunInv, ShapeInv, FreshInv, BlockInv, AnswerInv, Agrees, VerdictInv,
     WatchInv, CaptureInv

LEMMA RunInvStep == RunInv /\ [Next]_vars => RunInv'
<1> SUFFICES ASSUME RunInv, [Next]_vars PROVE RunInv'
  OBVIOUS
<1>1. CASE Harness
  BY <1>1, OpeningKeeps, WatchKeeps, ClosingKeeps DEF Harness
<1>2. CASE Environment
  BY <1>2, EnvironmentKeeps
<1>3. CASE UNCHANGED vars
  BY <1>3, RunInvStutter
<1>4. QED
  BY <1>1, <1>2, <1>3 DEF Next, Over

------------------------------------------------------------------------------
(* The sealed artifact *)

\* What has been decided by the time the ledger is closed stands: the last result
\* tells what became of the job, and the evidence was qualified by a stopped session.
Closing == pc \in {"finish", "profile", "seal"} \/ kept = "artifact"

EndedWell == results # <<>> /\ Last(results).out = "passed"

SealInv ==
    /\ capture \in [failed : BOOLEAN, valid : BOOLEAN]
    /\ kept # "nothing" => pc = "over"
    /\ (pc = "start" => results = <<>>) /\ (pc = "record" => results # <<>>)
    /\ (pc \in {"record", "cooldown", "stop", "qualify"} \/ Closing) /\ EndedWell
           => job = "completed" /\ ~block
    /\ Closing /\ capture.valid
           => tele = "healthy" /\ (PassingCandidate => sig = None /\ cool)
    /\ (pc = "seal" /\ ~capture.failed) \/ kept = "artifact" => Accepted

LEMMA SealEnvironment == RunInv /\ SealInv /\ pc # "over" /\ Environment => SealInv'
<1> SUFFICES ASSUME RunInv, SealInv, pc # "over", Environment PROVE SealInv'
  OBVIOUS
<1>1. /\ UNCHANGED <<pc, results, block, capture, kept, tele, cool, ledger>>
      /\ job = "completed" => job' = "completed"
      /\ sig' = sig \/ tele = "up"
  BY DEF Environment, Launch, Emit, ChildExits, WorkerEnds, ForeignCancel, Trip,
         DeadlinePasses, harness, ActiveJob, TerminalJob
<1>2. Accepted' = Accepted
  BY <1>1 DEF Accepted, Native
<1>3. PassingCandidate' = PassingCandidate
  BY <1>1 DEF PassingCandidate
<1>4. QED
  BY <1>1, <1>2, <1>3 DEF SealInv, Closing, EndedWell

\* While actions run nothing is closed yet; a result that was recorded is one of RunInv.
LEMMA SealWatch ==
    RunInv' /\ SealInv
    /\ (StartTelemetry \/ BeginAction \/ PreSubmit \/ Submit \/ Handoff \/ OpenReader \/ GetJob \/ Drain
          \/ JobEnded \/ PollAgain \/ DecideStop \/ Cancel \/ Finalize)
        => SealInv'
<1> SUFFICES ASSUME RunInv', SealInv,
                    StartTelemetry \/ BeginAction \/ PreSubmit \/ Submit \/ Handoff \/ OpenReader
                      \/ GetJob \/ Drain \/ JobEnded \/ PollAgain \/ DecideStop \/ Cancel
                      \/ Finalize
             PROVE  SealInv'
  OBVIOUS
<1>1. kept = "nothing" /\ kept' = kept
  BY DEF SealInv, StartTelemetry, BeginAction, PreSubmit, Submit, Handoff, OpenReader, GetJob, Drain,
         JobEnded, PollAgain, DecideStop, Cancel, Finalize
<1>2. capture' \in [failed : BOOLEAN, valid : BOOLEAN]
  BY DEF SealInv, StartTelemetry, BeginAction, PreSubmit, Submit, Handoff, OpenReader, GetJob, Drain,
         JobEnded, PollAgain, DecideStop, Cancel, Finalize
<1>3. CASE pc' = "record"
  <2>1. results' # <<>>
    <3>1. PICK r : results' = Append(results, r)
      BY <1>3 DEF StartTelemetry, BeginAction, PreSubmit, Submit, Handoff, OpenReader, GetJob, Drain,
         JobEnded, PollAgain, DecideStop, Cancel, Finalize, Close
    <3>2. QED
      BY <3>1
  <2>2. EndedWell' => job' = "completed" /\ ~block'
    BY <1>3 DEF RunInv, BlockInv, VerdictInv, Agrees, EndedWell
  <2>3. QED
    BY <1>1, <1>2, <1>3, <2>1, <2>2 DEF SealInv, Closing
<1>4. CASE pc' = "qualify"
  <2>1. pc = "start" /\ results' = results
    BY <1>4 DEF StartTelemetry, BeginAction, PreSubmit, Submit, Handoff, OpenReader, GetJob, Drain,
       JobEnded, PollAgain, DecideStop, Cancel, Finalize, Close
  <2>2. QED
    BY <1>1, <1>2, <1>4, <2>1 DEF SealInv, Closing, EndedWell
<1>5. CASE pc' \notin {"record", "qualify"}
  <2>1. pc' \in {"action", "presubmit", "submit", "handoff", "opened", "get", "drain", "decide", "cancel",
                 "final"}
    BY <1>5 DEF StartTelemetry, BeginAction, PreSubmit, Submit, Handoff, OpenReader, GetJob, Drain,
       JobEnded, PollAgain, DecideStop, Cancel, Finalize, Close
  <2>2. QED
    BY <1>1, <1>2, <2>1 DEF SealInv, Closing
<1>6. QED
  BY <1>3, <1>4, <1>5

\* What passed is a candidate, if the validator of the outcome says so.
LEMMA AcceptedPass ==
    ASSUME RunInv, Accepted, Native.out = "passed"
    PROVE  PassingCandidate /\ WholeOrder
<1>1. OutcomeValid(ledger, results, "passed", Native.why, capture.valid, capture.valid)
  BY DEF Accepted
<1>2. /\ results # <<>> /\ Last(results).out = "passed" /\ Len(results) = Len(Actions)
      /\ \A k \in DOMAIN results : k < Len(results) => results[k].out = "passed"
      /\ RuntimeShape(ledger, Order, "passed", Native.why)
  BY <1>1 DEF OutcomeValid
<1>3. WholeOrder
  BY <1>2 DEF RuntimeShape, WholeOrder
<1>4. DOMAIN results = 1..Len(results) /\ Len(results) \in Nat
  BY DEF RunInv, ShapeInv
<1>5. ASSUME NEW k \in DOMAIN results PROVE results[k].out = "passed"
  <2>1. CASE k < Len(results)
    BY <1>2, <2>1
  <2>2. CASE k = Len(results)
    BY <1>2, <2>2 DEF Last
  <2>3. QED
    BY <1>4, <2>1, <2>2
<1>6. QED
  BY <1>2, <1>3, <1>5 DEF PassingCandidate

\* What follows the actions.
LEMMA SealClosing ==
    RunInv /\ SealInv
    /\ (Record \/ Cooldown \/ StopTelemetry \/ Qualify \/ FinishLedger \/ Profile \/ Seal
          \/ Fallback \/ Raise \/ CleanUp)
        => SealInv'
<1> SUFFICES ASSUME RunInv, SealInv,
                    Record \/ Cooldown \/ StopTelemetry \/ Qualify \/ FinishLedger \/ Profile
                      \/ Seal \/ Fallback \/ Raise \/ CleanUp
             PROVE  SealInv'
  OBVIOUS
<1>1. CASE Record
  BY <1>1 DEF Record, SealInv, Closing, EndedWell
<1>2. CASE Cooldown
  BY <1>2 DEF Cooldown, service, SealInv, Closing, EndedWell
<1>3. CASE StopTelemetry
  BY <1>3 DEF StopTelemetry, service, SealInv, Closing, EndedWell
<1>4. CASE Qualify
  <2>1. /\ pc' = "finish" /\ UNCHANGED <<job, block, results, kept, tele, cool, sig, ledger>>
        /\ pc = "qualify"
    BY <1>4 DEF Qualify, service
  <2>2. PassingCandidate' = PassingCandidate
    BY <2>1 DEF PassingCandidate
  <2>3. /\ capture' \in [failed : BOOLEAN, valid : BOOLEAN]
        /\ capture'.valid => tele = "healthy" /\ (PassingCandidate => Qualifies)
    <3>1. CASE capture' = [failed |-> TRUE, valid |-> FALSE]
      BY <3>1
    <3>2. ASSUME NEW v \in BOOLEAN, capture' = [capture EXCEPT !.valid = v],
                 v => tele = "healthy" /\ (PassingCandidate => Qualifies)
          PROVE  /\ capture' \in [failed : BOOLEAN, valid : BOOLEAN]
                 /\ capture'.valid => tele = "healthy" /\ (PassingCandidate => Qualifies)
      BY <3>2 DEF SealInv
    <3>3. QED
      BY <1>4, <3>1, <3>2 DEF Qualify
  <2>4. kept = "nothing"
    BY <2>1 DEF SealInv
  <2>5. QED
    BY <2>1, <2>2, <2>3, <2>4 DEF SealInv, Closing, EndedWell, Qualifies
<1>5. CASE FinishLedger
  <2>1. /\ pc = "finish" /\ pc' \in {"profile", "over"} /\ kept' \in {kept, "raised"}
        /\ UNCHANGED <<job, block, results, tele, cool, sig, capture>>
        /\ kept' # kept => pc' = "over"
    BY <1>5 DEF FinishLedger, service
  <2>2. PassingCandidate' = PassingCandidate
    BY <2>1 DEF PassingCandidate
  <2>3. QED
    BY <2>1, <2>2 DEF SealInv, Closing, EndedWell
<1>6. CASE Profile
  <2>1. /\ pc = "profile" /\ pc' = "seal"
        /\ UNCHANGED <<job, block, results, kept, tele, cool, sig, ledger>>
        /\ \/ capture' = capture /\ Accepted
           \/ capture' = [failed |-> TRUE, valid |-> FALSE]
    BY <1>6 DEF Profile, service
  <2>2. PassingCandidate' = PassingCandidate
    BY <2>1 DEF PassingCandidate
  <2>3. capture' = capture => Accepted' = Accepted
    BY <2>1 DEF Accepted, Native
  <2>4. kept = "nothing"
    BY <2>1 DEF SealInv
  <2>5. EndedWell' = EndedWell
    BY <2>1 DEF EndedWell
  <2>6. CASE capture' = capture /\ Accepted
    BY <2>1, <2>2, <2>3, <2>4, <2>5, <2>6 DEF SealInv, Closing
  <2>7. CASE capture' = [failed |-> TRUE, valid |-> FALSE]
    <3>1. capture'.failed /\ ~capture'.valid /\ capture' \in [failed : BOOLEAN, valid : BOOLEAN]
      BY <2>7
    <3>2. QED
      BY <2>1, <2>4, <2>5, <3>1 DEF SealInv, Closing
  <2>8. QED
    BY <2>1, <2>6, <2>7
<1>7. CASE Seal
  <2>1. /\ pc = "seal" /\ UNCHANGED <<job, block, results, tele, cool, sig, ledger>>
        /\ \/ /\ ~capture.failed /\ kept' = "artifact" /\ pc' = "over" /\ capture' = capture
           \/ /\ pc' = "fallback" /\ kept' = kept
              /\ capture' \in {capture, [failed |-> TRUE, valid |-> FALSE]}
    BY <1>7 DEF Seal, service
  <2>2. PassingCandidate' = PassingCandidate
    BY <2>1 DEF PassingCandidate
  <2>3. capture' = capture => Accepted' = Accepted
    BY <2>1 DEF Accepted, Native
  <2>4. kept = "nothing"
    BY <2>1 DEF SealInv
  <2>5. EndedWell' = EndedWell
    BY <2>1 DEF EndedWell
  <2>6. CASE kept' = "artifact" /\ ~capture.failed /\ pc' = "over" /\ capture' = capture
    BY <2>1, <2>2, <2>3, <2>5, <2>6 DEF SealInv, Closing
  <2>7. CASE /\ pc' = "fallback" /\ kept' = kept
             /\ capture' \in {capture, [failed |-> TRUE, valid |-> FALSE]}
    <3>1. capture' \in [failed : BOOLEAN, valid : BOOLEAN]
      <4>1. [failed |-> TRUE, valid |-> FALSE] \in [failed : BOOLEAN, valid : BOOLEAN]
        OBVIOUS
      <4>2. QED
        BY <2>7, <4>1, Zenon DEF SealInv
    <3>2. QED
      BY <2>4, <2>7, <3>1 DEF SealInv, Closing
  <2>8. QED
    BY <2>1, <2>6, <2>7
<1>8. CASE Fallback
  BY <1>8 DEF Fallback, service, BlockSubmissions, SealInv, Closing
<1>9. CASE Raise
  BY <1>9 DEF Raise, service, SealInv, Closing
<1>10. CASE CleanUp
  BY <1>10 DEF CleanUp, SealInv, Closing
<1>11. QED
  BY <1>1, <1>2, <1>3, <1>4, <1>5, <1>6, <1>7, <1>8, <1>9, <1>10

LEMMA SealInvStep == RunInv /\ RunInv' /\ SealInv /\ [Next]_vars => SealInv'
<1> SUFFICES ASSUME RunInv, RunInv', SealInv, [Next]_vars PROVE SealInv'
  OBVIOUS
<1>1. CASE Harness
  BY <1>1, SealWatch, SealClosing DEF Harness
<1>2. CASE pc # "over" /\ Environment
  BY <1>2, SealEnvironment
<1>3. CASE UNCHANGED vars
  <2>1. Accepted' = Accepted /\ PassingCandidate' = PassingCandidate
    BY <1>3 DEF vars, Accepted, Native, PassingCandidate
  <2>2. QED
    BY <1>3, <2>1 DEF vars, SealInv, Closing, EndedWell
<1>4. QED
  BY <1>1, <1>2, <1>3 DEF Next, Over

------------------------------------------------------------------------------
(* What the ledger shows of a run whose every action passed *)

\* What l shows of the state of the job of a.
Seen(l, a) == {m \in Places(l, {"job.state-observed"}) : l[m].act = a}

\* l has no safety row, and of the first n actions, and of no other, one row that
\* says that the job passed.
Tidy(l, n) ==
    /\ Places(l, Range(SafetyOrder)) = {}
    /\ \A k \in 1..Len(Actions) :
         /\ k > n => Seen(l, Actions[k]) = {}
         /\ k <= n => \E e \in DOMAIN l : /\ Seen(l, Actions[k]) = {e}
                                          /\ l[e].out = "passed" /\ l[e].why = "NONE"

Acting == {"action", "presubmit", "submit", "handoff", "opened", "get", "drain", "decide"}

RowsInv ==
    /\ ledger \in Seq(Range(ledger)) /\ journal \in Seq(Range(journal))
    /\ \A k \in DOMAIN journal : journal[k].ev \in RuntimeEvents
    /\ act.drained \in Nat

ResultsInv ==
    /\ \A k \in DOMAIN results :
         /\ results[k].act = Actions[k]
         /\ results[k].out = "passed" =>
              results[k].why = "NONE" /\ results[k].term /\ results[k].job
    /\ pc \in Acting \cup {"cancel", "final"} => Len(results) = i - 1
    /\ pc = "record" => Len(results) = i
    /\ i \in 1..Len(Actions) /\ (pc = "start" => i = 1)

TidyInv ==
    /\ pc \in Acting \cup {"start"} => Tidy(ledger, Len(results))
    /\ pc = "final" /\ act.out = "passed" =>
         Tidy(ledger, i) /\ act.why = "NONE" /\ act.term
    /\ pc \in {"record", "cooldown", "stop", "qualify", "finish", "profile"} /\ EndedWell
         => Tidy(ledger, Len(results))

QualifiedInv ==
    pc \in {"finish", "profile"} /\ capture.valid =>
        /\ \A k \in DOMAIN results : results[k].cap = "NONE"
        /\ PassingCandidate => WholeOrder

PassInv == RowsInv /\ ResultsInv /\ TidyInv /\ QualifiedInv

------------------------------------------------------------------------------
(* Rows at places *)

\* Rows of other events leave the places of evs, and what is there, alone.
LEMMA PlacesKept ==
    ASSUME NEW S, NEW l \in Seq(S), NEW T, NEW t \in Seq(T), NEW evs,
           \A k \in DOMAIN t : t[k].ev \notin evs
    PROVE  /\ Places(l \o t, evs) = Places(l, evs)
           /\ \A k \in DOMAIN l : (l \o t)[k] = l[k]
           /\ DOMAIN l \subseteq DOMAIN (l \o t)
<1> DEFINE U == S \cup T
<1>1. l \in Seq(U) /\ t \in Seq(U)
  OBVIOUS
<1>2. /\ DOMAIN l = 1..Len(l) /\ DOMAIN t = 1..Len(t) /\ Len(l) \in Nat /\ Len(t) \in Nat
      /\ DOMAIN (l \o t) = 1..(Len(l) + Len(t))
  BY <1>1
<1>3. \A k \in DOMAIN (l \o t) :
        (l \o t)[k] = IF k <= Len(l) THEN l[k] ELSE t[k - Len(l)]
  BY <1>1, <1>2
<1>4. \A k \in DOMAIN l : (l \o t)[k] = l[k] /\ k \in DOMAIN (l \o t)
  BY <1>2, <1>3
<1>5. ASSUME NEW k \in DOMAIN (l \o t), k \notin DOMAIN l PROVE (l \o t)[k].ev \notin evs
  <2>1. (l \o t)[k] = t[k - Len(l)] /\ k - Len(l) \in DOMAIN t
    BY <1>2, <1>3, <1>5
  <2>2. QED
    BY <2>1
<1>6. QED
  BY <1>4, <1>5 DEF Places

\* What a sequence reads at places of another, it reads there in what extends it.
LEMMA ReadsKept ==
    ASSUME NEW l, NEW m, NEW K, NEW s, \A k \in K : m[k] = l[k]
    PROVE  Reads(m, K, s) <=> Reads(l, K, s)
  BY DEF Reads

\* The places up to k: k is at the position of s that their number says.
Upto(K, k) == {m \in K : m <= k}

LEMMA UptoGrows ==
    ASSUME NEW K, K \subseteq Nat, IsFiniteSet(K), NEW k \in K
    PROVE  /\ Cardinality(Upto(K, k)) \in 1..Cardinality(K)
           /\ \A j \in K : j < k => Cardinality(Upto(K, j)) < Cardinality(Upto(K, k))
<1>1. ASSUME NEW j \in K
      PROVE  /\ IsFiniteSet(Upto(K, j)) /\ Cardinality(Upto(K, j)) \in Nat
             /\ Cardinality(Upto(K, j)) <= Cardinality(K)
  <2>1. Upto(K, j) \in SUBSET K
    BY DEF Upto
  <2>2. QED
    BY <2>1, FS_Subset, FS_CardinalityType
<1>2. \A j \in K : j \in Upto(K, j)
  BY DEF Upto
<1>3. Cardinality(Upto(K, k)) # 0
  BY <1>1, <1>2, FS_EmptySet
<1>4. ASSUME NEW j \in K, j < k
      PROVE  Cardinality(Upto(K, j)) < Cardinality(Upto(K, k))
  <2>1. Upto(K, j) \in SUBSET Upto(K, k) /\ k \notin Upto(K, j)
    <3>1. \A m \in K : m <= j => m <= k
      BY <1>4
    <3>2. ~(k <= j)
      BY <1>4
    <3>3. QED
      BY <3>1, <3>2 DEF Upto
  <2>2. /\ Cardinality(Upto(K, j)) <= Cardinality(Upto(K, k))
        /\ Cardinality(Upto(K, k)) # Cardinality(Upto(K, j))
    BY <1>1, <1>2, <2>1, FS_Subset
  <2>3. QED
    BY <1>1, <2>2
<1>5. QED
  BY <1>1, <1>3, <1>4, FS_CardinalityType

\* What is at the places K of l are the elements of s.
SameRows(l, K, s) ==
    /\ \A n \in 1..Len(s) : \E k \in K : l[k] = s[n]
    /\ \A k \in K : \E n \in 1..Len(s) : l[k] = s[n]

\* Nothing of what is read is missed.
LEMMA ReadsAll ==
    ASSUME NEW l, NEW K, NEW s, Reads(l, K, s), IsFiniteSet(K), K \subseteq Nat
    PROVE  SameRows(l, K, s)
<1> DEFINE rank == [k \in K |-> Cardinality(Upto(K, k))]
<1>1. Cardinality(K) \in Nat /\ Cardinality(K) = Len(s)
  BY FS_CardinalityType DEF Reads
<1>2. \A k \in K : rank[k] \in 1..Len(s) /\ l[k] = s[rank[k]]
  BY <1>1, UptoGrows DEF Reads, Upto
<1>3. \A j, k \in K : j < k => rank[j] < rank[k]
  BY <1>1, UptoGrows
<1>4. DOMAIN rank = K
  OBVIOUS
<1>5. rank = [k \in K |-> rank[k]]
  OBVIOUS
<1> HIDE DEF rank
<1>6. rank \in [K -> 1..Len(s)]
  BY <1>2, <1>4, <1>5
<1>7. rank \in Injection(K, Range(rank)) /\ rank \in Surjection(K, Range(rank))
  <2>1. ASSUME NEW j \in K, NEW k \in K, j # k PROVE rank[j] # rank[k]
    <3>1. j < k \/ k < j
      BY <1>1, <2>1
    <3>2. QED
      BY <1>1, <1>2, <1>3, <3>1
  <2>2. rank \in [K -> Range(rank)]
    BY <1>6 DEF Range
  <2>3. QED
    BY <1>4, <2>1, <2>2 DEF Injection, IsInjective, Surjection, Range
<1>8. Cardinality(Range(rank)) = Cardinality(K)
  BY <1>1, <1>7, FS_Surjection
<1>9. Range(rank) = 1..Len(s)
  <2>1. IsFiniteSet(1..Len(s)) /\ Cardinality(1..Len(s)) = Len(s)
    <3>1. \A c \in Nat : IsFiniteSet(1..c) /\ Cardinality(1..c) = c
      BY FS_Interval
    <3>2. QED
      BY <1>1, <3>1
  <2>2. Range(rank) \in SUBSET (1..Len(s))
    BY <1>6 DEF Range
  <2>3. QED
    BY <1>1, <1>8, <2>1, <2>2, FS_Subset
<1>10. \A n \in 1..Len(s) : \E k \in K : rank[k] = n
  BY <1>4, <1>9 DEF Range
<1>11. QED
  BY <1>2, <1>10 DEF SameRows
\* A sequence that is extended stays one.
LEMMA Extended ==
    ASSUME NEW l, l \in Seq(Range(l)), NEW T, NEW t \in Seq(T)
    PROVE  l \o t \in Seq(Range(l \o t))
<1> DEFINE m == l \o t
<1>1. l \in Seq(Range(l) \cup T) /\ t \in Seq(Range(l) \cup T)
  OBVIOUS
<1>2. m \in Seq(Range(l) \cup T)
  BY <1>1
<1> HIDE DEF m
<1>3. DOMAIN m = 1..Len(m) /\ Len(m) \in Nat
  BY <1>2
<1>4. \A k \in 1..Len(m) : m[k] \in Range(m)
  BY <1>3 DEF Range
<1>5. m \in Seq(Range(m))
  BY <1>2, <1>3, <1>4
<1>6. QED
  BY <1>5 DEF m

------------------------------------------------------------------------------
(* The events and the actions *)

LEMMA ActionOrder ==
    /\ Len(Actions) \in 1..3 /\ DOMAIN Actions = 1..Len(Actions)
    /\ \A j, k \in 1..Len(Actions) : Actions[j] = Actions[k] => j = k
<1> DEFINE all == <<"preflight", "pilot", "train">>
<1>1. PICK n \in 1..3 : Actions = SubSeq(all, 1, n)
  BY ActionsAssumption
<1>2. all \in Seq({"preflight", "pilot", "train"}) /\ Len(all) = 3
  OBVIOUS
<1>3. /\ Len(Actions) = n /\ DOMAIN Actions = 1..n
      /\ \A k \in 1..n : Actions[k] = all[k]
  BY <1>1, <1>2
<1>4. \A j, k \in 1..3 : all[j] = all[k] => j = k
  OBVIOUS
<1>5. QED
  BY <1>3, <1>4

\* The rows that are no row of a stop and of no job's state.
Neutral(t) == \A k \in DOMAIN t : /\ t[k].ev \notin Range(SafetyOrder)
                                  /\ t[k].ev # "job.state-observed"

LEMMA RuntimeNeutral ==
    \A ev \in RuntimeEvents : ev \notin Range(SafetyOrder) /\ ev # "job.state-observed"
<1>1. Range(SafetyOrder) = {"safety.triggered", "cancellation.requested",
                            "process-group.terminated", "lease.reconciled"}
  BY DEF Range, SafetyOrder
<1>2. QED
  BY <1>1 DEF RuntimeEvents, StartOf, FinishOf, Range

LEMMA PlainNeutral ==
    \A ev \in {"clock.mapping", "harness.started", "telemetry.started", "telemetry.stopped",
               "telemetry.failed", "command.started", "command.finished",
               "cooldown.started", "cooldown.finished", "harness.finished",
               "seal.started"} :
        ev \notin Range(SafetyOrder) /\ ev # "job.state-observed" /\ ev \notin RuntimeEvents
<1>1. Range(SafetyOrder) = {"safety.triggered", "cancellation.requested",
                            "process-group.terminated", "lease.reconciled"}
  BY DEF Range, SafetyOrder
<1>2. QED
  BY <1>1 DEF RuntimeEvents, StartOf, FinishOf, Range

------------------------------------------------------------------------------
(* A tidy ledger *)

LEMMA TidyKept ==
    ASSUME NEW S, NEW l \in Seq(S), NEW T, NEW t \in Seq(T), Neutral(t),
           NEW n, Tidy(l, n)
    PROVE  Tidy(l \o t, n)
<1>1. Places(l \o t, Range(SafetyOrder)) = Places(l, Range(SafetyOrder))
  BY PlacesKept DEF Neutral
<1>2. /\ Places(l \o t, {"job.state-observed"}) = Places(l, {"job.state-observed"})
      /\ \A k \in DOMAIN l : (l \o t)[k] = l[k] /\ k \in DOMAIN (l \o t)
  BY PlacesKept DEF Neutral
<1>3. \A a : Seen(l \o t, a) = Seen(l, a)
  BY <1>2 DEF Seen, Places
<1>4. QED
  BY <1>1, <1>2, <1>3 DEF Tidy

LEMMA TidyObserved ==
    ASSUME NEW S, NEW l \in Seq(S), NEW n \in Nat, n < Len(Actions), Tidy(l, n)
    PROVE  Tidy(Append(l, Row("job.state-observed", Actions[n + 1], "passed", "NONE")), n + 1)
<1> DEFINE r == Row("job.state-observed", Actions[n + 1], "passed", "NONE")
           m == Append(l, r)
           top == Len(l) + 1
<1>1. r = [ev |-> "job.state-observed", act |-> Actions[n + 1], out |-> "passed",
           why |-> "NONE"]
  BY DEF Row
<1>2. /\ DOMAIN l = 1..Len(l) /\ Len(l) \in Nat /\ DOMAIN m = 1..top
      /\ m[top] = r /\ \A k \in DOMAIN l : m[k] = l[k]
  OBVIOUS
<1>3. "job.state-observed" \notin Range(SafetyOrder)
  BY DEF Range, SafetyOrder
<1> HIDE DEF r, m
<1>4. Places(m, Range(SafetyOrder)) = {}
  BY <1>1, <1>2, <1>3 DEF Tidy, Places
<1>5. \A a : Seen(m, a) = IF a = Actions[n + 1] THEN Seen(l, a) \cup {top} ELSE Seen(l, a)
  BY <1>1, <1>2 DEF Seen, Places
<1>6. ASSUME NEW k \in 1..Len(Actions)
      PROVE  /\ k > n + 1 => Seen(m, Actions[k]) = {}
             /\ k <= n + 1 => \E e \in DOMAIN m : /\ Seen(m, Actions[k]) = {e}
                                                  /\ m[e].out = "passed" /\ m[e].why = "NONE"
  <2>1. /\ k = n + 1 <=> Actions[k] = Actions[n + 1]
        /\ k \in Nat /\ k > n => Seen(l, Actions[k]) = {}
    BY ActionOrder DEF Tidy
  <2>2. CASE k = n + 1
    <3>1. Seen(l, Actions[k]) = {}
      BY <2>1, <2>2
    <3>2. Seen(m, Actions[k]) = {top}
      BY <1>5, <2>1, <2>2, <3>1
    <3>3. QED
      BY <1>1, <1>2, <2>2, <3>2
  <2>3. CASE k > n + 1
    BY <1>5, <2>1, <2>3
  <2>4. CASE k <= n
    <3>1. PICK e \in DOMAIN l : /\ Seen(l, Actions[k]) = {e}
                                /\ l[e].out = "passed" /\ l[e].why = "NONE"
      BY <2>4 DEF Tidy
    <3>2. Seen(m, Actions[k]) = {e} /\ e \in DOMAIN m /\ m[e] = l[e]
      BY <1>2, <1>5, <2>1, <2>4, <3>1
    <3>3. QED
      BY <2>4, <3>1, <3>2
  <2>5. QED
    BY <2>2, <2>3, <2>4, ActionOrder
<1>7. Tidy(m, n + 1)
  BY <1>4, <1>6 DEF Tidy
<1>8. QED
  BY <1>7 DEF m, r

\* The rows of the journal that are not yet drained.
LEMMA NewRows == RowsInv => New \in Seq(Range(New)) /\ Neutral(New)
<1> SUFFICES ASSUME RowsInv PROVE New \in Seq(Range(New)) /\ Neutral(New)
  OBVIOUS
<1> DEFINE d == act.drained + 1
<1>1. /\ New \in Seq(Range(journal)) /\ d \in Nat \ {0} /\ Len(New) \in Nat
      /\ DOMAIN New = 1..Len(New) /\ DOMAIN journal = 1..Len(journal)
      /\ \A k \in DOMAIN New : New[k] = journal[d + k - 1] /\ d + k - 1 \in DOMAIN journal
  BY DEF RowsInv, New
<1>2. Neutral(New)
  BY <1>1, RuntimeNeutral DEF RowsInv, Neutral
<1>3. \A k \in 1..Len(New) : New[k] \in Range(New)
  BY <1>1 DEF Range
<1>4. New \in Seq(Range(New))
  BY <1>1, <1>3
<1>5. QED
  BY <1>2, <1>4

\* A few rows, by their events.
LEMMA OneRow ==
    ASSUME NEW l, l \in Seq(Range(l)), NEW r
    PROVE  /\ Append(l, r) = l \o <<r>> /\ <<r>> \in Seq({r})
           /\ r.ev \notin Range(SafetyOrder) /\ r.ev # "job.state-observed" => Neutral(<<r>>)
  BY DEF Neutral

\* Rows said and then more of them.
LEMMA ManyRows ==
    ASSUME NEW S, NEW l \in Seq(S), NEW T, NEW t \in Seq(T), Neutral(l), Neutral(t)
    PROVE  Neutral(l \o t)
<1>1. l \in Seq(S \cup T) /\ t \in Seq(S \cup T)
  OBVIOUS
<1>2. \A k \in DOMAIN (l \o t) : \/ k \in DOMAIN l /\ (l \o t)[k] = l[k]
                                \/ \E j \in DOMAIN t : (l \o t)[k] = t[j]
  <2> SUFFICES ASSUME NEW k \in DOMAIN (l \o t), k \notin DOMAIN l
               PROVE  \E j \in DOMAIN t : (l \o t)[k] = t[j]
    BY <1>1
  <2>1. k - Len(l) \in DOMAIN t /\ (l \o t)[k] = t[k - Len(l)]
    BY <1>1
  <2>2. QED
    BY <2>1
<1>3. QED
  BY <1>2 DEF Neutral

\* l grew by rows that are no row of a stop and of no job's state.
Grown(l, m) == \E t : t \in Seq(Range(t)) /\ Neutral(t) /\ m = l \o t

LEMMA GrownByOne ==
    ASSUME NEW l, l \in Seq(Range(l)), NEW r,
           r.ev \notin Range(SafetyOrder), r.ev # "job.state-observed"
    PROVE  Grown(l, Append(l, r))
<1>1. <<r>> \in Seq(Range(<<r>>))
  BY DEF Range
<1>2. QED
  BY <1>1, OneRow DEF Grown

LEMMA GrownTidy ==
    ASSUME NEW l, l \in Seq(Range(l)), NEW m, Grown(l, m)
    PROVE  m \in Seq(Range(m)) /\ \A n : Tidy(l, n) => Tidy(m, n)
<1>1. PICK t : t \in Seq(Range(t)) /\ Neutral(t) /\ m = l \o t
  BY DEF Grown
<1>2. QED
  BY <1>1, Extended, TidyKept

LEMMA GrownNot ==
    ASSUME NEW l, l \in Seq(Range(l))
    PROVE  Grown(l, l)
<1>1. <<>> \in Seq(Range(<<>>)) /\ Neutral(<<>>) /\ l = l \o <<>>
  BY DEF Neutral
<1>2. QED
  BY <1>1 DEF Grown

LEMMA GrownTwice ==
    ASSUME NEW l, l \in Seq(Range(l)), NEW m, NEW n, Grown(l, m), Grown(m, n)
    PROVE  Grown(l, n)
<1>1. PICK t : t \in Seq(Range(t)) /\ Neutral(t) /\ m = l \o t
  BY DEF Grown
<1>2. PICK u : u \in Seq(Range(u)) /\ Neutral(u) /\ n = m \o u
  BY DEF Grown
<1>3. Neutral(t \o u) /\ t \o u \in Seq(Range(t \o u))
  BY <1>1, <1>2, ManyRows, Extended
<1>4. n = l \o (t \o u)
  <2> DEFINE S == Range(l) \cup Range(t) \cup Range(u)
  <2>1. l \in Seq(S) /\ t \in Seq(S) /\ u \in Seq(S)
    BY <1>1, <1>2
  <2> HIDE DEF S
  <2>2. (l \o t) \o u = l \o (t \o u)
    BY <2>1
  <2>3. QED
    BY <1>1, <1>2, <2>2
<1>5. QED
  BY <1>3, <1>4 DEF Grown

\* The actions that write neither a row of a stop nor one of a job's state.
LEMMA QuietActions ==
    RowsInv /\ (StartTelemetry \/ BeginAction \/ OpenReader \/ Drain \/ Finalize \/ Cooldown
                  \/ StopTelemetry \/ FinishLedger)
        => Grown(ledger, ledger')
<1> SUFFICES ASSUME RowsInv,
                    StartTelemetry \/ BeginAction \/ OpenReader \/ Drain \/ Finalize
                      \/ Cooldown \/ StopTelemetry \/ FinishLedger
             PROVE  Grown(ledger, ledger')
  OBVIOUS
<1>l. ledger \in Seq(Range(ledger))
  BY DEF RowsInv
<1>n. Grown(ledger, ledger) /\ Grown(ledger, ledger \o New)
  BY <1>l, GrownNot, NewRows DEF Grown
<1>1. CASE StartTelemetry
  <2> DEFINE two == <<Plain("telemetry.started"), Plain("telemetry.failed")>>
  <2>1. two \in Seq(Range(two))
    BY DEF Range
  <2>2. Neutral(two)
    BY PlainNeutral DEF Neutral, Plain, Row
  <2>3. Grown(ledger, ledger \o two)
    BY <2>1, <2>2 DEF Grown
  <2>4. Grown(ledger, Append(ledger, Plain("telemetry.started")))
    BY <1>l, GrownByOne, PlainNeutral DEF Plain, Row
  <2>5. ledger' \in {ledger, ledger \o two, Append(ledger, Plain("telemetry.started"))}
    BY <1>1 DEF StartTelemetry, Append1
  <2>6. QED
    BY <1>n, <2>3, <2>4, <2>5
<1>2. CASE BeginAction
  <2>1. ledger' = Append(ledger, Row("command.started", Label, "none", "NONE"))
    BY <1>2 DEF BeginAction, Append1
  <2>2. QED
    BY <1>l, <2>1, GrownByOne, PlainNeutral DEF Row
<1>3. CASE OpenReader
  BY <1>3, <1>n DEF OpenReader
<1>4. CASE Drain
  BY <1>4, <1>n DEF Drain
<1>5. CASE Finalize
  <2>1. PICK m \in {ledger, ledger \o New} :
            \E r : ledger' = Append(m, r) /\ r.ev = "command.finished"
    <3>1. \A m, r : Close(m, r) =>
            \E q : ledger' = Append(m, q) /\ q.ev = "command.finished"
      BY DEF Close, Row
    <3>2. ledger \o <<>> = ledger
      BY <1>l
    <3>3. QED
      BY <1>5, <3>1, <3>2 DEF Finalize
  <2>2. Grown(ledger, m) /\ m \in Seq(Range(m))
    BY <1>l, <1>n, GrownTidy
  <2>3. Grown(m, ledger')
    BY <2>1, <2>2, GrownByOne, PlainNeutral
  <2>4. QED
    BY <1>l, <2>1, <2>2, <2>3, GrownTwice
<1>6. CASE Cooldown
  <2> DEFINE p == Row("cooldown.started", "run", "none", "NONE")
             q == Row("cooldown.finished", "run", IF cool' THEN "passed" ELSE "failed",
                      IF cool' THEN "NONE" ELSE "EVIDENCE")
  <2>a. ledger' = ledger \o <<p, q>>
    BY <1>6 DEF Cooldown
  <2>1. p.ev = "cooldown.started" /\ q.ev = "cooldown.finished"
    BY DEF Row
  <2> HIDE DEF p, q
  <2>2. <<p, q>> \in Seq(Range(<<p, q>>))
    BY DEF Range
  <2>3. Neutral(<<p, q>>)
    BY <2>1, PlainNeutral DEF Neutral
  <2>4. QED
    BY <2>a, <2>2, <2>3 DEF Grown
<1>7. CASE StopTelemetry
  <2>1. PICK ev \in {"telemetry.stopped", "telemetry.failed"} :
            ledger' = Append(ledger, Plain(ev))
    BY <1>7 DEF StopTelemetry, Append1
  <2>2. QED
    BY <1>l, <2>1, GrownByOne, PlainNeutral DEF Plain, Row
<1>8. CASE FinishLedger
  <2> DEFINE p == Row("harness.finished", "run", Native.out, Native.why)
             q == Plain("clock.mapping")
             r == Row("seal.started", "run", Native.out, Native.why)
  <2>a. ledger' = ledger \o <<p, q, r>>
    BY <1>8 DEF FinishLedger, Finished
  <2>1. p.ev = "harness.finished" /\ q.ev = "clock.mapping" /\ r.ev = "seal.started"
    BY DEF Row, Plain
  <2> HIDE DEF p, q, r
  <2>2. <<p, q, r>> \in Seq(Range(<<p, q, r>>))
    BY DEF Range
  <2>3. Neutral(<<p, q, r>>)
    BY <2>1, PlainNeutral DEF Neutral
  <2>4. QED
    BY <2>a, <2>2, <2>3 DEF Grown
<1>9. QED
  BY <1>1, <1>2, <1>3, <1>4, <1>5, <1>6, <1>7, <1>8

------------------------------------------------------------------------------
(* The invariant of the rows *)

LEMMA PassEvents ==
    \A a : \A k \in 1..Len(PassOf(a)) : PassOf(a)[k].ev \in RuntimeEvents
<1> DEFINE R == Range(PassOrder)
<1>1. PassOrder \in Seq(R) /\ Len(PassOrder) = 10
  BY DEF PassOrder, Range
<1>2. \A k \in 1..10 : PassOrder[k].ev \in RuntimeEvents
  BY DEF PassOrder, Began, Passed, Ended, Row, RuntimeEvents, StartOf, FinishOf, Range
<1> HIDE DEF R
<1>3. \A m, n \in 1..10 : \A k \in 1..Len(SubSeq(PassOrder, m, n)) :
        \E j \in 1..10 : SubSeq(PassOrder, m, n)[k] = PassOrder[j]
  <2> SUFFICES ASSUME NEW m \in 1..10, NEW n \in 1..10,
                      NEW k \in 1..Len(SubSeq(PassOrder, m, n))
               PROVE  \E j \in 1..10 : SubSeq(PassOrder, m, n)[k] = PassOrder[j]
    OBVIOUS
  <2>1. m + k - 1 \in 1..10 /\ SubSeq(PassOrder, m, n)[k] = PassOrder[m + k - 1]
    BY <1>1
  <2>2. QED
    BY <2>1
<1>4. ASSUME NEW a, NEW k \in 1..Len(PassOf(a)) PROVE PassOf(a)[k].ev \in RuntimeEvents
  <2>1. \/ PassOf(a) = SubSeq(PassOrder, 1, 4) \/ PassOf(a) = SubSeq(PassOrder, 5, 10)
        \/ PassOf(a) = <<>>
    BY DEF PassOf
  <2>2. QED
    BY <1>2, <1>3, <2>1
<1>5. QED
  BY <1>4

LEMMA BoundaryEvents ==
    ASSUME journal \in Seq(Range(journal)), NEW b \in NextBoundaries
    PROVE  b.ev \in RuntimeEvents
<1>1. \A ph \in Phases : \A out, why : Ended(ph, Label, out, why).ev \in RuntimeEvents
  BY DEF Ended, Row, RuntimeEvents, Phases, StartOf, FinishOf, Range
<1>2. \/ \E ph \in Phases : b = Ended(ph, Label, "failed", "FAULT")
      \/ Len(journal) < Len(PassOf(Label)) /\ b = PassOf(Label)[Len(journal) + 1]
  BY DEF NextBoundaries, Phases, StartOf
<1>3. ASSUME Len(journal) < Len(PassOf(Label)), b = PassOf(Label)[Len(journal) + 1]
      PROVE  b.ev \in RuntimeEvents
  <2>1. Len(PassOf(Label)) \in Nat
    <3>1. PassOrder \in Seq(Range(PassOrder))
      BY DEF PassOrder, Range
    <3>2. QED
      BY <3>1 DEF PassOf
  <2>2. Len(journal) + 1 \in 1..Len(PassOf(Label))
    BY <1>3, <2>1
  <2>3. QED
    BY <1>3, <2>2, PassEvents
<1>4. QED
  BY <1>1, <1>2, <1>3

LEMMA RowsEnvironment == RowsInv /\ Environment => RowsInv'
<1> SUFFICES ASSUME RowsInv, Environment PROVE RowsInv'
  OBVIOUS
<1>1. /\ ledger' = ledger /\ act' = act
      /\ \/ journal' = journal
         \/ \E b : journal' = Append(journal, b) /\ b.ev \in RuntimeEvents
  <2>1. ledger' = ledger /\ act' = act
    BY DEF Environment, Launch, Emit, ChildExits, WorkerEnds, ForeignCancel, Trip,
           DeadlinePasses, harness
  <2>2. CASE Emit
    BY <2>1, <2>2, BoundaryEvents DEF Emit, RowsInv
  <2>3. CASE WorkerEnds
    <3>1. \A a, out, why : /\ Began("verification", a).ev \in RuntimeEvents
                           /\ Ended("verification", a, out, why).ev \in RuntimeEvents
      BY DEF Began, Ended, Row, RuntimeEvents, StartOf, FinishOf, Range
    <3>2. \/ journal' = journal
          \/ journal' = Append(journal, Began("verification", "train"))
          \/ \E out, why : journal' = Append(journal, Ended("verification", "train", out, why))
      BY <2>3 DEF WorkerEnds, Passed
    <3>3. QED
      BY <2>1, <3>1, <3>2
  <2>4. CASE Launch \/ ChildExits \/ ForeignCancel \/ Trip \/ DeadlinePasses
    BY <2>1, <2>4 DEF Launch, ChildExits, ForeignCancel, Trip, DeadlinePasses
  <2>5. QED
    BY <2>2, <2>3, <2>4 DEF Environment
<1>2. ASSUME NEW b, journal' = Append(journal, b), b.ev \in RuntimeEvents
      PROVE  /\ journal' \in Seq(Range(journal'))
             /\ \A k \in DOMAIN journal' : journal'[k].ev \in RuntimeEvents
  <2>1. journal' \in Seq(Range(journal'))
    BY <1>2, AppendLast DEF RowsInv
  <2>2. \A k \in DOMAIN Append(journal, b) :
          Append(journal, b)[k] \in {journal[j] : j \in DOMAIN journal} \cup {b}
    BY DEF RowsInv
  <2>3. QED
    BY <1>2, <2>1, <2>2 DEF RowsInv
<1>3. QED
  BY <1>1, <1>2 DEF RowsInv

LEMMA RowsHarness == RunInv /\ RowsInv /\ Harness => RowsInv'
<1> SUFFICES ASSUME RunInv, RowsInv, Harness PROVE RowsInv'
  OBVIOUS
<1>1. ledger' \in Seq(Range(ledger'))
  <2>l. ledger \in Seq(Range(ledger))
    BY DEF RowsInv
  <2>1. CASE StartTelemetry \/ BeginAction \/ OpenReader \/ Drain \/ Finalize \/ Cooldown
               \/ StopTelemetry \/ FinishLedger
    BY <2>l, <2>1, QuietActions, GrownTidy
  <2>2. CASE PreSubmit
    <3>1. \A r : Append(ledger, r) \in Seq(Range(Append(ledger, r)))
      BY <2>l, AppendLast
    <3>2. \A r, q : Close(Append(ledger, r), q) => ledger' \in Seq(Range(ledger'))
      BY <3>1, AppendLast DEF Close
    <3>3. QED
      BY <2>2, <2>l, <3>2 DEF PreSubmit
  <2>3. CASE Submit
    <3>1. \A q : Close(ledger, q) => ledger' \in Seq(Range(ledger'))
      BY <2>l, AppendLast DEF Close
    <3>2. QED
      BY <2>3, <2>l, <3>1 DEF Submit
  <2>h. CASE Handoff
    BY <2>h, <2>l, AppendLast DEF Handoff, Close
  <2>4. CASE JobEnded
    BY <2>4, <2>l, AppendLast DEF JobEnded, Append1
  <2>5. CASE DecideStop
    <3>1. \A q : Append(ledger, q) \in Seq(Range(Append(ledger, q)))
      BY <2>l, AppendLast
    <3>2. \E q : ledger' \in {ledger, Append(ledger, q)}
      BY <2>5 DEF DecideStop
    <3>3. QED
      BY <2>l, <3>1, <3>2
  <2>6. CASE Cancel
    <3> DEFINE three == [k \in 1..3 |-> Row(SafetyOrder[k + 1], Label, "cancelled",
                                            act.stop.why)]
    <3>1. three \in Seq(Range(three))
      BY DEF Range
    <3>2. ledger' \in {ledger, ledger \o three}
      BY <2>6 DEF Cancel
    <3>3. QED
      BY <2>l, <3>1, <3>2, Extended
  <2>7. CASE GetJob \/ PollAgain \/ Record \/ Qualify \/ Profile \/ Seal \/ Fallback \/ Raise
               \/ CleanUp
    BY <2>7, <2>l DEF GetJob, PollAgain, Record, Qualify, Profile, Seal, Fallback, Raise,
       CleanUp
  <2>8. QED
    BY <2>1, <2>2, <2>3, <2>h, <2>4, <2>5, <2>6, <2>7 DEF Harness
<1>2. journal' \in {journal, <<>>}
  BY DEF Harness, StartTelemetry, BeginAction, PreSubmit, Submit, Handoff, OpenReader, GetJob, Drain,
     JobEnded, PollAgain, DecideStop, Cancel, Finalize, Record, Cooldown, StopTelemetry,
     Qualify, FinishLedger, Profile, Seal, Fallback, Raise, CleanUp, service
<1>3. act'.drained \in Nat
  <2>1. Len(journal) \in Nat /\ act.drained \in Nat /\ DOMAIN act = DOMAIN NoAct
        /\ NoAct.drained \in Nat /\ "drained" \in DOMAIN act
    BY DEF RowsInv, RunInv, ShapeInv, NoAct
  <2>2. CASE StartTelemetry \/ BeginAction \/ PreSubmit \/ Submit \/ Handoff \/ OpenReader \/ GetJob
    BY <2>1, <2>2 DEF StartTelemetry, BeginAction, PreSubmit, Submit, Handoff, OpenReader, GetJob,
       Drained
  <2>3. CASE Drain \/ JobEnded \/ PollAgain \/ DecideStop \/ Cancel \/ Finalize
    BY <2>1, <2>3 DEF Drain, JobEnded, PollAgain, DecideStop, Cancel, Finalize, Drained
  <2>4. CASE Record \/ Cooldown \/ StopTelemetry \/ Qualify \/ FinishLedger \/ Profile
               \/ Seal \/ Fallback \/ Raise \/ CleanUp
    BY <2>1, <2>4 DEF Record, Cooldown, StopTelemetry, Qualify, FinishLedger, Profile, Seal,
       Fallback, Raise, CleanUp
  <2>5. QED
    BY <2>2, <2>3, <2>4 DEF Harness
<1>4. /\ journal' \in Seq(Range(journal'))
      /\ \A k \in DOMAIN journal' : journal'[k].ev \in RuntimeEvents
  <2>1. CASE journal' = journal
    BY <2>1 DEF RowsInv
  <2>2. CASE journal' = <<>>
    BY <2>2
  <2>3. QED
    BY <1>2, <2>1, <2>2
<1>5. QED
  BY <1>1, <1>3, <1>4 DEF RowsInv

LEMMA RowsStep == RunInv /\ RowsInv /\ [Next]_vars => RowsInv'
<1> SUFFICES ASSUME RunInv, RowsInv, [Next]_vars PROVE RowsInv'
  OBVIOUS
<1>1. CASE UNCHANGED vars
  BY <1>1 DEF vars, RowsInv
<1>2. QED
  BY <1>1, RowsEnvironment, RowsHarness DEF Next, Over

------------------------------------------------------------------------------
(* The invariant of the results *)

\* What Close adds.
LEMMA Closes ==
    ASSUME results \in Seq(Range(results)), NEW l, NEW r, Close(l, r)
    PROVE  /\ pc' = "record" /\ Len(results') = Len(results) + 1 /\ Len(results) \in Nat
           /\ DOMAIN results' = 1..Len(results') /\ results' # <<>>
           /\ DOMAIN results = 1..Len(results)
           /\ \A k \in DOMAIN results : results'[k] = results[k]
           /\ results'[Len(results')] = r /\ Last(results') = r
           /\ ledger' = Append(l, Row("command.finished", Label, r.out, r.why))
<1>1. results' = Append(results, r)
  BY DEF Close
<1>2. DOMAIN results = 1..Len(results) /\ Len(results) \in Nat
  OBVIOUS
<1>3. /\ Len(results') = Len(results) + 1 /\ DOMAIN results' = 1..Len(results')
      /\ results' # <<>> /\ results'[Len(results) + 1] = r
      /\ \A k \in DOMAIN results : results'[k] = results[k]
  BY <1>1, <1>2
<1>4. Last(results') = r
  BY <1>1, AppendLast
<1>5. QED
  BY <1>2, <1>3, <1>4 DEF Close

\* A result that is recorded is one of the action, and a pass has what a pass has.
LEMMA ClosedResults ==
    ASSUME RunInv, ResultsInv, pc \in {"presubmit", "submit", "handoff", "final"}, i' = i,
           NEW l, NEW hasJob, NEW out, NEW why, NEW term, NEW cap, NEW st,
           Close(l, Result(hasJob, out, why, term, cap, st)),
           out = "passed" => why = "NONE" /\ term /\ hasJob
    PROVE  ResultsInv'
<1> DEFINE r == Result(hasJob, out, why, term, cap, st)
<1>1. /\ r.act = Actions[i] /\ r.out = out /\ r.why = why /\ r.term = term /\ r.job = hasJob
  BY DEF Result, Label
<1> HIDE DEF r
<1>2. Close(l, r)
  BY DEF r
<1>3. results \in Seq(Range(results)) /\ Len(results) = i - 1 /\ i \in 1..Len(Actions)
  BY DEF RunInv, ShapeInv, ResultsInv, Acting
<1>4. /\ pc' = "record" /\ Len(results') = i /\ DOMAIN results' = 1..i
      /\ DOMAIN results = 1..(i - 1)
      /\ \A k \in DOMAIN results : results'[k] = results[k]
      /\ results'[i] = r
  BY <1>2, <1>3, Closes, ActionOrder
<1>5. ASSUME NEW k \in DOMAIN results'
      PROVE  /\ results'[k].act = Actions[k]
             /\ results'[k].out = "passed" =>
                  results'[k].why = "NONE" /\ results'[k].term /\ results'[k].job
  <2>1. CASE k = i
    BY <1>1, <1>4, <2>1
  <2>2. CASE k # i
    <3>1. k \in DOMAIN results /\ results'[k] = results[k]
      BY <1>3, <1>4, <2>2, ActionOrder
    <3>2. QED
      BY <3>1 DEF ResultsInv
  <2>3. QED
    BY <2>1, <2>2
<1>6. QED
  BY <1>3, <1>4, <1>5 DEF ResultsInv, Acting

LEMMA ResultsStep ==
    RunInv /\ SealInv /\ ResultsInv /\ TidyInv /\ [Next]_vars => ResultsInv'
<1> SUFFICES ASSUME RunInv, SealInv, ResultsInv, TidyInv, [Next]_vars PROVE ResultsInv'
  OBVIOUS
<1>1. CASE Environment \/ UNCHANGED vars
  <2>1. UNCHANGED <<pc, i, results>>
    BY <1>1 DEF Environment, Launch, Emit, ChildExits, WorkerEnds, ForeignCancel, Trip,
       DeadlinePasses, harness, vars
  <2>2. QED
    BY <2>1 DEF ResultsInv
<1>2. CASE PreSubmit
  <2>1. CASE pc' = "submit"
    <3>1. pc = "presubmit" /\ UNCHANGED <<i, results>>
      BY <1>2, <2>1 DEF PreSubmit, Close
    <3>2. QED
      BY <2>1, <3>1 DEF ResultsInv, Acting
  <2>2. CASE pc' # "submit"
    <3>1. PICK l, why, cap : Close(l, Result(FALSE, "guard-blocked", why, TRUE, cap, "none"))
      BY <1>2, <2>2 DEF PreSubmit
    <3>2. pc = "presubmit" /\ i' = i
      BY <1>2 DEF PreSubmit
    <3>3. QED
      BY <3>1, <3>2, ClosedResults
  <2>3. QED
    BY <2>1, <2>2
<1>3. CASE Submit
  <2>1. CASE pc' \in {"opened", "handoff"}
    <3>1. pc = "submit" /\ UNCHANGED <<i, results>>
      BY <1>3, <2>1 DEF Submit, Close
    <3>2. QED
      BY <2>1, <3>1 DEF ResultsInv, Acting
  <2>2. CASE pc' \notin {"opened", "handoff"}
    <3>1. PICK l, hasJob, out, why, term, cap, st :
             /\ Close(l, Result(hasJob, out, why, term, cap, st))
             /\ out \in {"refused", "failed", "unknown"}
      BY <1>3, <2>2 DEF Submit, LostSubmission
    <3>2. pc = "submit" /\ i' = i
      BY <1>3 DEF Submit
    <3>3. QED
      BY <3>1, <3>2, ClosedResults
  <2>3. QED
    BY <2>1, <2>2
<1>h. CASE Handoff
  <2>1. PICK l, out, why, st : /\ Close(l, Result(TRUE, out, why, TRUE, "EVIDENCE", st))
                               /\ out \in {"failed", "cancelled"}
    BY <1>h DEF Handoff, LostSubmission
  <2>2. pc = "handoff" /\ i' = i
    BY <1>h DEF Handoff
  <2>3. QED
    BY <2>1, <2>2, ClosedResults
<1>4. CASE Finalize
  <2>1. PICK l, cap : Close(l, Result(TRUE, act.out, act.why, act.term, cap, act.cur.st))
    BY <1>4 DEF Finalize
  <2>2. pc \in {"presubmit", "submit", "final"} /\ i' = i
    BY <1>4 DEF Finalize
  <2>3. act.out = "passed" => act.why = "NONE" /\ act.term
    BY <1>4 DEF Finalize, TidyInv
  <2>4. QED
    BY <2>1, <2>2, <2>3, ClosedResults, Zenon
<1>5. CASE StartTelemetry
  <2>1. /\ pc = "start" /\ pc' \in {"action", "qualify"} /\ UNCHANGED <<i, results>>
        /\ results = <<>> /\ i = 1
    BY <1>5 DEF StartTelemetry, SealInv, ResultsInv
  <2>2. QED
    BY <2>1 DEF ResultsInv, Acting
<1>6. CASE Record
  <2>1. /\ pc = "record" /\ results' = results /\ Len(results) = i /\ i \in 1..Len(Actions)
        /\ \/ pc' \in {"stop", "cooldown"} /\ i' = i
           \/ pc' = "action" /\ i' = i + 1 /\ i < Len(Actions)
    BY <1>6 DEF Record, ResultsInv
  <2>2. i' \in 1..Len(Actions) /\ (pc' = "action" => Len(results') = i' - 1)
    BY <2>1, ActionOrder
  <2>3. QED
    BY <2>1, <2>2 DEF ResultsInv, Acting
<1>7. CASE BeginAction \/ OpenReader \/ GetJob \/ Drain \/ JobEnded \/ PollAgain \/ DecideStop
           \/ Cancel
  <2>1. /\ pc \in Acting \cup {"cancel"} /\ pc' \in Acting \cup {"cancel", "final"}
        /\ UNCHANGED <<i, results>>
    BY <1>7 DEF BeginAction, OpenReader, GetJob, Drain, JobEnded, PollAgain, DecideStop,
       Cancel, Acting
  <2>2. QED
    BY <2>1 DEF ResultsInv, Acting
<1>8. CASE Cooldown \/ StopTelemetry \/ Qualify \/ FinishLedger \/ Profile \/ Seal \/ Fallback
           \/ Raise \/ CleanUp
  <2>1. /\ pc' \in {"stop", "qualify", "finish", "profile", "seal", "fallback", "over",
                    "cleanup"}
        /\ UNCHANGED <<i, results>>
    BY <1>8 DEF Cooldown, StopTelemetry, Qualify, FinishLedger, Profile, Seal, Fallback,
       Raise, CleanUp, service
  <2>2. QED
    BY <2>1 DEF ResultsInv, Acting
<1>9. QED
  BY <1>1, <1>2, <1>3, <1>h, <1>4, <1>5, <1>6, <1>7, <1>8 DEF Next, Harness, Over

------------------------------------------------------------------------------
(* The invariant of a tidy ledger *)

\* A result that is no pass asks nothing more of the ledger.
LEMMA ClosedUnpassed ==
    ASSUME RunInv, NEW l, NEW r, Close(l, r), r.out # "passed"
    PROVE  TidyInv'
<1>1. pc' = "record" /\ Last(results').out # "passed"
  BY Closes DEF RunInv, ShapeInv
<1>2. QED
  BY <1>1 DEF TidyInv, Acting, EndedWell

LEMMA TidyWatch ==
    RunInv /\ SealInv /\ RowsInv /\ ResultsInv /\ TidyInv
    /\ (StartTelemetry \/ BeginAction \/ PreSubmit \/ Submit \/ Handoff \/ OpenReader \/ GetJob \/ Drain
          \/ JobEnded \/ PollAgain \/ DecideStop \/ Cancel \/ Finalize)
        => TidyInv'
<1> SUFFICES ASSUME RunInv, SealInv, RowsInv, ResultsInv, TidyInv,
                    StartTelemetry \/ BeginAction \/ PreSubmit \/ Submit \/ Handoff \/ OpenReader
                      \/ GetJob \/ Drain \/ JobEnded \/ PollAgain \/ DecideStop \/ Cancel
                      \/ Finalize
             PROVE  TidyInv'
  OBVIOUS
<1>l. ledger \in Seq(Range(ledger)) /\ results \in Seq(Range(results))
  BY DEF RowsInv, RunInv, ShapeInv
<1>1. CASE StartTelemetry
  <2>1. /\ pc = "start" /\ pc' \in {"action", "qualify"} /\ results' = results
        /\ results = <<>>
    BY <1>1 DEF StartTelemetry, SealInv
  <2>2. Tidy(ledger', Len(results'))
    BY <1>1, <1>l, <2>1, QuietActions, GrownTidy DEF TidyInv
  <2>3. QED
    BY <2>1, <2>2 DEF TidyInv, Acting
<1>2. CASE BeginAction \/ OpenReader \/ Drain
  <2>1. pc \in Acting /\ pc' \in Acting /\ results' = results
    BY <1>2 DEF BeginAction, OpenReader, Drain, Acting
  <2>2. Tidy(ledger', Len(results'))
    BY <1>2, <1>l, <2>1, QuietActions, GrownTidy DEF TidyInv
  <2>3. QED
    BY <2>1, <2>2 DEF TidyInv, Acting
<1>3. CASE PreSubmit
  <2>1. CASE pc' = "submit"
    <3>1. pc = "presubmit" /\ UNCHANGED <<ledger, results>>
      BY <1>3, <2>1 DEF PreSubmit, Close
    <3>2. QED
      BY <2>1, <3>1 DEF TidyInv, Acting
  <2>2. CASE pc' # "submit"
    BY <1>3, <2>2, ClosedUnpassed DEF PreSubmit, Result
  <2>3. QED
    BY <2>1, <2>2
<1>4. CASE Submit
  <2>1. CASE pc' \in {"opened", "handoff"}
    <3>1. pc = "submit" /\ UNCHANGED <<ledger, results>>
      BY <1>4, <2>1 DEF Submit, Close
    <3>2. QED
      BY <2>1, <3>1 DEF TidyInv, Acting
  <2>2. CASE pc' \notin {"opened", "handoff"}
    BY <1>4, <2>2, ClosedUnpassed DEF Submit, LostSubmission, Result
  <2>3. QED
    BY <2>1, <2>2
<1>h. CASE Handoff
  BY <1>h, ClosedUnpassed DEF Handoff, LostSubmission, Result
<1>5. CASE GetJob \/ PollAgain
  <2>1. pc \in Acting /\ pc' \in Acting /\ UNCHANGED <<ledger, results>>
    BY <1>5 DEF GetJob, PollAgain, Acting
  <2>2. QED
    BY <2>1 DEF TidyInv, Acting
<1>6. CASE JobEnded
  <2>1. /\ pc = "decide" /\ pc' = "final" /\ i' = i /\ DOMAIN act = DOMAIN NoAct
        /\ Tidy(ledger, i - 1) /\ i \in 1..3 /\ i <= Len(Actions)
    BY <1>6, ActionOrder DEF JobEnded, RunInv, ShapeInv, TidyInv, ResultsInv, Acting
  <2>2. ASSUME act'.out = "passed"
        PROVE  /\ act'.why = "NONE" /\ act'.term
               /\ ledger' = Append(ledger, Row("job.state-observed", Actions[i], "passed",
                                               "NONE"))
    <3> DEFINE st  == act.cur.st
               why == CASE st = "completed" -> "NONE" [] st = "failed" -> FailureReason
                        [] OTHER -> "UNKNOWN"
    <3>1. /\ act' = [act EXCEPT !.out = Verdict(st), !.why = why, !.term = TRUE]
          /\ ledger' = Append(ledger, StateRow(st, why)) /\ st \in TerminalJob
      BY <1>6 DEF JobEnded, Append1
    <3>2. act'.out = Verdict(st) /\ act'.why = why /\ act'.term = TRUE
      BY <2>1, <3>1 DEF NoAct
    <3>3. st = "completed"
      BY <2>2, <3>1, <3>2 DEF Verdict, TerminalJob
    <3>4. why = "NONE" /\ Verdict(st) = "passed"
      BY <3>3 DEF Verdict
    <3> HIDE DEF st, why
    <3>5. QED
      BY <3>1, <3>2, <3>4 DEF StateRow, Label
  <2>3. ASSUME act'.out = "passed" PROVE Tidy(ledger', i')
    <3>1. Tidy(Append(ledger, Row("job.state-observed", Actions[(i - 1) + 1], "passed",
                                  "NONE")), (i - 1) + 1)
      <4>1. i - 1 \in Nat /\ i - 1 < Len(Actions)
        BY <2>1, ActionOrder
      <4>2. QED
        BY <1>l, <2>1, <4>1, TidyObserved
    <3>2. (i - 1) + 1 = i
      BY <2>1
    <3>3. QED
      BY <2>1, <2>2, <2>3, <3>1, <3>2
  <2>4. QED
    BY <2>1, <2>2, <2>3 DEF TidyInv, Acting
<1>7. CASE DecideStop
  BY <1>7 DEF DecideStop, TidyInv, Acting
<1>8. CASE Cancel
  <2>1. pc' = "final" /\ act'.out \in {"timed-out", "cancelled", "unknown"}
    BY <1>8 DEF Cancel, RunInv, ShapeInv, NoAct
  <2>2. QED
    BY <2>1 DEF TidyInv, Acting
<1>9. CASE Finalize
  <2>1. PICK l, cap : Close(l, Result(TRUE, act.out, act.why, act.term, cap, act.cur.st))
    BY <1>9 DEF Finalize
  <2>2. /\ pc' = "record" /\ Len(results') = Len(results) + 1
        /\ Last(results').out = act.out
    BY <1>l, <2>1, Closes DEF Result
  <2>3. pc = "final" /\ Len(results) = i - 1 /\ i \in 1..3
    BY <1>9, ActionOrder DEF Finalize, ResultsInv
  <2>4. act.out = "passed" => Tidy(ledger', Len(results'))
    BY <1>9, <1>l, <2>2, <2>3, QuietActions, GrownTidy DEF TidyInv
  <2>5. QED
    BY <2>2, <2>4 DEF TidyInv, Acting, EndedWell
<1>10. QED
  BY <1>1, <1>2, <1>3, <1>4, <1>h, <1>5, <1>6, <1>7, <1>8, <1>9

LEMMA TidyStep ==
    RunInv /\ SealInv /\ RowsInv /\ ResultsInv /\ TidyInv /\ [Next]_vars => TidyInv'
<1> SUFFICES ASSUME RunInv, SealInv, RowsInv, ResultsInv, TidyInv, [Next]_vars
             PROVE  TidyInv'
  OBVIOUS
<1>l. ledger \in Seq(Range(ledger))
  BY DEF RowsInv
<1>1. CASE Environment \/ UNCHANGED vars
  <2>1. UNCHANGED <<pc, i, act, results, ledger>>
    BY <1>1 DEF Environment, Launch, Emit, ChildExits, WorkerEnds, ForeignCancel, Trip,
       DeadlinePasses, harness, vars
  <2>2. QED
    BY <2>1 DEF TidyInv, EndedWell
<1>2. CASE Record
  <2>1. /\ pc = "record" /\ UNCHANGED <<ledger, results>> /\ results # <<>>
        /\ pc' \in {"stop", "cooldown"} \/ (pc' = "action" /\ GoesOn)
    BY <1>2 DEF Record, SealInv
  <2>2. EndedWell' = EndedWell /\ (GoesOn => EndedWell)
    BY <2>1 DEF EndedWell, GoesOn
  <2>3. QED
    BY <2>1, <2>2 DEF TidyInv, Acting
<1>3. CASE Cooldown \/ StopTelemetry \/ FinishLedger
  <2>1. /\ pc \in {"cooldown", "stop", "finish"} /\ results' = results
        /\ pc' \in {"stop", "qualify", "profile", "over"}
    BY <1>3 DEF Cooldown, StopTelemetry, FinishLedger
  <2>2. EndedWell => Tidy(ledger', Len(results'))
    BY <1>3, <1>l, <2>1, QuietActions, GrownTidy DEF TidyInv
  <2>3. EndedWell' = EndedWell
    BY <2>1 DEF EndedWell
  <2>4. QED
    BY <2>1, <2>2, <2>3 DEF TidyInv, Acting
<1>4. CASE Qualify
  <2>1. pc = "qualify" /\ pc' = "finish" /\ UNCHANGED <<ledger, results>>
    BY <1>4 DEF Qualify
  <2>2. QED
    BY <2>1 DEF TidyInv, Acting, EndedWell
<1>5. CASE Profile \/ Seal \/ Fallback \/ Raise \/ CleanUp
  <2>1. pc' \in {"seal", "fallback", "over", "cleanup"}
    BY <1>5 DEF Profile, Seal, Fallback, Raise, CleanUp
  <2>2. QED
    BY <2>1 DEF TidyInv, Acting
<1>6. QED
  BY <1>1, <1>2, <1>3, <1>4, <1>5, TidyWatch DEF Next, Harness, Over

------------------------------------------------------------------------------
(* The invariant of what was qualified *)

LEMMA QualifiedStep == SealInv /\ RowsInv /\ QualifiedInv /\ [Next]_vars => QualifiedInv'
<1> SUFFICES ASSUME SealInv, RowsInv, QualifiedInv, [Next]_vars PROVE QualifiedInv'
  OBVIOUS
<1>1. CASE Environment \/ UNCHANGED vars
  <2>1. UNCHANGED <<pc, results, ledger, capture>>
    BY <1>1 DEF Environment, Launch, Emit, ChildExits, WorkerEnds, ForeignCancel, Trip,
       DeadlinePasses, harness, vars
  <2>2. QED
    BY <2>1 DEF QualifiedInv, PassingCandidate, WholeOrder
<1>2. CASE Qualify
  <2>1. UNCHANGED <<results, ledger>>
    BY <1>2 DEF Qualify
  <2>2. capture'.valid => /\ \A k \in DOMAIN results : results[k].cap = "NONE"
                          /\ PassingCandidate => Qualifies
    <3>1. CASE capture' = [failed |-> TRUE, valid |-> FALSE]
      BY <3>1
    <3>2. ASSUME NEW v, capture' = [capture EXCEPT !.valid = v],
                 v => /\ \A k \in DOMAIN results : results[k].cap = "NONE"
                      /\ PassingCandidate => Qualifies
          PROVE  capture'.valid => /\ \A k \in DOMAIN results : results[k].cap = "NONE"
                                   /\ PassingCandidate => Qualifies
      BY <3>2 DEF SealInv
    <3>3. QED
      BY <1>2, <3>1, <3>2 DEF Qualify
  <2>3. QED
    BY <2>1, <2>2 DEF QualifiedInv, PassingCandidate, WholeOrder, Qualifies
<1>3. CASE FinishLedger
  <2> DEFINE t == << Row("harness.finished", "run", Native.out, Native.why),
                     Plain("clock.mapping"),
                     Row("seal.started", "run", Native.out, Native.why) >>
  <2>1. /\ pc = "finish" /\ UNCHANGED <<results, capture>> /\ ledger' = ledger \o t
    BY <1>3 DEF FinishLedger, Finished
  <2>2. t \in Seq(Range(t)) /\ \A k \in DOMAIN t : t[k].ev \notin RuntimeEvents
    <3>1. t \in Seq(Range(t))
      BY DEF Range
    <3>2. \A k \in DOMAIN t : t[k].ev \in {"harness.finished", "clock.mapping", "seal.started"}
      BY DEF Row, Plain
    <3>3. QED
      BY <3>1, <3>2, PlainNeutral
  <2> HIDE DEF t
  <2>3. /\ Places(ledger \o t, RuntimeEvents) = Places(ledger, RuntimeEvents)
        /\ \A k \in DOMAIN ledger : (ledger \o t)[k] = ledger[k]
    BY <2>2, PlacesKept DEF RowsInv
  <2>4. WholeOrder => WholeOrder'
    <3>1. \A k \in Places(ledger, RuntimeEvents) : (ledger \o t)[k] = ledger[k]
      BY <2>3 DEF Places
    <3>2. WholeOrder => Reads(ledger \o t, Places(ledger \o t, RuntimeEvents), Order)
      BY <2>3, <3>1, ReadsKept DEF WholeOrder
    <3>3. QED
      BY <2>1, <3>2 DEF WholeOrder
  <2>5. QED
    BY <2>1, <2>4 DEF QualifiedInv, PassingCandidate
<1>4. CASE Harness /\ ~Qualify /\ ~FinishLedger
  <2>1. pc' \notin {"finish", "profile"}
    BY <1>4 DEF Harness, StartTelemetry, BeginAction, PreSubmit, Submit, Handoff, OpenReader, GetJob,
       Drain, JobEnded, PollAgain, DecideStop, Cancel, Finalize, Record, Cooldown,
       StopTelemetry, Profile, Seal, Fallback, Raise, CleanUp, Close
  <2>2. QED
    BY <2>1 DEF QualifiedInv
<1>5. QED
  BY <1>1, <1>2, <1>3, <1>4 DEF Next, Over

------------------------------------------------------------------------------
(* A whole, tidy ledger is accepted *)

LEMMA Prefixed ==
    ASSUME NEW S, NEW s \in Seq(S), NEW b \in Nat, b <= Len(s)
    PROVE  /\ SubSeq(s, 1, b) \in Seq(S) /\ Len(SubSeq(s, 1, b)) = b
           /\ \A n \in 1..b : SubSeq(s, 1, b)[n] = s[n]
<1>1. Len(s) \in Nat
  OBVIOUS
<1>2. Len(SubSeq(s, 1, b)) = b
  BY <1>1
<1>3. SubSeq(s, 1, b) \in Seq(S)
  BY <1>1
<1>4. \A n \in 1..b : SubSeq(s, 1, b)[n] = s[n]
  BY <1>1
<1>5. QED
  BY <1>2, <1>3, <1>4

\* What is in a ledger with every boundary of Order leaves no phase open.
LEMMA NothingOpen ==
    ASSUME NEW l, l \in Seq(Range(l)), Reads(l, Places(l, RuntimeEvents), Order)
    PROVE  OpenStarts(l) = {}
<1> DEFINE K == Places(l, RuntimeEvents)
<1>1. PassOrder \in Seq(Range(PassOrder)) /\ Len(PassOrder) = 10
  BY DEF PassOrder, Range
<1>2. PICK b \in {0, 4, 10} : Order = SubSeq(PassOrder, 1, b)
  <2>1. Len(Actions) \in {1, 2, 3}
    BY ActionOrder
  <2>2. <<0, 4, 10>>[Len(Actions)] \in {0, 4, 10}
    <3>1. <<0, 4, 10>>[1] = 0 /\ <<0, 4, 10>>[2] = 4 /\ <<0, 4, 10>>[3] = 10
      OBVIOUS
    <3>2. QED
      BY <2>1, <3>1
  <2>3. QED
    BY <2>2 DEF Order
<1>3. /\ Order \in Seq(Range(PassOrder)) /\ Len(Order) = b
      /\ \A n \in 1..b : Order[n] = PassOrder[n]
  <2>1. b \in Nat /\ b <= Len(PassOrder)
    BY <1>1
  <2>2. PassOrder \in Seq(Range(PassOrder))
    BY <1>1
  <2>3. QED
    BY <1>2, <2>1, <2>2, Prefixed, Zenon
<1>4. IsFiniteSet(K) /\ K \subseteq Nat /\ Reads(l, K, Order)
  <2>1. Len(l) \in Nat /\ K \in SUBSET (1..Len(l))
    BY DEF Places
  <2>2. \A n \in Nat : IsFiniteSet(1..n)
    BY FS_Interval
  <2>3. QED
    BY <2>1, <2>2, FS_Subset
<1>5. SameRows(l, K, Order)
  BY <1>4, ReadsAll
<1>6. ASSUME NEW n \in 1..b PROVE \E k \in K : l[k] = PassOrder[n]
  BY <1>3, <1>5 DEF SameRows
<1>7. ASSUME NEW k \in K PROVE \E n \in 1..b : l[k] = PassOrder[n]
  <2>1. PICK n \in 1..Len(Order) : l[k] = Order[n]
    BY <1>5 DEF SameRows
  <2>2. QED
    BY <1>3, <2>1
<1>8. ASSUME NEW ph \in Phases, NEW n \in 1..b, PassOrder[n].ev = StartOf[ph]
      PROVE  \E m \in 1..b : PassOrder[m].ev = FinishOf[ph]
  <2>1. n \in {1, 3, 5, 6, 9}
    BY <1>2, <1>8 DEF PassOrder, Began, Passed, Ended, Row, Phases, StartOf, FinishOf
  <2>2. /\ n = 1 => ph = "pilot1" /\ b >= 4
        /\ n = 3 => ph = "pilot2" /\ b >= 4
        /\ n = 5 => ph = "training" /\ b = 10
        /\ n = 6 => ph = "export" /\ b = 10
        /\ n = 9 => ph = "verification" /\ b = 10
    BY <1>2, <1>8 DEF PassOrder, Began, Row, Phases, StartOf
  <2>3. /\ PassOrder[2].ev = FinishOf.pilot1 /\ PassOrder[4].ev = FinishOf.pilot2
        /\ PassOrder[8].ev = FinishOf.training /\ PassOrder[7].ev = FinishOf.export
        /\ PassOrder[10].ev = FinishOf.verification
    BY DEF PassOrder, Passed, Ended, Row, FinishOf
  <2>4. QED
    BY <1>2, <2>1, <2>2, <2>3
<1>9. \A ph \in Phases : StartOf[ph] \in RuntimeEvents /\ FinishOf[ph] \in RuntimeEvents
  BY DEF RuntimeEvents, Phases, StartOf, FinishOf, Range
<1>10. ASSUME NEW ph \in Phases, NEW k \in Places(l, {StartOf[ph]})
      PROVE  Places(l, {FinishOf[ph]}) # {}
  <2>1. k \in K /\ l[k].ev = StartOf[ph]
    BY <1>9 DEF Places
  <2>2. PICK n \in 1..b : l[k] = PassOrder[n]
    BY <1>7, <2>1
  <2>3. PICK m \in 1..b : PassOrder[m].ev = FinishOf[ph]
    BY <1>8, <2>1, <2>2
  <2>4. PICK j \in K : l[j] = PassOrder[m]
    BY <1>6
  <2>5. QED
    BY <2>3, <2>4 DEF Places
<1>11. QED
  BY <1>10 DEF OpenStarts

\* A tidy ledger shows of each passed action what the action reports.
LEMMA TidyAgrees ==
    ASSUME RunInv, ResultsInv, PassingCandidate, Tidy(ledger, Len(results)),
           NEW evidence
    PROVE  ObservationsAgree(ledger, results, evidence)
<1>1. DOMAIN results = 1..Len(Actions) /\ Len(results) = Len(Actions)
  BY DEF RunInv, ShapeInv, PassingCandidate
<1>2. SUFFICES ASSUME NEW k \in DOMAIN results
      PROVE  LET seen == {m \in Places(ledger, {"job.state-observed"}) :
                            ledger[m].act = results[k].act}
                 ends == {m \in seen : ledger[m].out # "none"}
                 as == IF results[k].out = "timed-out" THEN "cancelled" ELSE results[k].out IN
             /\ ~results[k].job => seen = {}
             /\ \A e \in ends : /\ ends = {e} /\ \A m \in seen : m <= e
                                /\ ledger[e].out = as /\ ledger[e].why = results[k].why
             /\ results[k].out = "passed" \/ (results[k].out = "failed" /\ evidence)
                  => ends # {}
  BY DEF ObservationsAgree
<1>3. /\ results[k].act = Actions[k] /\ results[k].out = "passed"
      /\ results[k].why = "NONE" /\ results[k].job
  BY DEF ResultsInv, PassingCandidate
<1>4. PICK e \in DOMAIN ledger : /\ Seen(ledger, Actions[k]) = {e}
                                 /\ ledger[e].out = "passed" /\ ledger[e].why = "NONE"
  BY <1>1, ActionOrder DEF Tidy
<1> DEFINE seen == {m \in Places(ledger, {"job.state-observed"}) :
                      ledger[m].act = results[k].act}
           ends == {m \in seen : ledger[m].out # "none"}
<1>5. seen = {e} /\ ends = {e}
  BY <1>3, <1>4 DEF Seen
<1>6. e <= e
  BY <1>4 DEF Seen, Places
<1>7. QED
  BY <1>3, <1>4, <1>5, <1>6

LEMMA WholeAccepted ==
    ASSUME RunInv, SealInv, PassInv, pc = "profile", capture.valid, PassingCandidate
    PROVE  Accepted
<1>1. /\ Len(results) = Len(Actions) /\ Len(results) \in Nat /\ Len(results) >= 1
      /\ DOMAIN results = 1..Len(results) /\ results # <<>>
      /\ \A k \in DOMAIN results : results[k].out = "passed"
  BY ActionOrder DEF PassingCandidate, RunInv, ShapeInv
<1>2. Last(results) = results[Len(results)] /\ Len(results) \in DOMAIN results
  BY <1>1 DEF Last
<1>3. \A k \in DOMAIN results :
        /\ results[k].act = Actions[k] /\ results[k].why = "NONE" /\ results[k].term
        /\ results[k].job /\ results[k].cap = "NONE"
  BY <1>1 DEF PassInv, ResultsInv, QualifiedInv
<1>4. Native.out = "passed" /\ Native.why = "NONE" /\ Last(results).out = "passed"
      /\ Last(results).why = "NONE"
  BY <1>1, <1>2, <1>3 DEF Native
<1>5. WholeOrder /\ Tidy(ledger, Len(results))
  BY <1>1, <1>4 DEF PassInv, QualifiedInv, TidyInv, EndedWell
<1>6. Places(ledger, Range(SafetyOrder)) = {}
  BY <1>5 DEF Tidy
<1>7. OpenStarts(ledger) = {}
  BY <1>5, NothingOpen DEF WholeOrder, PassInv, RowsInv
<1>8. LedgerValid(ledger, "passed", "NONE")
  <2>1. \A k \in Places(ledger, Range(Tail(SafetyOrder))) : k \in Places(ledger, Range(SafetyOrder))
    <3>1. Range(Tail(SafetyOrder)) \subseteq Range(SafetyOrder)
      BY DEF Range, SafetyOrder
    <3>2. QED
      BY <3>1 DEF Places
  <2>2. QED
    BY <1>6, <1>7, <2>1 DEF LedgerValid
<1>9. RuntimeShape(ledger, Order, "passed", "NONE")
  BY <1>5 DEF RuntimeShape, WholeOrder
<1>10. ObservationsAgree(ledger, results, capture.valid)
  BY <1>5, TidyAgrees DEF PassInv
<1>11. capture.valid = (capture.valid /\ \A k \in DOMAIN results : results[k].cap = "NONE")
  <2>1. capture.valid \in BOOLEAN
    BY DEF SealInv
  <2>2. QED
    BY <1>3, <2>1
<1>12. OutcomeValid(ledger, results, "passed", "NONE", capture.valid, capture.valid)
  BY <1>1, <1>2, <1>3, <1>4, <1>6, <1>7, <1>8, <1>9, <1>10, <1>11 DEF OutcomeValid
<1>13. QED
  BY <1>4, <1>12 DEF Accepted


------------------------------------------------------------------------------
(* Theorems *)

\* RunInv is an invariant of the managed sequence.
THEOREM RunInvariant == Spec => []RunInv
  BY RunInvStart, RunInvStep, PTL DEF Spec

\* A verdict about a job is the verdict of the service (_supervise_managed_action),
\* but for a submission that failed at its end: that is a failure without evidence,
\* whatever became of the job.
THEOREM VerdictIsTrue == Spec => []VerdictMatchesJob
<1>1. RunInv => VerdictMatchesJob
  BY DEF RunInv, VerdictInv, Agrees, Unsubmitted, VerdictMatchesJob
<1>2. QED
  BY <1>1, RunInvariant, PTL

\* The run never ends beside a job of its own that is still active unless the
\* marker of _block_submissions is there, or the submission of that job failed at
\* its end and the run is no valid evidence.
THEOREM JobIsWatched == Spec => []NoUnwatchedJob
<1>1. RunInv => NoUnwatchedJob
  BY DEF RunInv, WatchInv, Unended, Unsubmitted, EndedUnsubmitted, NoUnwatchedJob
<1>2. QED
  BY <1>1, RunInvariant, PTL

\* No action is submitted once the marker was written, on any path.
THEOREM BlockedMeansNoSubmit == Spec => SubmitsUnblocked
<1> DEFINE Quiet == job = "none" /\ job' # "none" => ~block
<1>1. RunInv /\ [Next]_vars => [Quiet]_vars
  <2> SUFFICES ASSUME RunInv, Next, job = "none", job' # "none" PROVE ~block
    BY DEF vars
  <2>1. pc = "submit"
    <3>1. CASE StartTelemetry \/ BeginAction \/ PreSubmit \/ Submit \/ Handoff \/ OpenReader
      BY <3>1 DEF StartTelemetry, BeginAction, PreSubmit, Submit, Handoff, OpenReader,
         service, RunInv, FreshInv
    <3>2. CASE GetJob \/ Drain \/ JobEnded \/ PollAgain \/ DecideStop \/ Finalize
      BY <3>2 DEF GetJob, Drain, JobEnded, PollAgain, DecideStop, Finalize, service
    <3>3. CASE Cancel \/ CleanUp
      BY <3>3 DEF Cancel, CleanUp, TerminalJob
    <3>4. CASE Record \/ Cooldown \/ StopTelemetry \/ Qualify \/ FinishLedger \/ Profile
                 \/ Seal \/ Fallback \/ Raise \/ Over
      BY <3>4 DEF Record, Cooldown, StopTelemetry, Qualify, FinishLedger, Profile, Seal,
         Fallback, Raise, Over, vars, service
    <3>5. CASE Environment
      BY <3>5 DEF Environment, Launch, Emit, ChildExits, WorkerEnds, ForeignCancel, Trip,
         DeadlinePasses
    <3>6. QED
      BY <3>1, <3>2, <3>3, <3>4, <3>5 DEF Next, Harness
  <2>2. QED
    BY <2>1 DEF RunInv, BlockInv
<1>2. QED
  BY <1>1, RunInvariant, PTL DEF Spec, SubmitsUnblocked

\* So is SealInv.
THEOREM SealInvariant == Spec => []SealInv
<1>1. Init => SealInv
  BY DEF Init, SealInv, Closing, EndedWell
<1>2. QED
  BY RunInvariant, SealInvStep, <1>1, PTL DEF Spec

\* A sealed artifact that may be published stands for a run in which nothing went
\* wrong: every boundary is in its ledger, no signal came, nothing was blocked.
THEOREM PublishedIsWhole == Spec => []PublishableMeansWhole
<1>1. RunInv /\ SealInv => PublishableMeansWhole
  <2>1. SUFFICES ASSUME RunInv, SealInv, kept = "artifact", capture.valid, Native.out = "passed"
                 PROVE  /\ sig = None /\ ~block /\ tele = "healthy" /\ cool
                        /\ job = "completed" /\ Len(results) = Len(Actions)
                        /\ WholeOrder
    BY DEF PublishableMeansWhole
  <2>2. PassingCandidate /\ WholeOrder
    BY <2>1, AcceptedPass DEF SealInv
  <2>3. EndedWell
    BY <2>1 DEF Native, EndedWell
  <2>4. QED
    BY <2>1, <2>2, <2>3 DEF SealInv, Closing, PassingCandidate
<1>2. QED
  BY RunInvariant, SealInvariant, <1>1, PTL

\* A run that qualified is accepted by the outcome validator: no pass is lost to
\* the harness's own check (_finish_ledger, validate_managed_sequence_outcome).
THEOREM QualifiedIsAccepted == Spec => []PassIsAccepted
<1>1. Init => PassInv
  <2> SUFFICES ASSUME Init PROVE PassInv
    OBVIOUS
  <2> DEFINE two == <<Plain("clock.mapping"), Plain("harness.started")>>
  <2>1. two \in Seq(Range(two)) /\ <<>> \in Seq(Range(<<>>))
    BY DEF Range
  <2>2. \A k \in DOMAIN two : /\ two[k].ev \notin Range(SafetyOrder)
                             /\ two[k].ev # "job.state-observed"
    BY PlainNeutral DEF Plain, Row
  <2>3. Places(two, Range(SafetyOrder)) = {} /\ \A a : Seen(two, a) = {}
    BY <2>2 DEF Places, Seen
  <2>4. Tidy(two, 0)
    BY <2>3, ActionOrder DEF Tidy
  <2>5. RowsInv /\ ResultsInv /\ QualifiedInv
    BY <2>1, ActionOrder DEF Init, RowsInv, ResultsInv, QualifiedInv, Acting, NoAct
  <2>6. TidyInv
    BY <2>4 DEF Init, TidyInv, Acting
  <2>7. QED
    BY <2>5, <2>6 DEF PassInv
<1>2. RunInv /\ SealInv /\ PassInv /\ [Next]_vars => PassInv'
  BY RowsStep, ResultsStep, TidyStep, QualifiedStep DEF PassInv
<1>3. RunInv /\ SealInv /\ PassInv => PassIsAccepted
  BY WholeAccepted DEF PassIsAccepted
<1>4. QED
  BY RunInvariant, SealInvariant, <1>1, <1>2, <1>3, PTL DEF Spec
==============================================================================

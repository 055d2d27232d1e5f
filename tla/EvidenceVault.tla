---------------------------- MODULE EvidenceVault -----------------------------
(****************************************************************************)
(* Custody and publication of the CUDA campaign's evidence: the commands    *)
(* copy-seal, retrieve and resume-operation of cli.py over the append-only  *)
(* receipt store of storage.py, and the way from the receipts to a public   *)
(* directory (eligibility.py, publication.py).                              *)
(*                                                                          *)
(* A command that changes something holds the lock of the receipt store     *)
(* from its first look at the journal to its end; the lock is a flock, so   *)
(* that it goes with the process.  A step is what a command does between    *)
(* two points at which it may be killed or fail, each of them a file that   *)
(* is written.  What an operation id asks for is fixed: a command that      *)
(* repeats an id with other arguments, another path or another artifact is  *)
(* refused without effect.                                                  *)
(*                                                                          *)
(* A journal file that ends halfway is an error for whoever reads it, so    *)
(* that its operation is one that is never resumed; and the completion file *)
(* repeats what outcome and receipt say.  Neither is told apart here.  A    *)
(* receipt that ends halfway is: it stops every operation.                  *)
(*                                                                          *)
(* Left out: times (nothing grows older than its cadence), the restoration  *)
(* and withdrawal of a claim, roles, the evidence outside the repository,   *)
(* and what is inside an artifact, of which only equality is kept.          *)
(****************************************************************************)
EXTENDS Naturals, Sequences

CONSTANTS
    Op,         \* operation ids
    Asked,      \* what each asks for: [kind, dir, copy, domain, off]
    None,
    MaxFaults   \* bound: kills, failed writes and alterations

Kinds == {"copy", "retrieve"}
Control == {"retention", "suspension"}

ASSUME VaultAssumption ==
    /\ Op \cap Control = {} /\ None \notin Op
    /\ Asked \in [Op -> [kind : Kinds, dir : STRING, copy : STRING,
                         domain : STRING, off : BOOLEAN]]
    /\ MaxFaults \in Nat

Dir == {Asked[o].dir : o \in Op}
Dest(o) == Asked[o].dir
Pair(o) == <<Asked[o].copy, Asked[o].domain>>
Copies == {o \in Op : Asked[o].kind = "copy"}
Retrievals == Op \ Copies

VARIABLES
    content,    \* each directory: absent, whole (equal to the source) or other
    journal,    \* per operation: its intent with the chain it pins, its outcome
    chain,      \* the receipts, in the order of their predecessors: [by, passed]
    torn,       \* whether the store holds a receipt file that ends halfway
    cmd,        \* the command that holds the lock
    candidate,  \* length of the chain the last sealed candidate binds
    public,     \* length of the chain behind what is public, 0 when nothing is
    faults

vars == <<content, journal, chain, torn, cmd, candidate, public, faults>>

NoFiles == [intent |-> FALSE, pin |-> 0, outcome |-> "none"]

\* cmd.seen is history: the holder of the lock found Dest(cmd.op) whole itself.
Idle == [op |-> None, at |-> "idle", passed |-> FALSE, seen |-> FALSE]

TypeOK ==
    /\ content \in [Dir -> {"absent", "other", "whole"}]
    /\ journal \in [Op -> [intent : BOOLEAN, pin : Nat,
                           outcome : {"none", "passed", "failed"}]]
    /\ chain \in Seq([by : Op \cup Control, passed : BOOLEAN])
    /\ torn \in BOOLEAN
    /\ cmd \in [op : Op \cup {None}, passed : BOOLEAN, seen : BOOLEAN,
                at : {"idle", "create", "fill", "report", "reconciled", "check",
                      "append", "judged", "committed"}]
    /\ candidate \in Nat /\ public \in Nat /\ faults \in 0 .. MaxFaults

Init ==
    /\ content = [d \in Dir |-> "absent"]
    /\ journal = [o \in Op |-> NoFiles]
    /\ chain = <<>> /\ torn = FALSE
    /\ cmd = Idle
    /\ candidate = 0 /\ public = 0 /\ faults = 0

------------------------------------------------------------------------------
(* What the commands read off the chain *)

\* A torn receipt makes the whole store unreadable, for everybody.
Readable == ~torn

Receipted(o) == \E i \in DOMAIN chain : chain[i].by = o

\* Positions of the receipts of the operations in S, and whether i is the last.
At(S) == {i \in DOMAIN chain : chain[i].by \in S}
LastOf(i, S) == i \in At(S) /\ \A j \in At(S) : j <= i

\* The other copies, and the other retrievals, of the same copy and domain.
SameCopy(p) == {o \in Copies : Pair(o) = p}
SameRetrieval(p) == {o \in Retrievals : Pair(o) = p}

\* The last word on the copy is that it passed and lies off the host.
OffHostAttested(p) ==
    \E i \in DOMAIN chain : /\ LastOf(i, SameCopy(p))
                            /\ chain[i].passed /\ Asked[chain[i].by].off

\* Mutant of Extends: whatever was appended since, the pin is a prefix of the chain.
ExtendsSomewhere(o) == journal[o].pin <= Len(chain)

\* The chain is still the one the intent of o pinned.
Extends(o) == journal[o].pin = Len(chain)

\* Mutant of Fresh: an existing directory is filled again.
FreshOrNot(o) == content[Dest(o)] \in {"absent", "other", "whole"}

Fresh(o) == content[Dest(o)] = "absent"

------------------------------------------------------------------------------
(* copy-seal and retrieve *)

\* The lock is taken, the id and the destination are new, the chain is read and
\* pinned, and the intent is written.
Begin(o) ==
    /\ cmd = Idle /\ ~journal[o].intent
    /\ Fresh(o) /\ Readable
    /\ o \in Retrievals => OffHostAttested(Pair(o))
    /\ journal' = [journal EXCEPT ![o].intent = TRUE, ![o].pin = Len(chain)]
    /\ cmd' = [Idle EXCEPT !.op = o, !.at = "create"]
    /\ UNCHANGED <<content, chain, torn, candidate, public, faults>>

CreateDestination(o) ==
    /\ cmd.op = o /\ cmd.at = "create" /\ Fresh(o)
    /\ content' = [content EXCEPT ![Dest(o)] = "other"]
    /\ cmd' = [cmd EXCEPT !.at = "fill"]
    /\ UNCHANGED <<journal, chain, torn, candidate, public, faults>>

\* The files are copied and both directories compared.
Fill(o) ==
    /\ cmd.op = o /\ cmd.at = "fill"
    /\ content' = [content EXCEPT ![Dest(o)] = "whole"]
    /\ cmd' = [cmd EXCEPT !.at = "report", !.passed = TRUE, !.seen = TRUE]
    /\ UNCHANGED <<journal, chain, torn, candidate, public, faults>>

\* A retrieval that fails is an outcome; a copy that fails is an error, see Stop.
RetrievalFails(o) ==
    /\ cmd.op = o /\ cmd.at \in {"create", "fill"} /\ o \in Retrievals
    /\ cmd' = [cmd EXCEPT !.at = "report", !.passed = FALSE]
    /\ UNCHANGED <<content, journal, chain, torn, candidate, public, faults>>

WriteOutcome(o) ==
    /\ cmd.op = o /\ cmd.at \in {"report", "reconciled"}
    /\ journal' = [journal EXCEPT ![o].outcome =
                     IF cmd.passed THEN "passed" ELSE "failed"]
    /\ cmd' = [cmd EXCEPT !.at = IF @ = "report" THEN "append" ELSE "check"]
    /\ UNCHANGED <<content, chain, torn, candidate, public, faults>>

AppendReceipt(o) ==
    /\ cmd.op = o /\ cmd.at = "append"
    /\ Readable /\ ~Receipted(o) /\ Extends(o)
    /\ chain' = Append(chain, [by |-> o, passed |-> cmd.passed])
    /\ cmd' = Idle
    /\ UNCHANGED <<content, journal, torn, candidate, public, faults>>

------------------------------------------------------------------------------
(* resume-operation.  A resumption that is refused, or finds its receipt in the *)
(* chain, changes nothing and is no step.                                       *)

\* Without an outcome a copy is compared with its source again.  A retrieval is
\* lost: nothing can tell how long it took.
Reconcile(o) ==
    /\ cmd = Idle /\ journal[o].intent /\ journal[o].outcome = "none"
    /\ o \in Copies /\ content[Dest(o)] = "whole"
    /\ cmd' = [op |-> o, at |-> "reconciled", passed |-> TRUE, seen |-> TRUE]
    /\ UNCHANGED <<content, journal, chain, torn, candidate, public, faults>>

\* Mutant of MayAppend: an outcome that says it passed is believed.
MayAppendUnseen(o, passed) == Readable /\ ~Receipted(o) /\ Extends(o)

\* What has no receipt yet must still be next in the chain, and a pass needs the
\* bytes as they are now.
MayAppend(o, passed) ==
    /\ Readable /\ ~Receipted(o) /\ Extends(o)
    /\ passed => content[Dest(o)] = "whole"

\* The outcome is read back and the chain searched for its receipt.
Resume(o) ==
    LET passed == journal[o].outcome = "passed" IN
    /\ cmd = Idle /\ journal[o].intent /\ journal[o].outcome # "none"
    /\ MayAppend(o, passed)
    /\ cmd' = [op |-> o, at |-> "append", passed |-> passed,
               seen |-> content[Dest(o)] = "whole"]
    /\ UNCHANGED <<content, journal, chain, torn, candidate, public, faults>>

\* The same once a reconciled outcome is written.
Check(o) ==
    /\ cmd.op = o /\ cmd.at = "check"
    /\ cmd' = IF MayAppend(o, TRUE)
              THEN [cmd EXCEPT !.at = "append", !.seen = content[Dest(o)] = "whole"]
              ELSE Idle
    /\ UNCHANGED <<content, journal, chain, torn, candidate, public, faults>>

------------------------------------------------------------------------------
(* Receipts without an operation, candidates and publication *)

AppendControl(c) ==
    /\ cmd = Idle /\ Readable
    /\ ~\E i \in DOMAIN chain : chain[i].by = c     \* bound: one of each
    /\ chain' = Append(chain, [by |-> c, passed |-> TRUE])
    /\ UNCHANGED <<content, journal, torn, cmd, candidate, public, faults>>

\* The copies whose last receipt says that they passed.
PassingCopies ==
    {i \in DOMAIN chain : /\ chain[i].by \in Copies /\ chain[i].passed
                          /\ LastOf(i, SameCopy(Pair(chain[i].by)))}

TwoDistinctCopies ==
    \E i, j \in PassingCopies :
        LET a == Asked[chain[i].by]  b == Asked[chain[j].by]
        IN  a.copy # b.copy /\ a.domain # b.domain

DomainsAreStable ==
    \A i, j \in At(Copies) :
        Asked[chain[i].by].copy = Asked[chain[j].by].copy
            => Asked[chain[i].by].domain = Asked[chain[j].by].domain

\* Mutant of CurrentRetrieval: any retrieval that once passed counts.
OncePassedRetrieval(i) == i \in At(Retrievals) /\ chain[i].passed

\* A failed retrieval revokes the ones before it from the same copy.
CurrentRetrieval(i) ==
    /\ i \in At(Retrievals) /\ chain[i].passed
    /\ LastOf(i, SameRetrieval(Pair(chain[i].by)))

\* The outside attestation names an off-host copy and a retrieval from that copy.
AttestationBound ==
    \E i \in PassingCopies, j \in At(Retrievals) :
        /\ Asked[chain[i].by].off
        /\ CurrentRetrieval(j)
        /\ Pair(chain[i].by) = Pair(chain[j].by)

\* The reviewed packet lists copies, a retrieval and a retention: how chain begins.
BeginsAsReviewed ==
    \E n \in 2 .. Len(chain) :
        /\ n + 2 <= Len(chain)
        /\ \A i \in 1 .. n : chain[i].by \in Copies
        /\ chain[n + 1].by \in Retrievals
        /\ chain[n + 2].by = "retention"

BindsCandidate ==
    DomainsAreStable /\ AttestationBound /\ BeginsAsReviewed

Suspended == At({"suspension"}) # {}

Eligible ==
    /\ BindsCandidate /\ candidate = Len(chain)
    /\ TwoDistinctCopies /\ ~Suspended

SealCandidate ==
    /\ cmd = Idle /\ Readable /\ BindsCandidate
    /\ candidate' = Len(chain)
    /\ UNCHANGED <<content, journal, chain, torn, cmd, public, faults>>

\* The first pass of publish-candidate.
Judge ==
    /\ cmd = Idle /\ Readable /\ public = 0 /\ Eligible
    /\ cmd' = [Idle EXCEPT !.at = "judged"]
    /\ UNCHANGED <<content, journal, chain, torn, candidate, public, faults>>

\* The second pass, the decision, the stage, and the rename that makes it public.
Commit ==
    /\ cmd.at = "judged" /\ Readable /\ public = 0 /\ Eligible
    /\ public' = Len(chain)
    /\ cmd' = [cmd EXCEPT !.at = "committed"]
    /\ UNCHANGED <<content, journal, chain, torn, candidate, faults>>

Confirm ==
    /\ cmd.at = "committed" /\ cmd' = Idle
    /\ UNCHANGED <<content, journal, chain, torn, candidate, public, faults>>

\* What was renamed fails the last look, or an error is raised after the rename.
Rollback ==
    /\ cmd.at = "committed" /\ faults < MaxFaults
    /\ public' = 0 /\ cmd' = Idle /\ faults' = faults + 1
    /\ UNCHANGED <<content, journal, chain, torn, candidate>>

------------------------------------------------------------------------------
(* What happens to the commands and the directories *)

\* The command is killed, or an error ends it; either way the lock is free.
Stop ==
    /\ cmd # Idle /\ faults < MaxFaults
    /\ cmd' = Idle /\ faults' = faults + 1
    /\ UNCHANGED <<content, journal, chain, torn, candidate, public>>

\* Killed while it writes a receipt; a write that fails removes the file again.
TearReceipt ==
    /\ cmd.at = "append" \/ cmd = Idle      \* an operation, or a control
    /\ Readable /\ faults < MaxFaults
    /\ torn' = TRUE /\ cmd' = Idle /\ faults' = faults + 1
    /\ UNCHANGED <<content, journal, chain, candidate, public>>

Alter(d) ==
    /\ content[d] = "whole" /\ faults < MaxFaults
    /\ content' = [content EXCEPT ![d] = "other"]
    /\ faults' = faults + 1
    /\ UNCHANGED <<journal, chain, torn, cmd, candidate, public>>

\* Directories are removed between commands; attested copies are retained.
CleanUp(d) ==
    /\ cmd = Idle /\ content[d] # "absent"
    /\ ~\E i \in At(Copies) : Dest(chain[i].by) = d
    /\ content' = [content EXCEPT ![d] = "absent"]
    /\ UNCHANGED <<journal, chain, torn, cmd, candidate, public, faults>>

Operate(o) ==
    \/ Begin(o) \/ CreateDestination(o) \/ Fill(o) \/ RetrievalFails(o)
    \/ WriteOutcome(o) \/ AppendReceipt(o)
    \/ Reconcile(o) \/ Resume(o) \/ Check(o)

Publish == SealCandidate \/ Judge \/ Commit \/ Confirm \/ Rollback

Next ==
    \/ \E o \in Op : Operate(o)
    \/ \E c \in Control : AppendControl(c)
    \/ Publish
    \/ Stop \/ TearReceipt
    \/ \E d \in Dir : Alter(d) \/ CleanUp(d)

Spec == Init /\ [][Next]_vars

------------------------------------------------------------------------------
(* Properties *)

\* Every receipt of an operation rests on its intent and its outcome, stands
\* right behind the chain that the intent pinned, and is the only one; and a
\* retrieval was begun when the last word on its source, in the chain before it, was
\* an off-host pass.  This is what _complete_operation and
\* resume-operation promise: no chronology is changed, whatever was interrupted.
ReceiptsAreFounded ==
    \A i \in At(Op) :
        LET o == chain[i].by  j == journal[o]
        IN  /\ j.intent /\ j.pin = i - 1
            /\ j.outcome = IF chain[i].passed THEN "passed" ELSE "failed"
            /\ \A k \in At({o}) : k = i
            /\ o \in Retrievals =>
                  \E k \in At(SameCopy(Pair(o))) :
                      /\ k < i /\ chain[k].passed /\ Asked[chain[k].by].off
                      /\ \A l \in At(SameCopy(Pair(o))) : l < i => l <= k

\* One directory is never attested as two copies, whatever two operations that
\* name it were interrupted and resumed: else the copies counted by
\* _has_two_distinct_copy_bindings could be one.
OneAttestationPerDirectory ==
    \A i, j \in At(Copies) :
        chain[i].passed /\ chain[j].passed /\ Dest(chain[i].by) = Dest(chain[j].by)
            => i = j

\* What is public was backed, in the chain it was judged on, by two directories in
\* different failure domains, by an off-host copy whose last retrieval passed, and
\* by no suspension; also when the command died after the rename, and whatever the
\* chain held when the candidate was sealed.
PublicIsRedundant ==
    public # 0 =>
        /\ public <= Len(chain)
        /\ \E i, j \in 1 .. public :
              /\ chain[i].by \in Copies /\ chain[j].by \in Copies
              /\ chain[i].passed /\ chain[j].passed
              /\ Dest(chain[i].by) # Dest(chain[j].by)
              /\ Asked[chain[i].by].domain # Asked[chain[j].by].domain
        /\ \E i \in 1 .. public :
              /\ chain[i].by \in Retrievals /\ chain[i].passed
              /\ \A k \in i + 1 .. public :
                    chain[k].by \notin SameRetrieval(Pair(chain[i].by))
        /\ \A i \in 1 .. public : chain[i].by # "suspension"

\* Every reader of the chain may take it for the log of CustodyLog: whoever appends
\* a pass has compared the bytes since it took the lock (copy_sealed_artifact,
\* _reconcile_completed_destination, _revalidate_passing_outcome_destination).
Custody == INSTANCE CustodyLog WITH
    log <- chain, seen <- IF cmd.seen THEN cmd.op ELSE None
ImplementsCustody == Custody!Spec
=============================================================================

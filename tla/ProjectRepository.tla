-------------------------- MODULE ProjectRepository --------------------------
(***************************************************************************)
(* projects.py: named projects, their immutable revisions, and the pointer *)
(* to the current project, as files that a crash or a failed write may     *)
(* leave in any intermediate state.                                        *)
(*                                                                         *)
(* Every public method runs under the repository lock (a thread lock and a *)
(* file lock), so methods do not interleave; one write of one file is one  *)
(* step, and Interrupt ends a method between any two writes.  A method     *)
(* starts by reading manifests, and reading a manifest repairs whatever    *)
(* was left behind, in four phases that derive what to do from the files:  *)
(* indexed revisions, the pending receipt, orphans, the current pointer.   *)
(*                                                                         *)
(* Revisions are numbered in the order of their creation, so a number is   *)
(* also its created_at and the prepared_at of its receipt; selected_at is  *)
(* the number of revisions that existed when the pointer was written.      *)
(* Content, names and the audit fields of the manifest are left out.       *)
(***************************************************************************)
EXTENDS Integers, FiniteSets, SequencesExt, FiniteSetsExt

CONSTANTS
    Project,
    None,
    MaxRevision,    \* bound on the revisions ever created
    MaxDamage,      \* bound on the files damaged from outside
    Damages         \* the kinds of damage that may happen

ASSUME RepositoryAssumption ==
    /\ MaxRevision \in Nat /\ MaxDamage \in Nat
    /\ None \notin Project

VARIABLES
    health,     \* project.json: none, ok, bad, gone
    index,      \* its revision_ids
    rejected,   \* its rejected_orphan_revision_ids
    updated,    \* its updated_at
    file,       \* revision files: none, good, bad, quarantined
    body,       \* their project, parent and ordinal
    receipt,    \* revision-transaction.json
    pointer,    \* current-project.json
    made,       \* revisions created so far
    op,         \* the method that holds the repository lock
    acked,      \* revisions whose save returned
    hit,        \* revisions damaged from outside
    damage      \* damages so far

vars == <<health, index, rejected, updated, file, body, receipt, pointer, made,
          op, acked, hit, damage>>

manifest == <<health, index, rejected, updated>>
revisions == <<file, body, made>>
ghosts == <<acked, hit, damage>>

------------------------------------------------------------------------------
Revision == 1..MaxRevision

NoBody    == [project |-> None, parent |-> 0, ordinal |-> 0]
NoReceipt == [state |-> "none", rev |-> 0, count |-> 0, latest |-> 0]
NoPointer == [state |-> "none", project |-> None, rev |-> 0, at |-> 0]

\* strict: the caller named the latest revision it expects (expected_latest_revision_id).
Idle == [kind |-> "idle", phase |-> "idle", left |-> {}, cur |-> None, force |-> FALSE,
         base |-> 0, strict |-> FALSE, rev |-> 0]

Indexed(p) == ToSet(index[p])

\* latest_revision_id; 0 stands for None.
Latest(p) == IF index[p] = <<>> THEN 0 ELSE Last(index[p])

RevisionsOf(p) == {r \in Revision : body[r].project = p}

\* Revision files on disk under the name of their revision.
OnDisk(p) == {r \in RevisionsOf(p) : file[r] \in {"good", "bad"}}

Unindexed(p) == OnDisk(p) \ Indexed(p)

\* r may follow the revisions s: its ordinal is the next, its parent is one of them.
Extends(s, r) ==
    /\ body[r].ordinal = Len(s) + 1
    /\ body[r].parent \in ToSet(s) \cup {0}
    /\ body[r].parent = 0 => s = <<>>

\* The same for a revision that is indexed already: any may be without a parent.
Follows(s, r) ==
    /\ body[r].ordinal = Len(s) + 1
    /\ body[r].parent \in ToSet(s) \cup {0}

\* The indexed revisions that survive _recover_indexed_revisions.
Safe(p) ==
    LET ok(n) == \A i \in 1..n : /\ file[index[p][i]] = "good"
                                 /\ Follows(SubSeq(index[p], 1, i - 1), index[p][i])
    IN  SubSeq(index[p], 1, Max({n \in 0..Len(index[p]) : ok(n)}))

\* s extended by orphans, as long as exactly one of them can follow.
Adopted(s, orphans) ==
    LET candidates(t) == {r \in orphans \ ToSet(t) : Extends(t, r)}
        grow[n \in 0..Cardinality(orphans)] ==
            IF n = 0 THEN s
            ELSE LET t == grow[n - 1]
                 IN  IF Cardinality(candidates(t)) = 1
                     THEN Append(t, CHOOSE r \in candidates(t) : TRUE) ELSE t
    IN  IF orphans = {} THEN s ELSE grow[Cardinality(orphans)]

Init ==
    /\ health = [p \in Project |-> "none"]
    /\ index = [p \in Project |-> <<>>]
    /\ rejected = [p \in Project |-> {}]
    /\ updated = [p \in Project |-> 0]
    /\ file = [r \in Revision |-> "none"]
    /\ body = [r \in Revision |-> NoBody]
    /\ receipt = [p \in Project |-> NoReceipt]
    /\ pointer = NoPointer
    /\ made = 0 /\ op = Idle
    /\ acked = {} /\ hit = {} /\ damage = 0

------------------------------------------------------------------------------
(* Writes *)

Quarantine(r) ==
    /\ file' = [file EXCEPT ![r] = "quarantined"]
    /\ UNCHANGED <<manifest, body, made, receipt, pointer, ghosts>>

\* project.json with the revisions ids and the rejected orphans rej.
WriteManifest(p, ids, rej, at) ==
    /\ index' = [index EXCEPT ![p] = ids]
    /\ rejected' = [rejected EXCEPT ![p] = rej]
    /\ updated' = [updated EXCEPT ![p] = at]
    /\ UNCHANGED <<health, revisions, receipt, pointer, ghosts>>

DropReceipt(p) ==
    /\ receipt' = [receipt EXCEPT ![p] = NoReceipt]
    /\ UNCHANGED <<manifest, revisions, pointer, ghosts>>

WritePointer(value) ==
    /\ pointer' = value
    /\ UNCHANGED <<manifest, revisions, receipt, ghosts>>

Nothing == UNCHANGED <<manifest, revisions, receipt, pointer, ghosts>>

To(phase) == op' = [op EXCEPT !.phase = phase]

In(p, phase) == op.phase = phase /\ op.cur = p

\* Mutants: a pointer to the project itself is repaired after a recovery only; the
\* time of the selection is not compared.
SettledUnforced(p, force, intent) ==
    \/ ~force
    \/ pointer.state = "ok" /\ pointer.project # p /\ intent <= pointer.at
    \/ pointer.state = "ok" /\ pointer.project = p /\ pointer.rev = Latest(p)

SettledByForce(p, force, intent) ==
    \/ pointer.state # "ok" /\ ~force
    \/ pointer.state = "ok" /\ pointer.project # p /\ ~force
    \/ pointer.state = "ok" /\ pointer.project = p /\ pointer.rev = Latest(p)

\* _repair_current_pointer returns without a write; intent is 0 when there is none.
Settled(p, force, intent) ==
    \/ pointer.state # "ok" /\ ~force
    \/ /\ pointer.state = "ok" /\ pointer.project # p
       /\ ~force \/ intent <= pointer.at
    \/ pointer.state = "ok" /\ pointer.project = p /\ pointer.rev = Latest(p)

\* One write of it: an unreadable pointer is moved away first.
Repair(p) ==
    WritePointer(IF pointer.state = "bad" THEN NoPointer
                 ELSE [state |-> "ok", project |-> p, rev |-> Latest(p), at |-> made])

------------------------------------------------------------------------------
(* _read_manifest *)

\* The method goes on to the next of the projects it reads.
NextProject(p) ==
    /\ op.phase = "next" /\ p \in op.left
    /\ op' = [op EXCEPT !.left = @ \ {p}, !.cur = p, !.force = FALSE, !.phase = "manifest"]
    /\ Nothing

\* An unreadable manifest is moved away and the project is unavailable: a list goes
\* on without it, current() falls back, any other method raises.
ReadManifest(p) ==
    /\ In(p, "manifest")
    /\ IF health[p] = "ok" THEN To("indexed")
       ELSE CASE op.kind \in {"list", "fallback"} -> To("next")
              [] op.kind = "current" -> To("fall")
              [] OTHER -> op' = Idle
    /\ health' = [health EXCEPT ![p] = IF @ = "bad" THEN "gone" ELSE @]
    /\ UNCHANGED <<index, rejected, updated, revisions, receipt, pointer, ghosts>>

\* _recover_indexed_revisions: unsafe revisions are moved away, then unlisted.
RecoverIndexed(p) ==
    LET unsafe == Indexed(p) \ ToSet(Safe(p))
    IN  /\ In(p, "indexed")
        /\ \/ /\ unsafe = {} /\ To("pending") /\ Nothing
           \/ \E r \in unsafe : file[r] \in {"good", "bad"} /\ Quarantine(r) /\ UNCHANGED op
           \/ /\ unsafe # {} /\ unsafe \cap OnDisk(p) = {}
              /\ WriteManifest(p, Safe(p), rejected[p], 2 * made + 1) /\ To("pending")

\* The revision of the receipt is on disk in the given state.
Pending(p, state) == receipt[p].rev \in OnDisk(p) /\ file[receipt[p].rev] = state

\* can_append: the manifest is the one that the save saw.
Appendable(p) ==
    LET t == receipt[p]
    IN  Len(index[p]) = t.count /\ Latest(p) = t.latest /\ Extends(index[p], t.rev)

\* Mutant: a receipt that tells nothing disqualifies indexed revisions, too.
DisqualifiedAll(p) ==
    LET t == receipt[p]
    IN  CASE t.state = "unreadable" -> OnDisk(p)
          [] t.state = "invalid" -> IF t.rev \in Indexed(p) THEN OnDisk(p) ELSE {t.rev}
          [] t.state = "mismatched" /\ Pending(p, "good") -> {t.rev} \ Indexed(p)
          [] t.state = "ok" /\ Pending(p, "good") /\ ~Appendable(p) -> {t.rev} \ Indexed(p)
          [] OTHER -> {}

\* The revisions that a pending receipt disqualifies: every unindexed one when it
\* does not tell its own, otherwise its own.
Disqualified(p) ==
    LET t == receipt[p]
    IN  CASE t.state = "unreadable" -> Unindexed(p)
          [] t.state = "invalid" -> IF t.rev \in Indexed(p) THEN Unindexed(p) ELSE {t.rev}
          [] t.state = "mismatched" /\ Pending(p, "good") -> {t.rev} \ Indexed(p)
          [] t.state = "ok" /\ Pending(p, "good") /\ ~Appendable(p) -> {t.rev} \ Indexed(p)
          [] OTHER -> {}

Confirmed(p) == receipt[p].state = "ok" /\ Pending(p, "good")

\* _recover_pending_revision: a revision that its receipt does not qualify is recorded
\* as rejected, then moved away; ...
RejectPending(p) ==
    LET d == Disqualified(p)
    IN  /\ In(p, "pending") /\ UNCHANGED op
        /\ \/ /\ ~(d \subseteq rejected[p])
              /\ WriteManifest(p, index[p], rejected[p] \cup d, updated[p])
           \/ d \subseteq rejected[p] /\ \E r \in d \cap OnDisk(p) : Quarantine(r)

\* ... an unreadable revision is moved away without a record; ...
QuarantinePending(p) ==
    /\ In(p, "pending") /\ UNCHANGED op
    /\ receipt[p].state \in {"ok", "mismatched"} /\ Pending(p, "bad")
    /\ Quarantine(receipt[p].rev)

\* Mutant: without a revision to add, orphans are not looked for.
DropPendingOnly(p) ==
    /\ In(p, "pending") /\ receipt[p].state # "none" /\ ~Confirmed(p)
    /\ Disqualified(p) \subseteq rejected[p] \ OnDisk(p)
    /\ receipt[p].state \in {"ok", "mismatched"} => ~Pending(p, "bad")
    /\ DropReceipt(p) /\ To("repair")

\* ... the receipt that is left without a revision to add goes; ...
DropPending(p) ==
    /\ In(p, "pending") /\ receipt[p].state # "none" /\ ~Confirmed(p)
    /\ Disqualified(p) \subseteq rejected[p] \ OnDisk(p)
    /\ receipt[p].state \in {"ok", "mismatched"} => ~Pending(p, "bad")
    /\ DropReceipt(p) /\ To("orphans")

\* ... and a revision that can be appended is, the pointer follows if the selection was
\* meant to be later than the one it holds, and then the receipt goes.
FinishPending(p) ==
    LET r == receipt[p].rev
    IN  /\ In(p, "pending") /\ Confirmed(p) /\ Disqualified(p) = {}
        /\ \/ /\ r \notin Indexed(p)
              /\ WriteManifest(p, Append(index[p], r), rejected[p], 2 * r) /\ UNCHANGED op
           \/ /\ r \in Indexed(p) /\ ~Settled(p, TRUE, r)
              /\ Repair(p) /\ UNCHANGED op
           \/ /\ r \in Indexed(p) /\ Settled(p, TRUE, r)
              /\ DropReceipt(p) /\ op' = [op EXCEPT !.phase = "orphans", !.force = TRUE]

NoPending(p) == In(p, "pending") /\ receipt[p].state = "none" /\ To("orphans") /\ Nothing

\* Mutants: orphans that were rejected before are considered again; ambiguous orphans
\* are moved away one after the other, without a record.
RecoverOrphansAgain(p) ==
    LET discard == {r \in Unindexed(p) : file[r] = "bad"}
        ids     == Adopted(index[p], Unindexed(p))
        rest    == Unindexed(p) \ ToSet(ids)
    IN  /\ In(p, "orphans")
        /\ \/ \E r \in discard \cup (rest \cap rejected[p]) : Quarantine(r) /\ UNCHANGED op
           \/ /\ discard = {} /\ Unindexed(p) # {} /\ ~(rest # {} /\ rest \subseteq rejected[p])
              /\ WriteManifest(p, ids, rejected[p] \cup rest, updated[p])
              /\ op' = [op EXCEPT !.force = @ \/ ids # index[p]]
           \/ Unindexed(p) = {} /\ To("repair") /\ Nothing

RecoverOrphansUnrecorded(p) ==
    LET ids  == Adopted(index[p], Unindexed(p))
        rest == Unindexed(p) \ ToSet(ids)
    IN  /\ In(p, "orphans")
        /\ \/ \E r \in rest : Quarantine(r) /\ UNCHANGED op
           \/ /\ rest = {} /\ Unindexed(p) # {}
              /\ WriteManifest(p, ids, rejected[p], updated[p])
              /\ op' = [op EXCEPT !.force = TRUE]
           \/ Unindexed(p) = {} /\ To("repair") /\ Nothing

\* _recover_orphan_revisions: unreadable or rejected orphans are moved away; the
\* others are adopted as far as the next is unique, and the rest rejected at once.
RecoverOrphans(p) ==
    LET discard == {r \in Unindexed(p) : r \in rejected[p] \/ file[r] = "bad"}
        ids     == Adopted(index[p], Unindexed(p))
        rest    == Unindexed(p) \ ToSet(ids)
        at      == IF rest # {} /\ ids = index[p] THEN updated[p] ELSE 2 * Last(ids)
    IN  /\ In(p, "orphans")
        /\ \/ \E r \in discard : Quarantine(r) /\ UNCHANGED op
           \/ /\ discard = {} /\ Unindexed(p) # {}
              /\ WriteManifest(p, ids, rejected[p] \cup rest, at)
              /\ op' = [op EXCEPT !.force = @ \/ ids # index[p]]
           \/ Unindexed(p) = {} /\ To("repair") /\ Nothing

\* The pointer to this project follows its latest revision.
RepairPointer(p) ==
    /\ In(p, "repair")
    /\ IF Latest(p) = 0 \/ Settled(p, op.force, 0)
       THEN To(IF op.kind \in {"list", "fallback"} THEN "next" ELSE "read") /\ Nothing
       ELSE Repair(p) /\ UNCHANGED op

------------------------------------------------------------------------------
(* Methods *)

Begin(o) == op = Idle /\ op' = o /\ Nothing

CreateProject(p) ==
    /\ op = Idle /\ health[p] = "none"
    /\ health' = [health EXCEPT ![p] = "ok"]
    /\ UNCHANGED <<index, rejected, updated, revisions, receipt, pointer, op, ghosts>>

\* get, history, revision, validate_revision_artifacts
Get(p) ==
    /\ health[p] # "none"
    /\ Begin([Idle EXCEPT !.kind = "get", !.phase = "next", !.left = {p}])

Listed == {p \in Project : health[p] \in {"ok", "bad"}}

List == Begin([Idle EXCEPT !.kind = "list", !.phase = "next", !.left = Listed])

\* current() follows a readable pointer; base keeps the revision that it named.
Current ==
    Begin(IF pointer.state = "ok"
          THEN [Idle EXCEPT !.kind = "current", !.phase = "next",
                            !.left = {pointer.project}, !.base = pointer.rev]
          ELSE [Idle EXCEPT !.kind = "current", !.phase = "fall"])

\* create_revision, record_plan and recover, on a base the caller has seen.
Save(p, base, strict) ==
    /\ health[p] # "none" /\ made < MaxRevision
    /\ Begin([Idle EXCEPT !.kind = "save", !.phase = "next", !.left = {p},
                          !.base = base, !.strict = strict])

ListEnds == op.kind = "list" /\ op.phase = "next" /\ op.left = {} /\ op' = Idle /\ Nothing

GetEnds == op.kind = "get" /\ op.phase = "read" /\ op' = Idle /\ Nothing

\* current() after get: the pointer that it read was stale, or all is well.
CurrentEnds ==
    /\ op.kind = "current" /\ op.phase = "read"
    /\ \/ op.base = Latest(op.cur) /\ op' = Idle /\ Nothing
       \/ op.base # Latest(op.cur) /\ Latest(op.cur) = 0 /\ To("fall") /\ Nothing
       \/ /\ op.base # Latest(op.cur) /\ Latest(op.cur) # 0 /\ op' = Idle
          /\ WritePointer([state |-> "ok", project |-> op.cur,
                           rev |-> Latest(op.cur), at |-> made])

\* Without a usable pointer every project is read; ...
Fall ==
    /\ op.phase = "fall"
    /\ op' = [Idle EXCEPT !.kind = "fallback", !.phase = "next", !.left = Listed]
    /\ WritePointer(NoPointer)

\* ... and the one that was updated last is selected.
Select ==
    LET candidates == {p \in Listed : Latest(p) # 0}
    IN  /\ op.kind = "fallback" /\ op.phase = "next" /\ op.left = {}
        /\ op' = Idle
        /\ \/ candidates = {} /\ Nothing
           \/ \E p \in candidates :
                /\ \A q \in candidates : updated[q] <= updated[p]
                /\ WritePointer([state |-> "ok", project |-> p, rev |-> Latest(p), at |-> made])

\* The checks of create_revision, and the new revision in memory.
Prepare(p) ==
    LET parent == IF op.base = 0 THEN Latest(p) ELSE op.base
        r      == made + 1
    IN  /\ op.kind = "save" /\ In(p, "read")
        /\ IF \/ op.strict /\ op.base # Latest(p)
              \/ parent # 0 /\ parent \notin Indexed(p)
              \/ receipt[p].state # "none"
           THEN op' = Idle /\ Nothing
           ELSE /\ op' = [op EXCEPT !.phase = "receipt", !.rev = r]
                /\ made' = r
                /\ body' = [body EXCEPT ![r] = [project |-> p, parent |-> parent,
                                                ordinal |-> Len(index[p]) + 1]]
                /\ UNCHANGED <<manifest, file, receipt, pointer, ghosts>>

\* The writes of create_revision, in their order.
WriteReceipt(p) ==
    /\ In(p, "receipt") /\ To("revision")
    /\ receipt' = [receipt EXCEPT ![p] = [state |-> "ok", rev |-> op.rev,
                                          count |-> Len(index[p]), latest |-> Latest(p)]]
    /\ UNCHANGED <<manifest, revisions, pointer, ghosts>>

WriteRevision(p) ==
    /\ In(p, "revision") /\ To("index")
    /\ file' = [file EXCEPT ![op.rev] = "good"]
    /\ UNCHANGED <<manifest, body, made, receipt, pointer, ghosts>>

\* Mutant: the history goes on from the base of the new revision.
WriteIndexFromBase(p) ==
    LET base == {i \in DOMAIN index[p] : index[p][i] = body[op.rev].parent}
    IN  /\ In(p, "index") /\ To("select")
        /\ WriteManifest(p, Append(SubSeq(index[p], 1, Max(base \cup {0})), op.rev),
                         rejected[p], 2 * op.rev)

WriteIndex(p) ==
    /\ In(p, "index") /\ To("select")
    /\ WriteManifest(p, Append(index[p], op.rev), rejected[p], 2 * op.rev)

WriteCurrent(p) ==
    /\ In(p, "select") /\ To("commit")
    /\ WritePointer([state |-> "ok", project |-> p, rev |-> op.rev, at |-> made])

Commit(p) ==
    /\ In(p, "commit") /\ op' = Idle
    /\ receipt' = [receipt EXCEPT ![p] = NoReceipt]
    /\ acked' = acked \cup {op.rev}
    /\ UNCHANGED <<manifest, revisions, pointer, hit, damage>>

\* The process dies, or a write raises, after any of the writes.
Interrupt == op # Idle /\ op' = Idle /\ Nothing

------------------------------------------------------------------------------
(* Damage from outside, between methods *)

Harm(kind) ==
    /\ kind \in Damages /\ op = Idle
    /\ damage < MaxDamage /\ damage' = damage + 1
    /\ UNCHANGED <<op, acked>>

\* A revision file no longer matches its digest.
SpoilRevision(r) ==
    /\ Harm("revision") /\ file[r] = "good"
    /\ file' = [file EXCEPT ![r] = "bad"] /\ hit' = hit \cup {r}
    /\ UNCHANGED <<manifest, body, made, receipt, pointer>>

SpoilManifest(p) ==
    /\ Harm("manifest") /\ health[p] = "ok"
    /\ health' = [health EXCEPT ![p] = "bad"] /\ hit' = hit \cup Indexed(p)
    /\ UNCHANGED <<index, rejected, updated, revisions, receipt, pointer>>

\* The manifest is put back from a backup that lacks the last revisions.
RestoreManifest(p) ==
    /\ Harm("restore") /\ health[p] = "ok"
    /\ \E n \in 0..(Len(index[p]) - 1) :
        /\ index' = [index EXCEPT ![p] = SubSeq(@, 1, n)]
        /\ hit' = hit \cup ToSet(SubSeq(index[p], n + 1, Len(index[p])))
    /\ UNCHANGED <<health, rejected, updated, revisions, receipt, pointer>>

SpoilReceipt(p) ==
    /\ Harm("receipt") /\ receipt[p].state = "ok"
    /\ \E s \in {"unreadable", "invalid", "mismatched"} :
        receipt' = [receipt EXCEPT ![p].state = s]
    /\ UNCHANGED <<manifest, revisions, pointer, hit>>

LoseReceipt(p) ==
    /\ Harm("lost") /\ receipt[p].state # "none"
    /\ receipt' = [receipt EXCEPT ![p] = NoReceipt]
    /\ UNCHANGED <<manifest, revisions, pointer, hit>>

\* A whole revision file of a diverged copy of the project appears.
ForeignRevision(p) ==
    LET r == made + 1
    IN  /\ Harm("foreign") /\ health[p] = "ok" /\ made < MaxRevision
        /\ made' = r /\ file' = [file EXCEPT ![r] = "good"]
        /\ \E parent \in RevisionsOf(p) \cup {0}, n \in 1..(Len(index[p]) + 2) :
            body' = [body EXCEPT ![r] = [project |-> p, parent |-> parent, ordinal |-> n]]
        /\ UNCHANGED <<manifest, receipt, pointer, hit>>

SpoilPointer ==
    /\ Harm("pointer") /\ pointer.state = "ok"
    /\ \E s \in {"bad", "none"} : pointer' = [NoPointer EXCEPT !.state = s]
    /\ UNCHANGED <<manifest, revisions, receipt, hit>>

------------------------------------------------------------------------------
Read(p) ==
    \/ NextProject(p) \/ ReadManifest(p) \/ RecoverIndexed(p)
    \/ RejectPending(p) \/ QuarantinePending(p) \/ DropPending(p) \/ FinishPending(p)
    \/ NoPending(p) \/ RecoverOrphans(p) \/ RepairPointer(p)

Write(p) ==
    \/ Prepare(p) \/ WriteReceipt(p) \/ WriteRevision(p) \/ WriteIndex(p)
    \/ WriteCurrent(p) \/ Commit(p)

Method ==
    \/ \E p \in Project : CreateProject(p) \/ Get(p) \/ Read(p) \/ Write(p)
    \/ \E p \in Project : Save(p, 0, FALSE)
    \/ \E p \in Project : \E base \in RevisionsOf(p), strict \in BOOLEAN : Save(p, base, strict)
    \/ List \/ Current \/ ListEnds \/ GetEnds \/ CurrentEnds \/ Fall \/ Select

Damage ==
    \/ \E r \in Revision : SpoilRevision(r)
    \/ \E p \in Project :
        \/ SpoilManifest(p) \/ RestoreManifest(p) \/ SpoilReceipt(p)
        \/ LoseReceipt(p) \/ ForeignRevision(p)
    \/ SpoilPointer

Next == Method \/ Interrupt \/ Damage

Spec == Init /\ [][Next]_vars

------------------------------------------------------------------------------
(* Properties *)

Phases == {"idle", "next", "manifest", "indexed", "pending", "orphans", "repair", "read",
           "fall", "receipt", "revision", "index", "select", "commit"}

TypeOK ==
    /\ health \in [Project -> {"none", "ok", "bad", "gone"}]
    /\ index \in [Project -> Seq(Revision)] /\ rejected \in [Project -> SUBSET Revision]
    /\ updated \in [Project -> 0..(2 * MaxRevision + 1)]
    /\ file \in [Revision -> {"none", "good", "bad", "quarantined"}]
    /\ body \in [Revision -> [project : Project \cup {None}, parent : 0..MaxRevision,
                              ordinal : 0..(MaxRevision + 1)]]
    /\ receipt \in [Project -> [state : {"none", "ok", "unreadable", "invalid", "mismatched"},
                                rev : 0..MaxRevision, count : 0..MaxRevision,
                                latest : 0..MaxRevision]]
    /\ pointer \in [state : {"none", "ok", "bad"}, project : Project \cup {None},
                    rev : 0..MaxRevision, at : 0..MaxRevision]
    /\ made \in 0..MaxRevision /\ damage \in 0..MaxDamage
    /\ op \in [kind : {"idle", "get", "list", "current", "fallback", "save"},
               phase : Phases, left : SUBSET Project, cur : Project \cup {None},
               force : BOOLEAN, base : 0..MaxRevision, strict : BOOLEAN,
               rev : 0..MaxRevision]
    /\ acked \subseteq Revision /\ hit \subseteq Revision

\* What a read of p that nothing interrupts makes of the files: defined at once, as
\* the recovery phases are not.
Outcome(p) ==
    LET safe   == Safe(p)
        t      == receipt[p]
        loose  == {r \in RevisionsOf(p) \ Indexed(p) : file[r] = "good"}
        added  == IF /\ t.state = "ok" /\ t.rev \in loose /\ Extends(safe, t.rev)
                     /\ t.count = Len(safe)
                     /\ t.latest = IF safe = <<>> THEN 0 ELSE Last(safe)
                  THEN <<t.rev>> ELSE <<>>
        barred == CASE t.state = "none" -> {}
                    [] \/ t.state = "unreadable"
                       \/ t.state = "invalid" /\ t.rev \in ToSet(safe) -> loose
                    [] OTHER -> {t.rev}
    IN  IF health[p] # "ok" THEN <<>>
        ELSE Adopted(safe \o added, loose \ (rejected[p] \cup barred))

\* "Recovers deterministically" after an interruption at any write (the test of
\* that name): every write of a recovery and every later write of a save keeps what a
\* complete read would make of the files; only the revision file of a save adds to it.
RecoveryKeepsOutcome ==
    [][made' = made /\ damage' = damage /\ op.phase # "revision"
        => \A p \in Project : Outcome(p)' = Outcome(p)]_vars

\* A read that completes has brought the files to that outcome: the index is it, all
\* its revisions are whole, no receipt and no stray revision is left for later.
ReadSettles ==
    op.phase = "read" =>
        LET p == op.cur
        IN  /\ index[p] = Outcome(p) /\ receipt[p].state = "none"
            /\ OnDisk(p) = Indexed(p) /\ \A r \in Indexed(p) : file[r] = "good"

\* A revision whose save returned stays in history, unless it or an earlier revision
\* of its project was itself damaged.
AckedSurvives ==
    \A r \in acked :
        LET p == body[r].project
        IN  \/ r \in ToSet(Outcome(p))
            \/ \E d \in hit : body[d].project = p /\ body[d].ordinal <= body[r].ordinal

\* A revision that was rejected once never becomes history.
RejectedStaysOut == \A p \in Project : Indexed(p) \cap rejected[p] = {}

\* "Crash repair respects later current-project selection intent": the pointer moves to
\* another project only for a revision later than the one it held.
SelectionNeverGoesBack ==
    [][pointer.state = "ok" /\ pointer'.state = "ok" /\ pointer'.project # pointer.project
        => pointer'.rev > pointer.rev]_vars

\* A read of the current project leaves the pointer at its latest revision.
PointerFollows ==
    op.phase = "read" /\ pointer.state = "ok" /\ pointer.project = op.cur /\ index[op.cur] # <<>>
        => pointer.rev = Latest(op.cur)

\* "This ordering prevents crash repair from changing which project the operator chose
\* after that transaction began": once every save is recovered, the pointer is at the
\* project that was saved last.
LastChoiceStands ==
    op = Idle /\ pointer.state = "ok" /\ (\A p \in Project : receipt[p].state = "none")
        => \A p \in Project : \A r \in Indexed(p) :
              p # pointer.project => r < Max(Indexed(pointer.project) \cup {0})

History == INSTANCE RevisionHistory WITH
    history <- [p \in Project |-> Outcome(p)], durable <- acked

\* As long as no revision and no manifest is damaged, what a read would show is a
\* history that grows by whole saves and keeps every one that returned.
ImplementsHistory == History!Spec
=============================================================================

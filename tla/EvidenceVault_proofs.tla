------------------------- MODULE EvidenceVault_proofs --------------------------
(****************************************************************************)
(* For any operations, whatever they ask for and however often they are     *)
(* interrupted: every receipt is founded, no directory is attested as two   *)
(* copies, what is public is redundant, and the receipts are the log of     *)
(* CustodyLog.                                                              *)
(*                                                                          *)
(* None of these is inductive.  CmdInv says what the holder of the lock has *)
(* behind it at each point; JournalInv what an intent found when it was     *)
(* written, in the part of the chain it pins: for a retrieval an off-host   *)
(* pass, for a copy nobody who attested the same directory.  The second is  *)
(* kept because a copy is appended only right behind what its intent        *)
(* pinned, and holds when the intent is written because the directory of an *)
(* attested copy is never absent, KeptInv.                                  *)
(****************************************************************************)
EXTENDS EvidenceVault, TLAPS

Receipt == [by : Op \cup Control, passed : BOOLEAN]

------------------------------------------------------------------------------
(* The inductive invariant *)

Busy == cmd.op # None

CmdInv ==
    /\ cmd.op = None <=> cmd.at \in {"idle", "judged", "committed"}
    /\ ~Busy => ~cmd.seen
    /\ Busy =>
        LET o == cmd.op IN
        /\ journal[o].intent
        /\ cmd.at \in {"create", "fill", "report", "reconciled"}
              => journal[o].outcome = "none"
        /\ cmd.at \in {"check", "append"}
              => journal[o].outcome = IF cmd.passed THEN "passed" ELSE "failed"
        /\ cmd.at \in {"create", "fill"} => ~cmd.seen /\ ~cmd.passed
        /\ cmd.at = "fill" \/ cmd.passed => content[Dest(o)] # "absent"
        /\ cmd.passed => cmd.seen
        /\ cmd.at \in {"reconciled", "check"} => cmd.passed
        /\ o \in Copies /\ cmd.at \notin {"create", "fill"} => cmd.passed

\* The first n receipts end, for the source of a retrieval, in an off-host pass.
OffHostIn(p, n) ==
    \E k \in At(SameCopy(p)) :
        /\ k <= n /\ chain[k].passed /\ Asked[chain[k].by].off
        /\ \A l \in At(SameCopy(p)) : l <= n => l <= k

JournalInv ==
    \A o \in Op :
        /\ journal[o].outcome # "none" => journal[o].intent
        /\ o \in Copies => journal[o].outcome # "failed"
        /\ journal[o].intent =>
              /\ journal[o].pin <= Len(chain)
              /\ o \in Retrievals => OffHostIn(Pair(o), journal[o].pin)
              /\ \A i \in At(Copies) :
                    i <= journal[o].pin => Dest(chain[i].by) # Dest(o)

FoundedInv ==
    \A i \in At(Op) :
        /\ journal[chain[i].by].intent /\ journal[chain[i].by].pin = i - 1
        /\ journal[chain[i].by].outcome = IF chain[i].passed THEN "passed" ELSE "failed"
        /\ \A k \in At(Op) : chain[k].by = chain[i].by => k = i

KeptInv == \A i \in At(Copies) : content[Dest(chain[i].by)] # "absent"

\* What the publication left behind needs no more than the chain.
Backed ==
    /\ public <= Len(chain)
    /\ \E i, j \in 1 .. public :
          /\ chain[i].by \in Copies /\ chain[j].by \in Copies
          /\ chain[i].passed /\ chain[j].passed
          /\ Dest(chain[i].by) # Dest(chain[j].by)
          /\ Asked[chain[i].by].domain # Asked[chain[j].by].domain
    /\ \E i \in 1 .. public :
          /\ chain[i].by \in Retrievals /\ chain[i].passed
          /\ \A k \in i + 1 .. public :
                chain[k].by \notin SameRetrieval(Pair(chain[i].by))
    /\ \A i \in 1 .. public : chain[i].by # "suspension"

VaultInv == TypeOK /\ CmdInv /\ JournalInv /\ FoundedInv /\ KeptInv

------------------------------------------------------------------------------
(* Facts *)

LEMMA Names ==
    /\ None \notin Op /\ Op \cap Control = {}
    /\ Copies \subseteq Op /\ Retrievals \subseteq Op
    /\ Copies \cap Retrievals = {} /\ Copies \cup Retrievals = Op
    /\ \A o \in Op : Dest(o) \in Dir
    /\ MaxFaults \in Nat
  BY VaultAssumption DEF Copies, Retrievals, Dest, Dir

LEMMA IdleFacts ==
    /\ Idle.op = None /\ Idle.at = "idle" /\ Idle.passed = FALSE /\ Idle.seen = FALSE
    /\ Idle \in [op : Op \cup {None}, passed : BOOLEAN, seen : BOOLEAN,
                 at : {"idle", "create", "fill", "report", "reconciled", "check",
                       "append", "judged", "committed"}]
  BY DEF Idle

\* What an append does to the positions of the chain.
LEMMA Appended ==
    ASSUME chain \in Seq(Receipt), NEW e \in Receipt, chain' = Append(chain, e)
    PROVE  /\ chain' \in Seq(Receipt)
           /\ Len(chain) \in Nat /\ Len(chain') = Len(chain) + 1
           /\ DOMAIN chain = 1 .. Len(chain)
           /\ DOMAIN chain' = 1 .. Len(chain) + 1
           /\ \A i \in 1 .. Len(chain) : chain'[i] = chain[i]
           /\ chain'[Len(chain) + 1] = e
  OBVIOUS

Files == [intent : BOOLEAN, pin : Nat, outcome : {"none", "passed", "failed"}]

LEMMA TypeInit == Init => TypeOK
<1> SUFFICES ASSUME Init PROVE TypeOK
  OBVIOUS
<1>1. chain \in Seq(Receipt)
  BY DEF Init
<1>2. journal \in [Op -> Files]
  BY DEF Init, NoFiles, Files
<1>3. content \in [Dir -> {"absent", "other", "whole"}]
  BY DEF Init
<1>4. candidate \in Nat /\ public \in Nat /\ faults \in 0 .. MaxFaults
  BY Names DEF Init
<1>5. QED
  BY <1>1, <1>2, <1>3, <1>4, IdleFacts DEF Init, TypeOK, Receipt, Files

LEMMA TypeStep == TypeOK /\ [Next]_vars => TypeOK'
<1> SUFFICES ASSUME TypeOK, [Next]_vars PROVE TypeOK'
  OBVIOUS
<1> USE Names, IdleFacts DEF TypeOK
<1>1. ASSUME NEW o \in Op, Begin(o) PROVE TypeOK'
<2>1. Len(chain) \in Nat
    OBVIOUS
<2>2. journal' \in [Op -> Files]
  <3>1. journal \in [Op -> Files]
      BY DEF Files
  <3>2. \A n \in Nat, f \in Files : [[f EXCEPT !.intent = TRUE] EXCEPT !.pin = n] \in Files
      BY DEF Files
  <3>3. journal' = [journal EXCEPT ![o] =
                      [[journal[o] EXCEPT !.intent = TRUE] EXCEPT !.pin = Len(chain)]]
      BY <1>1, <3>1 DEF Begin
  <3>4. QED
      BY <2>1, <3>1, <3>2, <3>3
<2>3. QED
    BY <1>1, <2>2 DEF Begin, Idle, Files
<1>2. ASSUME NEW o \in Op, CreateDestination(o) PROVE TypeOK'
  BY <1>2 DEF CreateDestination
<1>3. ASSUME NEW o \in Op, Fill(o) PROVE TypeOK'
  BY <1>3 DEF Fill
<1>4. ASSUME NEW o \in Op, RetrievalFails(o) PROVE TypeOK'
  BY <1>4 DEF RetrievalFails
<1>5. ASSUME NEW o \in Op, WriteOutcome(o) PROVE TypeOK'
<2>1. journal' \in [Op -> Files]
  <3>1. \A v \in {"passed", "failed"} : [journal EXCEPT ![o].outcome = v] \in [Op -> Files]
      BY DEF Files
  <3>2. QED
      BY <1>5, <3>1 DEF WriteOutcome
<2>2. cmd' \in [op : Op \cup {None}, passed : BOOLEAN, seen : BOOLEAN,
               at : {"idle", "create", "fill", "report", "reconciled", "check",
                     "append", "judged", "committed"}]
    BY <1>5 DEF WriteOutcome
<2>3. QED
    BY <1>5, <2>1, <2>2 DEF WriteOutcome, Files
<1>6. ASSUME NEW o \in Op, AppendReceipt(o) PROVE TypeOK'
  BY <1>6 DEF AppendReceipt
<1>7. ASSUME NEW o \in Op, Reconcile(o) PROVE TypeOK'
  BY <1>7 DEF Reconcile
<1>8. ASSUME NEW o \in Op, Resume(o) PROVE TypeOK'
  BY <1>8 DEF Resume
<1>9. ASSUME NEW o \in Op, Check(o) PROVE TypeOK'
  BY <1>9 DEF Check
<1>10. ASSUME NEW c \in Control, AppendControl(c) PROVE TypeOK'
  BY <1>10 DEF AppendControl
<1>11. CASE Publish
<2>1. Len(chain) \in Nat
    OBVIOUS
<2>2. CASE SealCandidate \/ Judge
  <3>1. CASE SealCandidate
      BY <2>1, <3>1 DEF SealCandidate
  <3>2. CASE Judge
      BY <3>2 DEF Judge, Idle
  <3>3. QED
      BY <2>2, <3>1, <3>2
<2>3. CASE Commit
    BY <2>1, <2>3 DEF Commit
<2>4. CASE Confirm
    BY <2>4 DEF Confirm
<2>5. CASE Rollback
  <3>1. faults' \in 0 .. MaxFaults
      BY <2>5 DEF Rollback
  <3>2. QED
      BY <3>1, <2>5 DEF Rollback
<2>6. QED
    BY <1>11, <2>2, <2>3, <2>4, <2>5 DEF Publish
<1>12. CASE Stop \/ TearReceipt
<2>1. faults' \in 0 .. MaxFaults /\ cmd' = Idle
    BY <1>12 DEF Stop, TearReceipt
<2>2. QED
    BY <1>12, <2>1 DEF Stop, TearReceipt
<1>13. ASSUME NEW d \in Dir, Alter(d) \/ CleanUp(d) PROVE TypeOK'
  BY <1>13 DEF Alter, CleanUp
<1>14. CASE UNCHANGED vars
  BY <1>14 DEF vars
<1>15. QED
  BY <1>1, <1>2, <1>3, <1>4, <1>5, <1>6, <1>7, <1>8, <1>9, <1>10, <1>11, <1>12,
     <1>13, <1>14 DEF Next, Operate

\* TypeOK holds of every reachable state: the records of the commands, their journal
\* and the chain stay what the code writes.
THEOREM TypeCorrect == Spec => []TypeOK
<1>1. QED
  BY TypeInit, TypeStep, PTL DEF Spec

------------------------------------------------------------------------------
(* Receipts are only added *)

LEMMA Positions ==
    ASSUME TypeOK
    PROVE  /\ chain \in Seq(Receipt) /\ Len(chain) \in Nat
           /\ DOMAIN chain = 1 .. Len(chain)
           /\ \A i \in DOMAIN chain : chain[i] \in Receipt
<1>1. chain \in Seq(Receipt)
  BY DEF TypeOK, Receipt
<1>2. QED
  BY <1>1

LEMMA SameReceipts ==
    ASSUME JournalInv, FoundedInv, UNCHANGED <<chain, journal>>
    PROVE  JournalInv' /\ FoundedInv'
  BY DEF JournalInv, FoundedInv, OffHostIn, At

LEMMA SameKept ==
    ASSUME KeptInv, TypeOK, chain' = chain,
           \A d \in Dir : content'[d] = "absent" =>
              \/ content[d] = "absent"
              \/ ~\E i \in At(Copies) : Dest(chain[i].by) = d
    PROVE  KeptInv'
  BY Positions, Names DEF KeptInv, At

\* The positions of some operations, once one more receipt is there.
LEMMA GrownAt ==
    ASSUME TypeOK, NEW e \in Receipt, chain' = Append(chain, e), NEW S
    PROVE  /\ \A i \in At(S) : i \in At(S)' /\ chain'[i] = chain[i]
           /\ \A i \in At(S)' : i \in At(S) \/ (i = Len(chain) + 1 /\ e.by \in S)
           /\ \A i \in At(S) : i \in 1 .. Len(chain)
           /\ chain'[Len(chain) + 1] = e
           /\ Len(chain) \in Nat /\ Len(chain') = Len(chain) + 1
  BY Positions, Appended DEF At

LEMMA GrownJournal ==
    ASSUME TypeOK, JournalInv, NEW e \in Receipt, chain' = Append(chain, e),
           journal' = journal
    PROVE  JournalInv'
<1> SUFFICES ASSUME NEW o \in Op
             PROVE  /\ journal[o].outcome # "none" => journal[o].intent
                    /\ o \in Copies => journal[o].outcome # "failed"
                    /\ journal[o].intent =>
                          /\ journal[o].pin <= Len(chain')
                          /\ o \in Retrievals => OffHostIn(Pair(o), journal[o].pin)'
                          /\ \A i \in At(Copies)' :
                                i <= journal[o].pin => Dest(chain'[i].by) # Dest(o)
  BY DEF JournalInv
<1>1. journal[o].pin \in Nat
  BY DEF TypeOK
<1>2. ASSUME journal[o].intent
      PROVE  /\ journal[o].pin <= Len(chain')
             /\ \A i \in At(Copies)' :
                   i <= journal[o].pin => Dest(chain'[i].by) # Dest(o)
  <2>1. journal[o].pin <= Len(chain)
      BY <1>2 DEF JournalInv
  <2>2. QED
      BY <1>1, <1>2, <2>1, GrownAt DEF JournalInv
<1>3. ASSUME journal[o].intent, o \in Retrievals
      PROVE  OffHostIn(Pair(o), journal[o].pin)'
  <2> DEFINE S == SameCopy(Pair(o))  n == journal[o].pin
  <2>1. n <= Len(chain) /\ OffHostIn(Pair(o), n)
      BY <1>3 DEF JournalInv
  <2>2. PICK k \in At(S) : /\ k <= n /\ chain[k].passed /\ Asked[chain[k].by].off
                           /\ \A l \in At(S) : l <= n => l <= k
      BY <2>1 DEF OffHostIn
  <2>3. k \in At(S)' /\ chain'[k] = chain[k]
      BY <2>2, GrownAt
  <2>4. \A l \in At(S)' : l <= n => l <= k
      BY <1>1, <2>1, <2>2, GrownAt
  <2>5. SameCopy(Pair(o))' = S
      BY DEF SameCopy
  <2>6. QED
      BY <2>2, <2>3, <2>4, <2>5 DEF OffHostIn
<1>4. QED
  BY <1>2, <1>3 DEF JournalInv

------------------------------------------------------------------------------
(* The invariant is inductive *)

LEMMA VaultInit == Init => VaultInv
<1> SUFFICES ASSUME Init PROVE VaultInv
  OBVIOUS
<1>1. TypeOK
  BY TypeInit
<1>2. CmdInv
  BY IdleFacts DEF Init, CmdInv, Busy
<1>3. \A o \in Op : journal[o].outcome = "none" /\ ~journal[o].intent
  BY DEF Init, NoFiles
<1>4. \A S : At(S) = {}
  BY DEF Init, At
<1>5. QED
  BY <1>1, <1>2, <1>3, <1>4 DEF VaultInv, JournalInv, FoundedInv, KeptInv

\* The files of the other operations stay as they are.
LEMMA VaultStep == VaultInv /\ [Next]_vars => VaultInv'
<1> SUFFICES ASSUME VaultInv, [Next]_vars PROVE VaultInv'
  OBVIOUS
<1> USE DEF VaultInv
<1>0. TypeOK /\ TypeOK'
  BY TypeStep
<1>1. ASSUME NEW o \in Op, Begin(o) PROVE VaultInv'
  <2>1. /\ ~journal[o].intent /\ journal[o].outcome = "none"
        /\ content[Dest(o)] = "absent" /\ journal[o].pin \in Nat
      BY <1>1, <1>0 DEF Begin, Fresh, JournalInv, TypeOK
  <2>2. /\ journal'[o].intent /\ journal'[o].pin = Len(chain)
        /\ journal'[o].outcome = "none"
        /\ \A p \in Op \ {o} : journal'[p] = journal[p]
      BY <1>1, <1>0, <2>1 DEF Begin, TypeOK
  <2>3. CmdInv'
      BY <1>1, <2>2, Names, IdleFacts DEF Begin, CmdInv, Busy, Idle
  <2>4. \A S : At(S)' = At(S)
      BY <1>1 DEF Begin, At
  <2>5. chain' = chain /\ content' = content
      BY <1>1 DEF Begin
  <2>6. FoundedInv'
    <3>1. \A i \in At(Op) : chain[i].by \in Op \ {o}
        BY <2>1 DEF FoundedInv, At
    <3>2. QED
        BY <2>2, <2>4, <2>5, <3>1 DEF FoundedInv
  <2>7. KeptInv'
      BY <2>4, <2>5 DEF KeptInv
  <2>8. JournalInv'
    <3>1. o \in Retrievals => OffHostIn(Pair(o), Len(chain))
        BY <1>1, <1>0, Positions DEF Begin, OffHostAttested, OffHostIn, LastOf, At
    <3>2. \A i \in At(Copies) : Dest(chain[i].by) # Dest(o)
        BY <2>1 DEF KeptInv
    <3>3. \A p, n : OffHostIn(p, n)' = OffHostIn(p, n)
        BY <2>4, <2>5 DEF OffHostIn, SameCopy
    <3>4. QED
        BY <1>0, Positions, <2>2, <2>4, <2>5, <3>1, <3>2, <3>3, Names DEF JournalInv
  <2>9. QED
      BY <1>0, <2>3, <2>6, <2>7, <2>8
<1>2. ASSUME NEW o \in Op, CreateDestination(o) PROVE VaultInv'
  <2>1. JournalInv' /\ FoundedInv'
      BY <1>2, SameReceipts DEF CreateDestination
  <2>2. Dest(o) \in Dir /\ content'[Dest(o)] = "other"
      BY <1>2, <1>0, Names DEF CreateDestination, TypeOK
  <2>3. KeptInv'
    <3>1. \A d \in Dir : content'[d] = "absent" => content[d] = "absent"
        BY <1>2, <1>0, Names DEF CreateDestination, TypeOK
    <3>2. QED
        BY <1>2, <1>0, <3>1, SameKept DEF CreateDestination
  <2>4. CmdInv'
      BY <1>2, <1>0, <2>2, Names DEF CreateDestination, CmdInv, Busy, TypeOK
  <2>5. QED
      BY <1>0, <2>1, <2>3, <2>4
<1>3. ASSUME NEW o \in Op, Fill(o) PROVE VaultInv'
  <2>1. JournalInv' /\ FoundedInv'
      BY <1>3, SameReceipts DEF Fill
  <2>2. Dest(o) \in Dir /\ content'[Dest(o)] = "whole"
      BY <1>3, <1>0, Names DEF Fill, TypeOK
  <2>3. KeptInv'
    <3>1. \A d \in Dir : content'[d] = "absent" => content[d] = "absent"
        BY <1>3, <1>0, Names DEF Fill, TypeOK
    <3>2. QED
        BY <1>3, <1>0, <3>1, SameKept DEF Fill
  <2>4. CmdInv'
      BY <1>3, <1>0, <2>2, Names DEF Fill, CmdInv, Busy, TypeOK
  <2>5. QED
      BY <1>0, <2>1, <2>3, <2>4
<1>4. ASSUME NEW o \in Op, RetrievalFails(o) PROVE VaultInv'
  <2>1. JournalInv' /\ FoundedInv'
      BY <1>4, SameReceipts DEF RetrievalFails
  <2>2. KeptInv'
      BY <1>4 DEF RetrievalFails, KeptInv, At
  <2>3. CmdInv'
      BY <1>4, <1>0, Names DEF RetrievalFails, CmdInv, Busy, TypeOK
  <2>4. QED
      BY <1>0, <2>1, <2>2, <2>3
<1>5. ASSUME NEW o \in Op, WriteOutcome(o) PROVE VaultInv'
  <2>1. journal[o].intent /\ journal[o].outcome = "none"
      BY <1>5, Names DEF WriteOutcome, CmdInv, Busy
  <2>2. /\ journal'[o].intent /\ journal'[o].pin = journal[o].pin
        /\ journal'[o].outcome = IF cmd.passed THEN "passed" ELSE "failed"
        /\ \A p \in Op \ {o} : journal'[p] = journal[p]
      BY <1>5, <1>0, <2>1 DEF WriteOutcome, TypeOK
  <2>3. /\ cmd'.op = o /\ cmd'.at \in {"append", "check"}
        /\ cmd'.at = "check" => cmd.at = "reconciled"
        /\ cmd'.passed = cmd.passed /\ cmd'.seen = cmd.seen
      BY <1>5, <1>0 DEF WriteOutcome, TypeOK
  <2>4. chain' = chain /\ content' = content
      BY <1>5 DEF WriteOutcome
  <2>5. CmdInv'
      BY <1>5, <2>2, <2>3, <2>4, Names DEF WriteOutcome, CmdInv, Busy
  <2>6. \A S : At(S)' = At(S)
      BY <2>4 DEF At
  <2>7. FoundedInv'
    <3>1. \A i \in At(Op) : chain[i].by \in Op \ {o}
        BY <2>1 DEF FoundedInv, At
    <3>2. QED
        BY <2>2, <2>4, <2>6, <3>1 DEF FoundedInv
  <2>8. KeptInv'
      BY <2>4, <2>6 DEF KeptInv
  <2>9. JournalInv'
    <3>1. \A p, n : OffHostIn(p, n)' = OffHostIn(p, n)
        BY <2>4, <2>6 DEF OffHostIn, SameCopy
    <3>2. o \in Copies => cmd.passed
        BY <1>5, Names DEF WriteOutcome, CmdInv, Busy
    <3>3. \A p \in Op : /\ journal'[p].pin = journal[p].pin
                        /\ journal'[p].intent = journal[p].intent
        BY <2>1, <2>2, <1>0, <1>5 DEF WriteOutcome, TypeOK
    <3>4. \A p \in Op : /\ journal'[p].outcome # "none" => journal'[p].intent
                        /\ p \in Copies => journal'[p].outcome # "failed"
        BY <2>2, <3>2 DEF JournalInv
    <3>5. QED
        BY <2>4, <2>6, <3>1, <3>3, <3>4 DEF JournalInv
  <2>10. QED
      BY <1>0, <2>5, <2>7, <2>8, <2>9
<1>6. ASSUME NEW o \in Op, AppendReceipt(o) PROVE VaultInv'
  <2> DEFINE e == [by |-> o, passed |-> cmd.passed]
  <2>1. e \in Receipt
      BY <1>0 DEF Receipt, TypeOK
  <2>2. chain' = Append(chain, e) /\ journal' = journal /\ content' = content
      BY <1>6 DEF AppendReceipt
  <2>3. CmdInv'
      BY <1>6, IdleFacts DEF AppendReceipt, CmdInv, Busy
  <2>4. JournalInv'
      BY <1>0, <2>1, <2>2, GrownJournal
  <2>5. /\ journal[o].intent /\ journal[o].pin = Len(chain)
        /\ journal[o].outcome = IF e.passed THEN "passed" ELSE "failed"
        /\ o \in Copies => content[Dest(o)] # "absent"
      BY <1>6, Names DEF AppendReceipt, Extends, CmdInv, Busy
  <2>6. \A i \in At(Op) : chain[i].by \in Op \ {o}
      BY <1>6 DEF AppendReceipt, Receipted, At
  <2>7. FoundedInv'
    <3> DEFINE n == Len(chain) + 1
    <3>1. \A i \in At(Op) : /\ chain'[i] = chain[i] /\ chain[i].by # o
                            /\ i \in At(Op)' /\ i # n
        BY <1>0, <2>1, <2>2, <2>6, GrownAt
    <3>2. \A i \in At(Op)' : i \in At(Op) \/ i = n
        BY <1>0, <2>1, <2>2, GrownAt
    <3>3. chain'[n] = e /\ e.by = o /\ n - 1 = Len(chain)
        BY <1>0, <2>1, <2>2, GrownAt
    <3>4. ASSUME NEW i \in At(Op)
          PROVE  /\ journal[chain'[i].by].intent /\ journal[chain'[i].by].pin = i - 1
                 /\ journal[chain'[i].by].outcome =
                       IF chain'[i].passed THEN "passed" ELSE "failed"
                 /\ \A k \in At(Op)' : chain'[k].by = chain'[i].by => k = i
      <4>1. chain'[i] = chain[i] /\ chain[i].by # o
          BY <3>1
      <4>2. \A k \in At(Op)' : chain'[k].by = chain[i].by => k = i
        <5>1. \A k \in At(Op) : chain[k].by = chain[i].by => k = i
            BY DEF FoundedInv
        <5>2. QED
            BY <3>1, <3>2, <3>3, <4>1, <5>1
      <4>3. /\ journal[chain[i].by].intent /\ journal[chain[i].by].pin = i - 1
            /\ journal[chain[i].by].outcome =
                  IF chain[i].passed THEN "passed" ELSE "failed"
          BY DEF FoundedInv
      <4>4. QED
          BY <4>1, <4>2, <4>3
    <3>5. \A k \in At(Op)' : chain'[k].by = o => k = n
        BY <3>1, <3>2, <3>3
    <3>6. ASSUME NEW i \in At(Op)'
          PROVE  /\ journal[chain'[i].by].intent /\ journal[chain'[i].by].pin = i - 1
                 /\ journal[chain'[i].by].outcome =
                       IF chain'[i].passed THEN "passed" ELSE "failed"
                 /\ \A k \in At(Op)' : chain'[k].by = chain'[i].by => k = i
      <4>1. CASE i \in At(Op)
          BY <3>4, <4>1
      <4>2. CASE i = n
          BY <2>5, <3>3, <3>5, <4>2
      <4>3. QED
          BY <3>2, <4>1, <4>2
    <3>7. QED
        BY <2>2, <3>6 DEF FoundedInv
  <2>8. KeptInv'
    <3>1. \A i \in At(Copies)' :
             (i \in At(Copies) /\ chain'[i] = chain[i]) \/ (chain'[i] = e /\ o \in Copies)
        BY <1>0, <2>1, <2>2, GrownAt
    <3>2. ASSUME NEW i \in At(Copies)' PROVE content[Dest(chain'[i].by)] # "absent"
      <4>1. CASE i \in At(Copies) /\ chain'[i] = chain[i]
          BY <4>1 DEF KeptInv
      <4>2. CASE chain'[i] = e /\ o \in Copies
        <5>1. e.by = o
            OBVIOUS
        <5>2. chain'[i].by = o
            BY ONLY <4>2, <5>1
        <5>3. QED
            BY <2>5, <4>2, <5>2
      <4>3. QED
          BY <3>1, <4>1, <4>2
    <3>3. \A i \in At(Copies)' : content'[Dest(chain'[i].by)] # "absent"
        BY <2>2, <3>2
    <3>4. QED
        BY <3>3 DEF KeptInv, Dest
  <2>9. QED
      BY <1>0, <2>3, <2>4, <2>7, <2>8
<1>7. ASSUME NEW o \in Op, Reconcile(o) PROVE VaultInv'
  <2>1. JournalInv' /\ FoundedInv' /\ KeptInv'
      BY <1>7, SameReceipts DEF Reconcile, KeptInv, At
  <2>2. CmdInv'
      BY <1>7, Names DEF Reconcile, CmdInv, Busy
  <2>3. QED
      BY <1>0, <2>1, <2>2
<1>8. ASSUME NEW o \in Op, Resume(o) PROVE VaultInv'
  <2>1. JournalInv' /\ FoundedInv' /\ KeptInv'
      BY <1>8, SameReceipts DEF Resume, KeptInv, At
  <2>2. /\ journal[o].outcome \in {"passed", "failed"}
        /\ o \in Copies => journal[o].outcome = "passed"
      BY <1>8, <1>0 DEF Resume, JournalInv, TypeOK
  <2>3. CmdInv'
      BY <1>8, <2>2, Names DEF Resume, MayAppend, CmdInv, Busy
  <2>4. QED
      BY <1>0, <2>1, <2>3
<1>9. ASSUME NEW o \in Op, Check(o) PROVE VaultInv'
  <2>1. JournalInv' /\ FoundedInv' /\ KeptInv'
      BY <1>9, SameReceipts DEF Check, KeptInv, At
  <2>2. CASE MayAppend(o, TRUE)
    <3>1. /\ cmd'.op = o /\ cmd'.at = "append" /\ cmd'.passed = cmd.passed
          /\ cmd'.seen = TRUE /\ content' = content /\ journal' = journal
        BY <1>9, <1>0, <2>2 DEF Check, MayAppend, TypeOK
    <3>2. CmdInv'
        BY <1>9, <3>1, Names DEF Check, CmdInv, Busy
    <3>3. QED
        BY <1>0, <2>1, <3>2
  <2>3. CASE ~MayAppend(o, TRUE)
      BY <1>0, <1>9, <2>1, <2>3, IdleFacts DEF Check, CmdInv, Busy
  <2>4. QED
      BY <2>2, <2>3
<1>10. ASSUME NEW c \in Control, AppendControl(c) PROVE VaultInv'
  <2> DEFINE e == [by |-> c, passed |-> TRUE]
  <2>1. e \in Receipt /\ c \notin Op /\ c \notin Copies
      BY Names DEF Receipt
  <2>2. /\ chain' = Append(chain, e) /\ journal' = journal /\ content' = content
        /\ cmd' = cmd
      BY <1>10 DEF AppendControl
  <2>3. CmdInv'
      BY <2>2 DEF CmdInv, Busy
  <2>4. JournalInv'
      BY <1>0, <2>1, <2>2, GrownJournal
  <2>5. \A S : S \subseteq Op => /\ At(S)' = At(S)
                                 /\ \A i \in At(S) : chain'[i] = chain[i]
    <3> SUFFICES ASSUME NEW S, S \subseteq Op
                 PROVE  At(S)' = At(S) /\ \A i \in At(S) : chain'[i] = chain[i]
        OBVIOUS
    <3>1. c \notin S /\ e.by = c
        BY <2>1
    <3>2. QED
        BY <1>0, <2>1, <2>2, <3>1, GrownAt
  <2>6. FoundedInv'
    <3>1. At(Op)' = At(Op) /\ \A i \in At(Op) : chain'[i] = chain[i]
        BY <2>5
    <3>2. ASSUME NEW i \in At(Op)
          PROVE  /\ journal[chain'[i].by].intent /\ journal[chain'[i].by].pin = i - 1
                 /\ journal[chain'[i].by].outcome =
                       IF chain'[i].passed THEN "passed" ELSE "failed"
                 /\ \A k \in At(Op) : chain'[k].by = chain'[i].by => k = i
        BY <3>1 DEF FoundedInv
    <3>3. journal' = journal
        BY <2>2
    <3>4. QED
        BY <3>1, <3>2, <3>3 DEF FoundedInv
  <2>7. KeptInv'
      BY <2>2, <2>5, Names DEF KeptInv
  <2>8. QED
      BY <1>0, <2>3, <2>4, <2>6, <2>7
<1>11. CASE Publish
  <2>1. UNCHANGED <<chain, journal, content>>
      BY <1>11 DEF Publish, SealCandidate, Judge, Commit, Confirm, Rollback
  <2>2. JournalInv' /\ FoundedInv' /\ KeptInv'
      BY <2>1, SameReceipts DEF KeptInv, At
  <2>3. \/ cmd' = cmd
        \/ cmd'.op = None /\ ~cmd'.seen /\ cmd'.at \in {"idle", "judged", "committed"}
      BY <1>11, <1>0, IdleFacts
         DEF Publish, SealCandidate, Judge, Commit, Confirm, Rollback, CmdInv, Busy,
             Idle, TypeOK
  <2>4. CmdInv'
      BY <2>1, <2>3 DEF CmdInv, Busy
  <2>5. QED
      BY <1>0, <2>2, <2>4
<1>12. CASE Stop \/ TearReceipt
  <2>1. UNCHANGED <<chain, journal, content>> /\ cmd' = Idle
      BY <1>12 DEF Stop, TearReceipt
  <2>2. JournalInv' /\ FoundedInv' /\ KeptInv'
      BY <2>1, SameReceipts DEF KeptInv, At
  <2>3. CmdInv'
      BY <2>1, IdleFacts DEF CmdInv, Busy
  <2>4. QED
      BY <1>0, <2>2, <2>3
<1>13. ASSUME NEW d \in Dir, Alter(d) \/ CleanUp(d) PROVE VaultInv'
  <2>1. UNCHANGED <<chain, journal, cmd>>
      BY <1>13 DEF Alter, CleanUp
  <2>2. JournalInv' /\ FoundedInv'
      BY <2>1, SameReceipts
  <2>3. KeptInv'
    <3>1. \A x \in Dir : content'[x] = "absent" =>
             \/ content[x] = "absent"
             \/ ~\E i \in At(Copies) : Dest(chain[i].by) = x
        BY <1>13, <1>0 DEF Alter, CleanUp, TypeOK
    <3>2. QED
        BY <1>0, <2>1, <3>1, SameKept
  <2>4. CmdInv'
    <3>1. CASE ~Busy
        BY <2>1, <3>1 DEF CmdInv, Busy
    <3>2. CASE Busy
      <4>1. Alter(d)
          BY <1>13, <3>2, IdleFacts DEF CleanUp, Busy
      <4>2. \A x \in Dir : content[x] # "absent" => content'[x] # "absent"
          BY <1>0, <4>1 DEF Alter, TypeOK
      <4>3. Dest(cmd.op) \in Dir
          BY <1>0, <3>2, Names DEF Busy, TypeOK
      <4>4. QED
          BY <2>1, <3>2, <4>2, <4>3 DEF CmdInv, Busy
    <3>3. QED
        BY <3>1, <3>2
  <2>5. QED
      BY <1>0, <2>2, <2>3, <2>4
<1>14. CASE UNCHANGED vars
  BY <1>0, <1>14, SameReceipts DEF vars, CmdInv, Busy, KeptInv, At
<1>15. QED
  BY <1>1, <1>2, <1>3, <1>4, <1>5, <1>6, <1>7, <1>8, <1>9, <1>10, <1>11, <1>12,
     <1>13, <1>14 DEF Next, Operate

LEMMA VaultInvHolds == Spec => []VaultInv
<1>1. QED
  BY VaultInit, VaultStep, PTL DEF Spec

------------------------------------------------------------------------------
(* What the invariant is for *)

LEMMA FoundedFollows == VaultInv => ReceiptsAreFounded
<1> SUFFICES ASSUME VaultInv, NEW i \in At(Op)
             PROVE  LET o == chain[i].by  j == journal[o]
                    IN  /\ j.intent /\ j.pin = i - 1
                        /\ j.outcome = IF chain[i].passed THEN "passed" ELSE "failed"
                        /\ \A k \in At({o}) : k = i
                        /\ o \in Retrievals =>
                              \E k \in At(SameCopy(Pair(o))) :
                                  /\ k < i /\ chain[k].passed /\ Asked[chain[k].by].off
                                  /\ \A l \in At(SameCopy(Pair(o))) : l < i => l <= k
  BY DEF ReceiptsAreFounded
<1> DEFINE o == chain[i].by
<1>1. /\ o \in Op /\ journal[o].intent /\ journal[o].pin = i - 1
      /\ journal[o].outcome = IF chain[i].passed THEN "passed" ELSE "failed"
  BY DEF VaultInv, FoundedInv, At
<1>2. \A k \in At({o}) : k = i
  BY <1>1 DEF VaultInv, FoundedInv, At
<1>3. ASSUME o \in Retrievals
      PROVE  \E k \in At(SameCopy(Pair(o))) :
                /\ k < i /\ chain[k].passed /\ Asked[chain[k].by].off
                /\ \A l \in At(SameCopy(Pair(o))) : l < i => l <= k
  <2>1. OffHostIn(Pair(o), i - 1)
      BY <1>1, <1>3 DEF VaultInv, JournalInv
  <2>2. \A S : At(S) \subseteq Nat /\ i \in Nat
      BY Positions DEF VaultInv, At
  <2>3. QED
      BY <2>1, <2>2 DEF OffHostIn
<1>4. QED
  BY <1>1, <1>2, <1>3

LEMMA OneFollows == VaultInv => OneAttestationPerDirectory
<1> SUFFICES ASSUME VaultInv, NEW i \in At(Copies), NEW j \in At(Copies),
                    Dest(chain[i].by) = Dest(chain[j].by), i # j
             PROVE  FALSE
  BY DEF OneAttestationPerDirectory
<1>1. i \in Nat /\ j \in Nat /\ i \in At(Op) /\ j \in At(Op)
  BY Positions, Names DEF VaultInv, At
<1>2. \A a, b \in At(Copies) : a < b => Dest(chain[a].by) # Dest(chain[b].by)
  <2> SUFFICES ASSUME NEW a \in At(Copies), NEW b \in At(Copies), a < b
               PROVE  Dest(chain[a].by) # Dest(chain[b].by)
      OBVIOUS
  <2>1. a \in Nat /\ b \in Nat /\ b \in At(Op) /\ chain[b].by \in Op
      BY Positions, Names DEF VaultInv, At
  <2>2. journal[chain[b].by].intent /\ journal[chain[b].by].pin = b - 1
      BY <2>1 DEF VaultInv, FoundedInv
  <2>3. a <= journal[chain[b].by].pin
      BY <2>1, <2>2
  <2>4. QED
      BY <2>1, <2>2, <2>3 DEF VaultInv, JournalInv
<1>3. i < j \/ j < i
  BY <1>1
<1>4. QED
  BY <1>2, <1>3

\* ReceiptsAreFounded: whatever commands were killed and resumed, every receipt stands
\* right behind the chain its intent pinned, with the outcome that was recorded.
THEOREM Founded == Spec => []ReceiptsAreFounded
<1>1. QED
  BY VaultInvHolds, FoundedFollows, PTL

\* OneAttestationPerDirectory: two copies the eligibility counts are two directories.
THEOREM OnePerDirectory == Spec => []OneAttestationPerDirectory
<1>1. QED
  BY VaultInvHolds, OneFollows, PTL

------------------------------------------------------------------------------
(* Publication *)

PublicInv == public # 0 => Backed

LEMMA CommitBacks == VaultInv /\ Commit => PublicInv'
<1> SUFFICES ASSUME VaultInv, Commit PROVE PublicInv'
  OBVIOUS
<1>0. /\ public' = Len(chain) /\ chain' = chain
      /\ TwoDistinctCopies /\ AttestationBound /\ ~Suspended
  BY DEF Commit, Eligible, BindsCandidate
<1> DEFINE n == Len(chain)
<1>1. DOMAIN chain = 1 .. n /\ n \in Nat
  BY Positions DEF VaultInv
<1>2. \E i, j \in 1 .. n :
          /\ chain[i].by \in Copies /\ chain[j].by \in Copies
          /\ chain[i].passed /\ chain[j].passed
          /\ Dest(chain[i].by) # Dest(chain[j].by)
          /\ Asked[chain[i].by].domain # Asked[chain[j].by].domain
  <2>1. PICK i \in PassingCopies, j \in PassingCopies :
               Asked[chain[i].by].domain # Asked[chain[j].by].domain
      BY <1>0 DEF TwoDistinctCopies
  <2>2. /\ i \in 1 .. n /\ j \in 1 .. n /\ i \in At(Copies) /\ j \in At(Copies)
        /\ chain[i].passed /\ chain[j].passed
      BY <1>1, <2>1 DEF PassingCopies, At
  <2>3. Dest(chain[i].by) # Dest(chain[j].by)
      BY <2>1, <2>2, OneFollows DEF OneAttestationPerDirectory
  <2>4. QED
      BY <2>1, <2>2, <2>3 DEF At
<1>3. \E i \in 1 .. n :
          /\ chain[i].by \in Retrievals /\ chain[i].passed
          /\ \A k \in i + 1 .. n :
                chain[k].by \notin SameRetrieval(Pair(chain[i].by))
  <2>1. PICK i \in At(Retrievals) : CurrentRetrieval(i)
      BY <1>0 DEF AttestationBound
  <2>2. i \in 1 .. n /\ chain[i].by \in Retrievals /\ chain[i].passed
      BY <1>1, <2>1 DEF CurrentRetrieval, At
  <2>3. \A k \in i + 1 .. n : k \in 1 .. n /\ ~(k <= i)
      BY <1>1, <2>2
  <2>4. \A k \in i + 1 .. n : chain[k].by \notin SameRetrieval(Pair(chain[i].by))
      BY <1>1, <2>1, <2>3 DEF CurrentRetrieval, LastOf, At
  <2>5. QED
      BY <2>2, <2>4
<1>4. \A i \in 1 .. n : chain[i].by # "suspension"
  BY <1>0, <1>1 DEF Suspended, At
<1>5. QED
  BY <1>0, <1>1, <1>2, <1>3, <1>4 DEF PublicInv, Backed, SameRetrieval

\* Receipts behind what is public change nothing about it.
LEMMA BackedStays ==
    ASSUME TypeOK, PublicInv, NEW e \in Receipt, chain' = Append(chain, e),
           public' = public
    PROVE  PublicInv'
<1> SUFFICES ASSUME public # 0, Backed PROVE Backed'
  BY DEF PublicInv
<1>1. public \in Nat /\ public <= Len(chain) /\ Len(chain) \in Nat
  BY Positions DEF Backed, TypeOK
<1>2. \A i \in 1 .. public : chain'[i] = chain[i]
  BY <1>1, Positions, Appended
<1>3. public' <= Len(chain')
  BY <1>1, Positions, Appended
<1>4. \E i, j \in 1 .. public :
          /\ chain'[i].by \in Copies /\ chain'[j].by \in Copies
          /\ chain'[i].passed /\ chain'[j].passed
          /\ Dest(chain'[i].by) # Dest(chain'[j].by)
          /\ Asked[chain'[i].by].domain # Asked[chain'[j].by].domain
  <2>1. PICK i, j \in 1 .. public :
          /\ chain[i].by \in Copies /\ chain[j].by \in Copies
          /\ chain[i].passed /\ chain[j].passed
          /\ Dest(chain[i].by) # Dest(chain[j].by)
          /\ Asked[chain[i].by].domain # Asked[chain[j].by].domain
      BY DEF Backed
  <2>2. chain'[i] = chain[i] /\ chain'[j] = chain[j]
      BY <1>2
  <2>3. QED
      BY <2>1, <2>2
<1>5. \E i \in 1 .. public :
          /\ chain'[i].by \in Retrievals /\ chain'[i].passed
          /\ \A k \in i + 1 .. public :
                chain'[k].by \notin SameRetrieval(Pair(chain'[i].by))
  <2>1. PICK i \in 1 .. public :
          /\ chain[i].by \in Retrievals /\ chain[i].passed
          /\ \A k \in i + 1 .. public :
                chain[k].by \notin SameRetrieval(Pair(chain[i].by))
      BY DEF Backed
  <2>2. \A k \in i + 1 .. public : k \in 1 .. public
      BY <1>1, <2>1
  <2>3. QED
      BY <1>2, <2>1, <2>2
<1>6. \A i \in 1 .. public : chain'[i].by # "suspension"
  BY <1>2 DEF Backed
<1>7. QED
  BY <1>3, <1>4, <1>5, <1>6 DEF Backed, SameRetrieval

LEMMA PublicStep == VaultInv /\ PublicInv /\ [Next]_vars => PublicInv'
<1> SUFFICES ASSUME VaultInv, PublicInv, [Next]_vars PROVE PublicInv'
  OBVIOUS
<1>1. CASE Commit
  BY <1>1, CommitBacks
<1>2. CASE Rollback
  BY <1>2 DEF Rollback, PublicInv
<1>3. ASSUME NEW o \in Op, AppendReceipt(o) PROVE PublicInv'
  <2>1. [by |-> o, passed |-> cmd.passed] \in Receipt
      BY DEF VaultInv, TypeOK, Receipt
  <2>2. QED
      BY <1>3, <2>1, BackedStays DEF AppendReceipt, VaultInv
<1>4. ASSUME NEW c \in Control, AppendControl(c) PROVE PublicInv'
  <2>1. [by |-> c, passed |-> TRUE] \in Receipt
      BY DEF Receipt
  <2>2. QED
      BY <1>4, <2>1, BackedStays DEF AppendControl, VaultInv
<1>5. CASE UNCHANGED <<chain, public>>
  BY <1>5 DEF PublicInv, Backed, SameRetrieval
<1>6. \/ Commit \/ Rollback \/ UNCHANGED <<chain, public>>
      \/ \E o \in Op : AppendReceipt(o)
      \/ \E c \in Control : AppendControl(c)
  BY DEF Next, Operate, Begin, CreateDestination, Fill, RetrievalFails, WriteOutcome,
         Reconcile, Resume, Check, Publish, SealCandidate, Judge, Confirm, Stop,
         TearReceipt, Alter, CleanUp, vars
<1>7. QED
  BY <1>1, <1>2, <1>3, <1>4, <1>5, <1>6

\* PublicIsRedundant: what publish-candidate made public was backed by two directories
\* in different failure domains and a retrieval that still stands.
THEOREM Redundant == Spec => []PublicIsRedundant
<1>1. Init => PublicInv
  BY DEF Init, PublicInv
<1>2. PublicInv => PublicIsRedundant
  BY DEF PublicInv, Backed, PublicIsRedundant
<1>3. QED
  BY <1>1, <1>2, PublicStep, VaultInvHolds, PTL DEF Spec

------------------------------------------------------------------------------
(* The receipts are the custody log *)

LEMMA CustodyInit == Init => Custody!Init
  BY IdleFacts DEF Init, Custody!Init

LEMMA CustodyStep == VaultInv /\ [Next]_vars => [Custody!Next]_(Custody!vars)
<1> SUFFICES ASSUME VaultInv, [Next]_vars PROVE [Custody!Next]_(Custody!vars)
  OBVIOUS
<1> DEFINE seen == IF cmd.seen THEN cmd.op ELSE None
<1>1. /\ CmdInv /\ cmd.op \in Op \cup {None} /\ None \notin Op
      /\ cmd.seen => cmd.op \in Op
  BY Names DEF VaultInv, TypeOK, CmdInv, Busy
<1>2. ASSUME UNCHANGED <<chain, seen>> PROVE [Custody!Next]_(Custody!vars)
  BY <1>2 DEF Custody!vars
<1>3. ASSUME NEW o \in Op, chain' = chain, seen = None, seen' = o
      PROVE  Custody!Next
  BY <1>3 DEF Custody!Next, Custody!See
<1>4. ASSUME chain' = chain, seen # None, seen' = None PROVE Custody!Next
  BY <1>4 DEF Custody!Next, Custody!Release
<1>5. ASSUME NEW o \in Op, AppendReceipt(o) PROVE Custody!Next
  <2>1. ~Custody!Logged(o)
      BY <1>5 DEF AppendReceipt, Receipted, Custody!Logged
  <2>2. cmd.passed => seen = o
      BY <1>1, <1>5 DEF AppendReceipt, CmdInv, Busy
  <2>3. seen' = None /\ cmd.passed \in BOOLEAN
      BY <1>5, IdleFacts DEF AppendReceipt, VaultInv, TypeOK
  <2>4. Custody!Enter(o, cmd.passed)
      BY <1>5, <2>1, <2>2, <2>3 DEF AppendReceipt, Custody!Enter
  <2>5. QED
      BY <2>3, <2>4 DEF Custody!Next
<1>6. ASSUME NEW c \in Control, AppendControl(c) PROVE Custody!Next
  <2>1. Custody!Note(c)
      BY <1>6, IdleFacts DEF AppendControl, Custody!Note
  <2>2. QED
      BY <2>1 DEF Custody!Next
<1>7. ASSUME NEW o \in Op, Fill(o) PROVE Custody!Next
  <2>1. seen = None /\ seen' = o /\ chain' = chain
      BY <1>1, <1>7 DEF Fill, CmdInv, Busy, VaultInv, TypeOK
  <2>2. QED
      BY <1>3, <2>1
<1>8. ASSUME NEW o \in Op, Reconcile(o) \/ Resume(o)
      PROVE  [Custody!Next]_(Custody!vars)
  <2>1. seen = None /\ (seen' = o \/ seen' = None) /\ chain' = chain
      BY <1>8, IdleFacts DEF Reconcile, Resume
  <2>2. QED
      BY <1>2, <1>3, <2>1
<1>9. ASSUME NEW o \in Op, Check(o) PROVE [Custody!Next]_(Custody!vars)
  <2>1. seen = o /\ (seen' = o \/ seen' = None) /\ chain' = chain
      BY <1>1, <1>9, IdleFacts
         DEF Check, MayAppend, CmdInv, Busy, VaultInv, TypeOK
  <2>2. QED
      BY <1>1, <1>2, <1>4, <2>1
<1>10. CASE Stop \/ TearReceipt
  <2>1. seen' = None /\ chain' = chain
      BY <1>10, IdleFacts DEF Stop, TearReceipt
  <2>2. QED
      BY <1>2, <1>4, <2>1
<1>11. ASSUME NEW o \in Op,
              Begin(o) \/ CreateDestination(o) \/ RetrievalFails(o) \/ WriteOutcome(o)
       PROVE  [Custody!Next]_(Custody!vars)
  <2>1. seen' = seen /\ chain' = chain
      BY <1>1, <1>11, IdleFacts
         DEF Begin, CreateDestination, RetrievalFails, WriteOutcome, VaultInv, TypeOK
  <2>2. QED
      BY <1>2, <2>1
<1>12. CASE Publish
  <2>1. chain' = chain /\ seen = None /\ seen' = None
      BY <1>1, <1>12, IdleFacts
         DEF Publish, SealCandidate, Judge, Commit, Confirm, Rollback, CmdInv, Busy,
             Idle, VaultInv, TypeOK
  <2>2. QED
      BY <1>2, <2>1
<1>13. ASSUME NEW d \in Dir, Alter(d) \/ CleanUp(d)
       PROVE  [Custody!Next]_(Custody!vars)
  BY <1>2, <1>13 DEF Alter, CleanUp
<1>14. CASE UNCHANGED vars
  BY <1>2, <1>14 DEF vars
<1>15. QED
  BY <1>5, <1>6, <1>7, <1>8, <1>9, <1>10, <1>11, <1>12, <1>13, <1>14
     DEF Next, Operate

\* ImplementsCustody: the receipt chain is the log of CustodyLog, so that a pass was
\* written only by somebody who had compared the bytes under the same lock.
THEOREM CustodyImplemented == Spec => ImplementsCustody
<1>1. QED
  BY VaultInvHolds, CustodyInit, CustodyStep, PTL
     DEF Spec, ImplementsCustody, Custody!Spec
=============================================================================

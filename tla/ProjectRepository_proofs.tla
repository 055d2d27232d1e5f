----------------------- MODULE ProjectRepository_proofs ------------------------
(****************************************************************************)
(* For any projects, any number of revisions and any damage, wherever       *)
(* methods are interrupted: a rejected revision stays out of history, a     *)
(* read that completes settles the files and the pointer, and a revision    *)
(* whose save returned is shown until it or a revision before it is         *)
(* damaged; every write of a recovery, and every later write of a save,     *)
(* keeps what a read would show.  As long as no revision and no manifest    *)
(* loses its content, the selection never goes back; as long as only        *)
(* receipts and the pointer are damaged, what a read would show is the      *)
(* history of RevisionHistory.                                              *)
(*                                                                          *)
(* None of these is inductive.  RInv says what each file may hold, in       *)
(* particular what a receipt that was left behind has to do with the index  *)
(* (ReceiptOf), and how far the method that holds the lock got (Stage,      *)
(* Saving).  The step lemmas go file by file: what a step makes of the      *)
(* index, of a receipt, of a revision file; and the parts of RInv follow    *)
(* from these.  A recovery adopts orphans by a function that is defined     *)
(* recursively: what it returns (AdoptedIs) is shown by induction on its    *)
(* argument, by way of the least natural number that fails.                 *)
(*                                                                          *)
(* Outcome is a function of what a read starts from (Base) and the orphans  *)
(* it considers (Rest), so a step keeps it if it keeps these two.  For the  *)
(* refinement HInv says that at most the revision of the last save is       *)
(* outside its index (Strays): then a read shows the index and, unless it   *)
(* is barred, this revision.                                                *)
(****************************************************************************)
EXTENDS ProjectRepository, WellFoundedInduction, FiniteSetTheorems, TLAPS

------------------------------------------------------------------------------
(* The inductive invariant *)

\* The revisions s, in this order, are a history of p among the first m revisions,
\* whose project, parent and ordinal b tells.
Chain(b, m, p, s) ==
    \A i \in 1..Len(s) :
        /\ s[i] \in 1..m
        /\ b[s[i]].project = p /\ b[s[i]].ordinal = i
        /\ b[s[i]].parent = 0 \/ \E j \in 1..(i - 1) : s[j] = b[s[i]].parent

\* What is not made yet is nowhere.
MadeOf(r) ==
    /\ r \notin 1..made => body[r] = NoBody /\ file[r] = "none"
    /\ r \in 1..made => body[r].project \in Project

\* A project that was never created has nothing.
ProjectOf(p) ==
    /\ Chain(body, made, p, index[p])
    /\ rejected[p] \subseteq 1..made
    /\ health[p] = "none" => /\ index[p] = <<>> /\ rejected[p] = {}
                             /\ receipt[p].state = "none"
                             /\ \A r \in 1..made : body[r].project # p

\* A receipt that is left names the revision that follows the ones it counted; the
\* index holds these, or fewer, or these and the revision.  A revision is rejected in
\* spite of a readable receipt only when some of these are lost.
ReceiptOf(p) ==
    receipt[p].state # "none" =>
        /\ receipt[p].rev \in 1..made
        /\ body[receipt[p].rev].project = p
        /\ body[receipt[p].rev].ordinal = receipt[p].count + 1
        /\ Len(index[p]) <= receipt[p].count + 1
        /\ Len(index[p]) = receipt[p].count + 1
              => index[p][receipt[p].count + 1] = receipt[p].rev
        /\ Len(index[p]) >= receipt[p].count
              => /\ receipt[p].count = 0 => receipt[p].latest = 0
                 /\ receipt[p].count # 0 => receipt[p].latest = index[p][receipt[p].count]
                 /\ body[receipt[p].rev].parent = 0 => receipt[p].count = 0
                 /\ body[receipt[p].rev].parent # 0
                      => \E j \in 1..receipt[p].count :
                           index[p][j] = body[receipt[p].rev].parent
        /\ receipt[p].state = "ok" /\ receipt[p].rev \in rejected[p]
              => Len(index[p]) < receipt[p].count

PointerOf ==
    pointer.state = "ok" =>
        /\ pointer.project \in Project
        /\ pointer.rev \in 1..made /\ pointer.rev <= pointer.at /\ pointer.at <= made
        /\ body[pointer.rev].project = pointer.project
        /\ health[pointer.project] # "none"

Writing   == {"receipt", "revision", "index", "select", "commit"}
Settling  == {"repair", "read"}
Recovered == {"orphans"} \cup Settling
Past      == {"pending"} \cup Recovered \cup Writing
Working   == {"manifest", "indexed"} \cup Past

\* How far the method got with the project it reads or writes.
Stage ==
    /\ op.phase \in Working => op.cur \in Project
    /\ op.phase \in Working \ {"manifest"} => health[op.cur] = "ok"
    /\ op.phase \in Past => \A i \in 1..Len(index[op.cur]) : file[index[op.cur][i]] = "good"
    /\ op.phase \in Recovered \cup {"receipt"} => receipt[op.cur].state = "none"
    /\ op.phase \in Settling => Unindexed(op.cur) = {}

\* The revision that a save writes is the newest, nobody knows it but its receipt, and
\* it comes to the end of the index.
Saving ==
    /\ op.kind = "save" /\ op.phase \notin Writing => made < MaxRevision
    /\ op.phase \in Writing => op.rev \in 1..made /\ op.rev = made /\ op.rev \notin rejected[op.cur]
    /\ op.phase \in Writing \ {"receipt"}
          => receipt[op.cur].state = "ok" /\ receipt[op.cur].rev = op.rev
    /\ op.phase \in {"receipt", "revision", "index"}
          => /\ body[op.rev].project = op.cur
             /\ body[op.rev].ordinal = Len(index[op.cur]) + 1
             /\ body[op.rev].parent = 0 => index[op.cur] = <<>>
             /\ body[op.rev].parent # 0
                  => \E j \in 1..Len(index[op.cur]) : index[op.cur][j] = body[op.rev].parent
    /\ op.phase \in {"receipt", "revision"} => file[op.rev] = "none"
    /\ op.phase = "index" => file[op.rev] = "good"
    /\ op.phase \in {"select", "commit"}
          => Len(index[op.cur]) = body[op.rev].ordinal /\ index[op.cur][Len(index[op.cur])] = op.rev

\* r or a revision before it was damaged.
Hit(r) == \E d \in hit : body[d].project = body[r].project /\ body[d].ordinal <= body[r].ordinal

\* r is in the index at its ordinal, and whole up to there.
Kept(p, r) ==
    /\ health[p] = "ok"
    /\ body[r].ordinal \in 1..Len(index[p]) /\ index[p][body[r].ordinal] = r
    /\ \A j \in 1..body[r].ordinal : file[index[p][j]] = "good"

AckedOf(r) == r \in 1..made /\ (Hit(r) \/ Kept(body[r].project, r))

RInv ==
    /\ TypeOK
    /\ \A r \in Revision : MadeOf(r)
    /\ \A p \in Project : ProjectOf(p)
    /\ \A p \in Project : ReceiptOf(p)
    /\ RejectedStaysOut
    /\ PointerOf
    /\ Stage
    /\ Saving
    /\ PointerFollows
    /\ hit \subseteq 1..made
    /\ \A r \in acked : AckedOf(r)

\* No revision file is damaged and no manifest replaced.
NoRollback == Damages \cap {"revision", "restore"} = {}

UpdatedOf(p) ==
    /\ updated[p] = 2 * Latest(p)
    /\ \A i \in 1..Len(index[p]) : file[index[p][i]] = "good"

Selecting ==
    /\ op.kind = "current" /\ op.phase # "fall"
          => /\ pointer.state = "ok" /\ op.left \subseteq {pointer.project}
             /\ op.phase # "next" => op.cur = pointer.project
    /\ op.kind = "fallback" /\ pointer.state = "ok"
          => /\ health[pointer.project] = "ok" /\ index[pointer.project] # <<>>
             /\ \/ pointer.rev = Latest(pointer.project)
                \/ op.phase # "next" /\ op.cur = pointer.project
    /\ op.phase \in Writing => op.kind = "save"

SInv == (\A p \in Project : UpdatedOf(p)) /\ Selecting

------------------------------------------------------------------------------
(* Induction *)

\* Every set of natural numbers has a least member.
LEMMA Least ==
  ASSUME NEW T \in SUBSET Nat, T # {}
  PROVE  \E n \in T : \A m \in T : n <= m
<1> DEFINE R == {ss \in Nat \X Nat : ss[1] < ss[2]}
<1>1. IsWellFoundedOn(R, Nat)
  BY NatLessThanWellFounded DEF OpToRel
<1>2. PICK n \in T : \A m \in T : ~ (<<m, n>> \in R)
  <2> HIDE DEF R
  <2> QED BY <1>1, WFMin
<1>3. ASSUME NEW m \in T PROVE n <= m
  <2>1. <<m, n>> \in Nat \X Nat /\ <<m, n>>[1] = m /\ <<m, n>>[2] = n
    OBVIOUS
  <2>2. ~ (m < n)
    BY <1>2, <2>1
  <2>3. QED
    BY <2>2
<1>4. QED
  BY <1>3

\* A set of natural numbers with 0, and with the next of each of its members, has all.
LEMMA SetInduction ==
  ASSUME NEW T \in SUBSET Nat, 0 \in T, \A n \in T : n + 1 \in T
  PROVE  T = Nat
<1>1. SUFFICES ASSUME Nat \ T # {} PROVE FALSE
  OBVIOUS
<1>2. PICK n \in Nat \ T : \A m \in Nat \ T : n <= m
  BY <1>1, Least
<1>3. n # 0 /\ n - 1 \in Nat
  BY <1>2
<1>4. n - 1 \in T
  BY <1>2, <1>3
<1>5. QED
  BY <1>2, <1>3, <1>4

\* A set of numbers up to n that is not empty has a greatest one, and Max is it.
LEMMA MaxIs ==
  ASSUME NEW n \in Nat, NEW S \in SUBSET (0..n), S # {}
  PROVE  Max(S) \in S /\ \A m \in S : m <= Max(S)
<1> DEFINE T == {k \in Nat : \A m \in S : m <= k}
<1>1. n \in T
  OBVIOUS
<1>2. PICK k \in T : \A l \in T : k <= l
  BY <1>1, Least, T \in SUBSET Nat
<1>3. k \in S
  <2>1. SUFFICES ASSUME k \notin S PROVE FALSE
    OBVIOUS
  <2>2. \A m \in S : m <= k - 1
    BY <1>2, <2>1
  <2>3. PICK m \in S : TRUE
    OBVIOUS
  <2>4. m \in Nat /\ m <= k - 1
    BY <2>2, <2>3
  <2>5. k - 1 \in T
    BY <2>2, <2>4
  <2>6. QED
    BY <1>2, <2>5
<1>4. \A m \in S : m <= k
  BY <1>2
<1>5. QED
  BY <1>3, <1>4 DEF Max

------------------------------------------------------------------------------
(* Histories *)

\* What ToSet tells of a sequence of revisions.
LEMMA Members ==
  ASSUME NEW s \in Seq(Revision)
  PROVE  /\ Len(s) \in Nat
         /\ \A i \in 1..Len(s) : s[i] \in Revision
         /\ \A r : r \in ToSet(s) <=> \E i \in 1..Len(s) : s[i] = r
BY DEF ToSet

\* What is in the index of a project.
LEMMA IndexedIs ==
  ASSUME TypeOK, NEW p \in Project
  PROVE  /\ index[p] \in Seq(Revision) /\ Len(index[p]) \in Nat
         /\ \A i \in 1..Len(index[p]) : index[p][i] \in Revision
         /\ \A r : r \in Indexed(p) <=> \E i \in 1..Len(index[p]) : index[p][i] = r
         /\ Len(index[p]) = 0 <=> index[p] = <<>>
         /\ Latest(p) = IF Len(index[p]) = 0 THEN 0 ELSE index[p][Len(index[p])]
<1>1. index[p] \in Seq(Revision)
  BY DEF TypeOK
<1>2. QED
  BY <1>1, Members DEF Indexed, Latest, Last

\* A history stays one when revisions are made.
LEMMA ChainKept ==
  ASSUME NEW b, NEW m \in Nat, NEW p, NEW s \in Seq(Revision), Chain(b, m, p, s),
         NEW c, NEW n \in Nat, m <= n, \A r \in 1..m : c[r] = b[r]
  PROVE  Chain(c, n, p, s)
BY DEF Chain

\* The first revisions of a history are a history.
LEMMA ChainPrefix ==
  ASSUME NEW b, NEW m \in Nat, NEW p, NEW s \in Seq(Revision), Chain(b, m, p, s),
         NEW n \in 0..Len(s)
  PROVE  /\ SubSeq(s, 1, n) \in Seq(Revision) /\ Len(SubSeq(s, 1, n)) = n
         /\ \A i \in 1..n : SubSeq(s, 1, n)[i] = s[i]
         /\ Chain(b, m, p, SubSeq(s, 1, n))
<1>1. /\ SubSeq(s, 1, n) \in Seq(Revision) /\ Len(SubSeq(s, 1, n)) = n
      /\ \A i \in 1..n : SubSeq(s, 1, n)[i] = s[i]
  OBVIOUS
<1>2. ASSUME NEW i \in 1..n
      PROVE  /\ s[i] \in 1..m /\ b[s[i]].project = p /\ b[s[i]].ordinal = i
             /\ b[s[i]].parent = 0 \/ \E j \in 1..(i - 1) : SubSeq(s, 1, n)[j] = b[s[i]].parent
  BY <1>1 DEF Chain
<1>3. QED
  BY <1>1, <1>2 DEF Chain

\* A history can be extended by a revision that follows it.
LEMMA ChainAppend ==
  ASSUME NEW b, NEW m \in Nat, m <= MaxRevision, NEW p, NEW s \in Seq(Revision),
         Chain(b, m, p, s), NEW r \in 1..m,
         b[r].project = p, b[r].ordinal = Len(s) + 1,
         b[r].parent = 0 \/ \E j \in 1..Len(s) : s[j] = b[r].parent
  PROVE  /\ Append(s, r) \in Seq(Revision) /\ Len(Append(s, r)) = Len(s) + 1
         /\ \A i \in 1..Len(s) : Append(s, r)[i] = s[i]
         /\ Append(s, r)[Len(s) + 1] = r
         /\ Chain(b, m, p, Append(s, r))
<1>1. /\ Append(s, r) \in Seq(Revision) /\ Len(Append(s, r)) = Len(s) + 1
      /\ \A i \in 1..Len(s) : Append(s, r)[i] = s[i]
      /\ Append(s, r)[Len(s) + 1] = r
  BY RepositoryAssumption DEF Revision
<1> DEFINE t == Append(s, r)
<1>2. ASSUME NEW i \in 1..Len(s)
      PROVE  /\ t[i] \in 1..m /\ b[t[i]].project = p /\ b[t[i]].ordinal = i
             /\ b[t[i]].parent = 0 \/ \E j \in 1..(i - 1) : t[j] = b[t[i]].parent
  <2>1. t[i] = s[i] /\ \A j \in 1..(i - 1) : t[j] = s[j]
    BY <1>1
  <2>2. /\ s[i] \in 1..m /\ b[s[i]].project = p /\ b[s[i]].ordinal = i
        /\ b[s[i]].parent = 0 \/ \E j \in 1..(i - 1) : s[j] = b[s[i]].parent
    BY DEF Chain
  <2> HIDE DEF t
  <2>3. QED
    BY <2>1, <2>2
<1>3. /\ t[Len(s) + 1] \in 1..m /\ b[t[Len(s) + 1]].project = p
      /\ b[t[Len(s) + 1]].ordinal = Len(s) + 1
      /\ \/ b[t[Len(s) + 1]].parent = 0
         \/ \E j \in 1..Len(s) : t[j] = b[t[Len(s) + 1]].parent
  BY <1>1
<1>4. Chain(b, m, p, t)
  <2> HIDE DEF t
  <2>1. ASSUME NEW i \in 1..(Len(s) + 1)
        PROVE  /\ t[i] \in 1..m /\ b[t[i]].project = p /\ b[t[i]].ordinal = i
               /\ b[t[i]].parent = 0 \/ \E j \in 1..(i - 1) : t[j] = b[t[i]].parent
    <3>1. CASE i \in 1..Len(s)
      BY <1>2, <3>1
    <3>2. CASE i = Len(s) + 1
      BY <1>3, <3>2
    <3>3. QED
      BY <3>1, <3>2
  <2>2. Len(t) = Len(s) + 1
    BY <1>1 DEF t
  <2>3. QED
    BY <2>1, <2>2 DEF Chain
<1>5. QED
  BY <1>1, <1>4

\* A history has no revision twice, so it is no longer than what was made.
LEMMA ChainShort ==
  ASSUME NEW b, NEW m \in Nat, NEW p, NEW s \in Seq(Revision), Chain(b, m, p, s)
  PROVE  Len(s) <= m
<1>1. SUFFICES ASSUME m < Len(s) PROVE FALSE
  OBVIOUS
<1> DEFINE f == [i \in 1..Len(s) |-> s[i]]
<1>2. f \in [1..Len(s) -> 1..m]
  BY DEF Chain
<1>3. /\ Cardinality(1..m) = m /\ Cardinality(1..Len(s)) = Len(s)
      /\ IsFiniteSet(1..m) /\ IsFiniteSet(1..Len(s))
  <2>1. Len(s) \in Nat
    OBVIOUS
  <2>2. ASSUME NEW n \in Nat PROVE IsFiniteSet(1..n) /\ Cardinality(1..n) = n
    <3>1. IsFiniteSet(1..n) /\ Cardinality(1..n) = IF 1 > n THEN 0 ELSE n - 1 + 1
      BY FS_Interval
    <3>2. QED
      BY <3>1
  <2>3. QED
    BY <2>1, <2>2
<1>4. PICK i, j \in 1..Len(s) : i # j /\ f[i] = f[j]
  <2> HIDE DEF f
  <2> QED BY <1>1, <1>2, <1>3, FS_PigeonHole
<1>5. QED
  BY <1>4 DEF Chain

\* The safe revisions of a history are those before the first that is not whole.
LEMMA SafeIs ==
  ASSUME TypeOK, NEW p \in Project, Chain(body, made, p, index[p])
  PROVE  \E n \in 0..Len(index[p]) :
            /\ Safe(p) = SubSeq(index[p], 1, n)
            /\ \A i \in 1..n : file[index[p][i]] = "good"
            /\ n < Len(index[p]) => file[index[p][n + 1]] # "good"
<1> DEFINE s == index[p]
           Ok(n) == \A i \in 1..n : file[s[i]] = "good" /\ Follows(SubSeq(s, 1, i - 1), s[i])
           S == {n \in 0..Len(s) : Ok(n)}
<1>1. s \in Seq(Revision) /\ Len(s) \in Nat
  BY IndexedIs
<1>2. ASSUME NEW i \in 1..Len(s) PROVE Follows(SubSeq(s, 1, i - 1), s[i])
  <2>1. /\ SubSeq(s, 1, i - 1) \in Seq(Revision) /\ Len(SubSeq(s, 1, i - 1)) = i - 1
        /\ \A j \in 1..(i - 1) : SubSeq(s, 1, i - 1)[j] = s[j]
    BY <1>1
  <2>2. body[s[i]].ordinal = i
        /\ (body[s[i]].parent = 0 \/ \E j \in 1..(i - 1) : s[j] = body[s[i]].parent)
    BY DEF Chain
  <2>3. body[s[i]].parent \in ToSet(SubSeq(s, 1, i - 1)) \cup {0}
    BY <2>1, <2>2, Members
  <2>4. QED
    BY <2>1, <2>2, <2>3 DEF Follows
<1>3. \A n \in 0..Len(s) : Ok(n) <=> \A i \in 1..n : file[s[i]] = "good"
  BY <1>1, <1>2
<1> HIDE DEF Ok
<1>4. 0 \in S
  BY <1>1, <1>3
<1>5. Max(S) \in S /\ \A m \in S : m <= Max(S)
  <2>1. S \in SUBSET (0..Len(s)) /\ S # {}
    BY <1>4
  <2> HIDE DEF S
  <2>2. QED
    BY <1>1, <2>1, MaxIs
<1> DEFINE n == Max(S)
<1>6. Safe(p) = SubSeq(s, 1, n)
  BY DEF Safe, Ok
<1> HIDE DEF n
<1>7. n \in 0..Len(s) /\ \A i \in 1..n : file[s[i]] = "good"
  BY <1>3, <1>5 DEF n
<1>8. n < Len(s) => file[s[n + 1]] # "good"
  <2>1. SUFFICES ASSUME n < Len(s), file[s[n + 1]] = "good" PROVE FALSE
    OBVIOUS
  <2>2. n + 1 \in 0..Len(s) /\ \A i \in 1..(n + 1) : file[s[i]] = "good"
    BY <1>1, <1>7, <2>1
  <2>3. n + 1 \in S
    BY <1>3, <2>2
  <2>4. n + 1 <= n
    BY <1>5, <2>3 DEF n
  <2>5. QED
    BY <1>7, <2>4
<1>9. QED
  BY <1>6, <1>7, <1>8

------------------------------------------------------------------------------
(* Adopting orphans *)

\* The orphans of which exactly one is adopted next.
Candidates(b, t, orphans) ==
    {r \in orphans \ ToSet(t) :
        /\ b[r].ordinal = Len(t) + 1
        /\ b[r].parent \in ToSet(t) \cup {0}
        /\ b[r].parent = 0 => t = <<>>}

Grown(b, t, orphans) ==
    IF Cardinality(Candidates(b, t, orphans)) = 1
    THEN Append(t, CHOOSE r \in Candidates(b, t, orphans) : TRUE) ELSE t

\* g tells what s has become after each of m steps.
Growth(b, s, orphans, g, m) ==
    g = [n \in 0..m |-> IF n = 0 THEN s ELSE Grown(b, g[n - 1], orphans)]

\* t is the history s with some of the orphans added to it.
Grew(b, m, p, s, orphans, t) ==
    /\ t \in Seq(Revision) /\ Len(s) <= Len(t) /\ Chain(b, m, p, t)
    /\ \A i \in 1..Len(s) : t[i] = s[i]
    /\ \A i \in (Len(s) + 1)..Len(t) : t[i] \in orphans

\* The function that Adopted defines recursively exists: it can be built value by value.
LEMMA GrowthExists ==
  ASSUME NEW b, NEW s, NEW orphans, NEW k \in Nat
  PROVE  \E g : Growth(b, s, orphans, g, k)
<1> DEFINE T == {m \in Nat : \E g : Growth(b, s, orphans, g, m)}
<1>1. 0 \in T
  <2>1. Growth(b, s, orphans, [n \in 0..0 |-> s], 0)
    BY DEF Growth
  <2>2. QED
    BY <2>1
<1>2. ASSUME NEW m \in T PROVE m + 1 \in T
  <2>1. PICK g : Growth(b, s, orphans, g, m)
    OBVIOUS
  <2> DEFINE Val(f, n) == IF n = 0 THEN s ELSE Grown(b, f[n - 1], orphans)
             h == [n \in 0..(m + 1) |-> Val(g, n)]
  <2>2. \A n \in 0..m : g[n] = Val(g, n)
    BY <2>1 DEF Growth
  <2>3. \A n \in 0..m : h[n] = g[n]
    BY <2>2
  <2>4. \A n \in 0..(m + 1) : Val(g, n) = Val(h, n)
    BY <2>3
  <2>5. h = [n \in 0..(m + 1) |-> Val(h, n)]
    <3> DEFINE hh == h
    <3>1. h = [n \in 0..(m + 1) |-> Val(g, n)]
      OBVIOUS
    <3>2. \A n \in 0..(m + 1) : Val(g, n) = Val(hh, n)
      BY <2>4
    <3> HIDE DEF hh, Val
    <3>3. [n \in 0..(m + 1) |-> Val(g, n)] = [n \in 0..(m + 1) |-> Val(hh, n)]
      BY <3>2
    <3>4. QED
      BY <3>3 DEF hh
  <2> HIDE DEF h
  <2>6. Growth(b, s, orphans, h, m + 1)
    BY <2>5 DEF Growth
  <2>7. QED
    BY <2>6
<1>3. T = Nat
  <2>1. T \in SUBSET Nat
    OBVIOUS
  <2> HIDE DEF T
  <2>2. QED
    BY <1>1, <1>2, <2>1, SetInduction
<1>4. QED
  BY <1>3

\* Adopted is the last value of such a growth.
LEMMA AdoptedGrows ==
  ASSUME NEW s, NEW orphans, Cardinality(orphans) \in Nat, orphans # {}
  PROVE  \E g : /\ Growth(body, s, orphans, g, Cardinality(orphans))
                /\ Adopted(s, orphans) = g[Cardinality(orphans)]
<1> DEFINE G == CHOOSE g : Growth(body, s, orphans, g, Cardinality(orphans))
<1>1. Growth(body, s, orphans, G, Cardinality(orphans))
  BY GrowthExists
<1>2. Adopted(s, orphans) = G[Cardinality(orphans)]
  BY DEF Adopted, Growth, Grown, Candidates, Extends
<1>3. QED
  BY <1>1, <1>2

\* What a history becomes when it grows: the same revisions first, then orphans that
\* follow one another.
LEMMA GrowthIs ==
  ASSUME NEW b, NEW m \in Nat, m <= MaxRevision, NEW p, NEW s \in Seq(Revision),
         Chain(b, m, p, s),
         NEW orphans \in SUBSET (1..m), \A r \in orphans : b[r].project = p,
         NEW k \in Nat, NEW g, Growth(b, s, orphans, g, k), NEW j \in 0..k
  PROVE  Grew(b, m, p, s, orphans, g[j])
<1> DEFINE Good(t) == Grew(b, m, p, s, orphans, t)
           T == {n \in Nat : n <= k => Good(g[n])}
<1>1. Good(s)
  BY DEF Grew
<1>2. ASSUME NEW t, Good(t) PROVE Good(Grown(b, t, orphans))
  <2> DEFINE C == Candidates(b, t, orphans)
             r == CHOOSE x \in C : TRUE
  <2>1. CASE Cardinality(C) # 1
    BY <1>2, <2>1 DEF Grown
  <2>2. CASE Cardinality(C) = 1
    <3>1. C # {}
      <4>1. Cardinality({}) = 0
        BY FS_EmptySet
      <4> HIDE DEF C
      <4>2. C = {} => Cardinality(C) = 0
        BY <4>1, Zenon
      <4>3. QED
        BY <2>2, <4>2
    <3>2. r \in C
      <4> HIDE DEF C
      <4> QED BY <3>1
    <3>3. Grown(b, t, orphans) = Append(t, r)
      BY <2>2 DEF Grown
    <3> HIDE DEF r
    <3>4. /\ r \in orphans /\ b[r].ordinal = Len(t) + 1
          /\ b[r].parent = 0 \/ \E i \in 1..Len(t) : t[i] = b[r].parent
      BY <1>2, <3>2, Members DEF Candidates, Grew
    <3>5. /\ Append(t, r) \in Seq(Revision) /\ Len(Append(t, r)) = Len(t) + 1
          /\ \A i \in 1..Len(t) : Append(t, r)[i] = t[i]
          /\ Append(t, r)[Len(t) + 1] = r
          /\ Chain(b, m, p, Append(t, r))
      BY <1>2, <3>4, ChainAppend DEF Grew
    <3>6. QED
      <4> DEFINE u == Append(t, r)
      <4>1. u \in Seq(Revision) /\ Len(u) = Len(t) + 1 /\ u[Len(t) + 1] = r
            /\ (\A i \in 1..Len(t) : u[i] = t[i]) /\ Chain(b, m, p, u)
        BY <3>5
      <4> HIDE DEF u
      <4>2. Good(u)
        <5>1. Len(s) \in Nat /\ Len(t) \in Nat /\ Len(s) <= Len(t)
          BY <1>2 DEF Grew
        <5>2. Len(s) <= Len(u)
          BY <4>1, <5>1
        <5>3. \A i \in 1..Len(s) : u[i] = s[i]
          BY <1>2, <4>1, <5>1 DEF Grew
        <5>4. ASSUME NEW i \in (Len(s) + 1)..Len(u) PROVE u[i] \in orphans
          <6>1. CASE i = Len(t) + 1
            BY <3>4, <4>1, <6>1
          <6>2. CASE i # Len(t) + 1
            <7>1. i \in (Len(s) + 1)..Len(t) /\ i \in 1..Len(t)
              BY <4>1, <5>1, <6>2
            <7>2. QED
              BY <1>2, <4>1, <7>1 DEF Grew
          <6>3. QED
            BY <6>1, <6>2
        <5>5. QED
          BY <4>1, <5>2, <5>3, <5>4 DEF Grew
      <4>3. QED
        BY <3>3, <4>2 DEF u
  <2>3. QED
    BY <2>1, <2>2
<1>3. g[0] = s /\ \A n \in 1..k : g[n] = Grown(b, g[n - 1], orphans)
  BY DEF Growth
<1> HIDE DEF Good
<1>4. 0 \in T
  BY <1>1, <1>3
<1>5. ASSUME NEW n \in T PROVE n + 1 \in T
  <2>1. SUFFICES ASSUME n + 1 <= k PROVE Good(g[n + 1])
    OBVIOUS
  <2>2. Good(g[n])
    BY <2>1
  <2>3. n + 1 \in 1..k /\ (n + 1) - 1 = n
    BY <2>1
  <2>4. g[n + 1] = Grown(b, g[n], orphans)
    BY <1>3, <2>3
  <2>5. QED
    BY <1>2, <2>2, <2>4
<1>6. T = Nat
  <2>1. T \in SUBSET Nat
    OBVIOUS
  <2> HIDE DEF T
  <2>2. QED
    BY <1>4, <1>5, <2>1, SetInduction
<1>7. QED
  BY <1>6 DEF Good

\* What a history has become when the orphans that follow it are adopted.
LEMMA AdoptedIs ==
  ASSUME TypeOK, NEW p \in Project, NEW s \in Seq(Revision), Chain(body, made, p, s),
         NEW orphans \in SUBSET (1..made), \A r \in orphans : body[r].project = p
  PROVE  /\ Grew(body, made, p, s, orphans, Adopted(s, orphans))
         /\ orphans = {} => Adopted(s, orphans) = s
<1>1. made \in Nat /\ made <= MaxRevision
  BY RepositoryAssumption DEF TypeOK
<1>2. CASE orphans = {}
  BY <1>2 DEF Adopted, Grew
<1>3. CASE orphans # {}
  <2>1. Cardinality(orphans) \in Nat
    <3>1. IsFiniteSet(1..made)
      BY <1>1, FS_Interval
    <3>2. IsFiniteSet(orphans)
      BY <3>1, FS_Subset
    <3>3. QED
      BY <3>2, FS_CardinalityType
  <2>2. PICK g : /\ Growth(body, s, orphans, g, Cardinality(orphans))
                 /\ Adopted(s, orphans) = g[Cardinality(orphans)]
    BY <1>3, <2>1, AdoptedGrows
  <2> DEFINE k == Cardinality(orphans)
  <2>3. k \in 0..k /\ k \in Nat
    BY <2>1
  <2>4. Adopted(s, orphans) = g[k] /\ Growth(body, s, orphans, g, k)
    BY <2>2
  <2> HIDE DEF k
  <2>5. Grew(body, made, p, s, orphans, g[k])
    BY <1>1, <2>3, <2>4, GrowthIs
  <2>6. QED
    BY <1>3, <2>4, <2>5
<1>4. QED
  BY <1>2, <1>3

------------------------------------------------------------------------------
(* Types *)

Healths  == {"none", "ok", "bad", "gone"}
Files    == {"none", "good", "bad", "quarantined"}
Bodies   == [project : Project \cup {None}, parent : 0..MaxRevision, ordinal : 0..(MaxRevision + 1)]
Receipts == [state : {"none", "ok", "unreadable", "invalid", "mismatched"},
             rev : 0..MaxRevision, count : 0..MaxRevision, latest : 0..MaxRevision]
Pointers == [state : {"none", "ok", "bad"}, project : Project \cup {None},
             rev : 0..MaxRevision, at : 0..MaxRevision]
Kinds    == {"idle", "get", "list", "current", "fallback", "save"}
Methods  == [kind : Kinds, phase : Phases, left : SUBSET Project, cur : Project \cup {None},
             force : BOOLEAN, base : 0..MaxRevision, strict : BOOLEAN, rev : 0..MaxRevision]

\* TypeOK with a name for each type.
Types ==
    /\ health \in [Project -> Healths]
    /\ index \in [Project -> Seq(Revision)] /\ rejected \in [Project -> SUBSET Revision]
    /\ updated \in [Project -> 0..(2 * MaxRevision + 1)]
    /\ file \in [Revision -> Files] /\ body \in [Revision -> Bodies]
    /\ receipt \in [Project -> Receipts] /\ pointer \in Pointers
    /\ made \in 0..MaxRevision /\ damage \in 0..MaxDamage /\ op \in Methods
    /\ acked \subseteq Revision /\ hit \subseteq Revision

\* TypeOK with its sorts named.
LEMMA TypesAre == TypeOK <=> Types
BY DEF TypeOK, Types, Healths, Files, Bodies, Receipts, Pointers, Kinds, Methods

\* The sorts of numbers.
LEMMA Numbers ==
  /\ MaxRevision \in Nat /\ MaxDamage \in Nat /\ 0 \in 0..MaxRevision
  /\ Revision \subseteq 0..MaxRevision /\ Revision = 1..MaxRevision
BY RepositoryAssumption DEF Revision

\* The values that a method begins with.
LEMMA MethodsHave ==
  /\ Idle \in Methods
  /\ \A k \in Kinds, x \in Phases, l \in SUBSET Project, n \in 0..MaxRevision, z \in BOOLEAN :
        [Idle EXCEPT !.kind = k, !.phase = x, !.left = l, !.base = n, !.strict = z] \in Methods
  /\ \A k \in Kinds, x \in Phases, l \in SUBSET Project, n \in 0..MaxRevision :
        [Idle EXCEPT !.kind = k, !.phase = x, !.left = l, !.base = n] \in Methods
  /\ \A k \in Kinds, x \in Phases, l \in SUBSET Project :
        [Idle EXCEPT !.kind = k, !.phase = x, !.left = l] \in Methods
  /\ \A k \in Kinds, x \in Phases : [Idle EXCEPT !.kind = k, !.phase = x] \in Methods
<1>1. Idle \in Methods /\ "idle" \in Kinds
  BY Numbers DEF Idle, Methods, Kinds, Phases
<1> HIDE DEF Idle
<1>2. QED
  BY <1>1 DEF Methods

\* The values that a step of a method leads to.
LEMMA MethodsKeep ==
  ASSUME NEW o \in Methods
  PROVE  /\ \A x \in Phases : [o EXCEPT !.phase = x] \in Methods
         /\ \A x \in Phases, n \in 0..MaxRevision : [o EXCEPT !.phase = x, !.rev = n] \in Methods
         /\ \A x \in Phases, f \in BOOLEAN : [o EXCEPT !.phase = x, !.force = f] \in Methods
         /\ \A f \in BOOLEAN : [o EXCEPT !.force = f] \in Methods
         /\ \A p \in Project, x \in Phases :
               [o EXCEPT !.left = @ \ {p}, !.cur = p, !.force = FALSE, !.phase = x] \in Methods
         /\ o.base \in 0..MaxRevision /\ o.rev \in 0..MaxRevision /\ o.force \in BOOLEAN
         /\ o.left \subseteq Project /\ o.phase \in Phases /\ o.kind \in Kinds
         /\ o.cur \in Project \cup {None} /\ o.strict \in BOOLEAN
BY DEF Methods

\* What the type of a project says of its index.
LEMMA Lengths ==
  ASSUME RInv, NEW p \in Project
  PROVE  /\ index[p] \in Seq(Revision) /\ Len(index[p]) \in 0..made
         /\ Latest(p) \in 0..MaxRevision /\ Indexed(p) \subseteq Revision
<1>0. TypeOK /\ Chain(body, made, p, index[p])
  BY DEF RInv, ProjectOf
<1>1. made \in 0..MaxRevision /\ made \in Nat
  BY <1>0, TypesAre, Numbers DEF Types
<1>2. index[p] \in Seq(Revision) /\ Len(index[p]) \in 0..made
  BY <1>0, <1>1, ChainShort, IndexedIs
<1>3. QED
  BY <1>0, <1>1, <1>2, IndexedIs, Numbers

\* A step leads to another stage of a method.
LEMMA MethodStep ==
  ASSUME RInv, Next
  PROVE  op' \in Methods
<1>0. op \in Methods /\ made \in 0..MaxRevision
  BY TypesAre DEF RInv, Types
<1>a. \A p : RevisionsOf(p) \cup {0} \subseteq 0..MaxRevision
  BY Numbers DEF RevisionsOf
<1>b. pointer.state = "ok" => pointer.project \in Project /\ pointer.rev \in 0..MaxRevision
  BY TypesAre DEF RInv, Types, Pointers, PointerOf
<1> USE DEF Phases, Kinds, Listed
<1>1. ASSUME NEW q \in Project, NextProject(q) PROVE op' \in Methods
  BY <1>1, <1>0, <1>a, <1>b, Numbers, MethodsKeep, MethodsHave DEF NextProject, Nothing
<1>2. ASSUME NEW q \in Project, ReadManifest(q) PROVE op' \in Methods
  <2>1. \/ op' = [op EXCEPT !.phase = "indexed"]
        \/ op' = [op EXCEPT !.phase = "next"]
        \/ op' = [op EXCEPT !.phase = "fall"]
        \/ op' = Idle
    BY <1>2, <1>0, <1>b DEF ReadManifest, In, To
  <2>2. CASE op' = [op EXCEPT !.phase = "indexed"]
    BY <2>2, <1>0, <1>a, <1>b, Numbers DEF Methods, Phases, Kinds
  <2>3. CASE op' = [op EXCEPT !.phase = "next"]
    BY <2>3, <1>0, <1>a, <1>b, Numbers DEF Methods, Phases, Kinds
  <2>4. CASE op' = [op EXCEPT !.phase = "fall"]
    BY <2>4, <1>0, <1>a, <1>b, Numbers DEF Methods, Phases, Kinds
  <2>5. CASE op' = Idle
    BY <2>5, <1>0, <1>a, <1>b, Numbers, MethodsHave
  <2>6. QED
    BY <2>1, <2>2, <2>3, <2>4, <2>5
<1>3. ASSUME NEW q \in Project, RecoverIndexed(q) PROVE op' \in Methods
  <2>1. \/ op' = [op EXCEPT !.phase = "pending"]
        \/ op' = op
    BY <1>3, <1>0, <1>b DEF RecoverIndexed, In, Nothing, To, Quarantine, WriteManifest
  <2>2. QED
    BY <2>1, <1>0, <1>a, <1>b, Numbers DEF Methods, Phases, Kinds, Idle
<1>4. ASSUME NEW q \in Project, RejectPending(q) PROVE op' \in Methods
  BY <1>4, <1>0, <1>a, <1>b, Numbers, MethodsKeep, MethodsHave DEF RejectPending, In,
     WriteManifest, Quarantine
<1>5. ASSUME NEW q \in Project, QuarantinePending(q) PROVE op' \in Methods
  BY <1>5, <1>0, <1>a, <1>b, Numbers, MethodsKeep, MethodsHave DEF QuarantinePending, In, Quarantine
<1>6. ASSUME NEW q \in Project, DropPending(q) PROVE op' \in Methods
  BY <1>6, <1>0, <1>a, <1>b, Numbers, MethodsKeep, MethodsHave DEF DropPending, In, DropReceipt, To
<1>7. ASSUME NEW q \in Project, FinishPending(q) PROVE op' \in Methods
  <2>1. \/ op' = [op EXCEPT !.phase = "orphans", !.force = TRUE]
        \/ op' = op
    BY <1>7, <1>0, <1>b DEF FinishPending, In, WriteManifest, DropReceipt, WritePointer, Repair
  <2>2. QED
    BY <2>1, <1>0, <1>a, <1>b, Numbers DEF Methods, Phases, Kinds, Idle
<1>8. ASSUME NEW q \in Project, NoPending(q) PROVE op' \in Methods
  BY <1>8, <1>0, <1>a, <1>b, Numbers, MethodsKeep, MethodsHave DEF NoPending, In, Nothing, To
<1>9. ASSUME NEW q \in Project, RecoverOrphans(q) PROVE op' \in Methods
  <2>1. \/ op' = op \/ op' = [op EXCEPT !.phase = "repair"]
        \/ op' = [op EXCEPT !.force = @ \/ Adopted(index[q], Unindexed(q)) # index[q]]
    BY <1>9 DEF RecoverOrphans, In, Quarantine, WriteManifest, To, Nothing
  <2> DEFINE f == op.force \/ Adopted(index[q], Unindexed(q)) # index[q]
  <2>2. f \in BOOLEAN /\ [op EXCEPT !.force = @ \/ Adopted(index[q], Unindexed(q)) # index[q]]
                          = [op EXCEPT !.force = f]
    BY DEF Methods
  <2> HIDE DEF f
  <2>3. QED
    BY <1>0, <2>1, <2>2 DEF Methods, Phases
<1>10. ASSUME NEW q \in Project, RepairPointer(q) PROVE op' \in Methods
  <2>1. \/ op' = [op EXCEPT !.phase = "next"]
        \/ op' = [op EXCEPT !.phase = "read"]
        \/ op' = op
    BY <1>10, <1>0, <1>b DEF RepairPointer, In, Nothing, To, WritePointer, Repair
  <2>2. CASE op' = [op EXCEPT !.phase = "next"]
    BY <2>2, <1>0, <1>a, <1>b, Numbers DEF Methods, Phases, Kinds
  <2>3. CASE op' = [op EXCEPT !.phase = "read"]
    BY <2>3, <1>0, <1>a, <1>b, Numbers DEF Methods, Phases, Kinds
  <2>4. CASE op' = op
    BY <2>4, <1>0, <1>a, <1>b, Numbers DEF Methods, Phases, Kinds
  <2>5. QED
    BY <2>1, <2>2, <2>3, <2>4
<1>11. ASSUME NEW q \in Project, Prepare(q) PROVE op' \in Methods
  <2>1. CASE op' = Idle
    BY <2>1, MethodsHave
  <2>2. CASE op' # Idle
    <3>1. op' = [op EXCEPT !.phase = "receipt", !.rev = made + 1]
      BY <1>11, <2>2 DEF Prepare, In, Nothing
    <3>2. op.kind = "save" /\ op.phase = "read"
      BY <1>11 DEF Prepare, In, Nothing
    <3>3. made + 1 \in 0..MaxRevision
      BY <1>0, <3>2, Numbers DEF RInv, Saving, Writing
    <3>4. QED
      BY <1>0, <3>1, <3>3 DEF Methods, Phases
  <2>3. QED
    BY <2>1, <2>2
<1>12. ASSUME NEW q \in Project, WriteReceipt(q) PROVE op' \in Methods
  BY <1>12, <1>0, <1>a, <1>b, Numbers, MethodsKeep, MethodsHave DEF WriteReceipt, In, To
<1>13. ASSUME NEW q \in Project, WriteRevision(q) PROVE op' \in Methods
  BY <1>13, <1>0, <1>a, <1>b, Numbers, MethodsKeep, MethodsHave DEF WriteRevision, In, To
<1>14. ASSUME NEW q \in Project, WriteIndex(q) PROVE op' \in Methods
  BY <1>14, <1>0, <1>a, <1>b, Numbers, MethodsKeep, MethodsHave DEF WriteIndex, In, To, WriteManifest
<1>15. ASSUME NEW q \in Project, WriteCurrent(q) PROVE op' \in Methods
  BY <1>15, <1>0, <1>a, <1>b, Numbers, MethodsKeep, MethodsHave DEF WriteCurrent, In, To, WritePointer
<1>16. ASSUME NEW q \in Project, Commit(q) PROVE op' \in Methods
  BY <1>16, <1>0, <1>a, <1>b, Numbers, MethodsKeep, MethodsHave DEF Commit, In
<1>17. ASSUME NEW q \in Project, CreateProject(q) PROVE op' \in Methods
  BY <1>17, <1>0, <1>a, <1>b, Numbers, MethodsKeep, MethodsHave DEF CreateProject
<1>18. ASSUME NEW q \in Project, Get(q) PROVE op' \in Methods
  <2>1. op' = [Idle EXCEPT !.kind = "get", !.phase = "next", !.left = {q}]
    BY <1>18, <1>0, <1>b DEF Get, Begin, Nothing
  <2>2. QED
    BY <2>1, <1>0, <1>a, <1>b, Numbers DEF Methods, Phases, Kinds, Idle
<1>19. ASSUME NEW q \in Project, NEW base \in RevisionsOf(q) \cup {0}, NEW strict \in BOOLEAN,
             Save(q, base, strict) PROVE op' \in Methods
  <2>1. op' = [Idle EXCEPT !.kind = "save", !.phase = "next", !.left = {q},
                             !.base = base, !.strict = strict]
    BY <1>19, <1>0, <1>b DEF Save, Begin, Nothing
  <2>2. QED
    BY <2>1, <1>0, <1>a, <1>b, Numbers DEF Methods, Phases, Kinds, Idle
<1>20. ASSUME List PROVE op' \in Methods
  BY <1>20, <1>0, <1>a, <1>b, Numbers, MethodsKeep, MethodsHave DEF List, Begin, Nothing
<1>21. ASSUME Current PROVE op' \in Methods
  <2>1. CASE pointer.state = "ok"
    <3>1. op' = [Idle EXCEPT !.kind = "current", !.phase = "next",
                             !.left = {pointer.project}, !.base = pointer.rev]
      BY <1>21, <2>1 DEF Current, Begin, Nothing
    <3>2. QED
      BY <3>1, <2>1, <1>b, Numbers DEF Methods, Phases, Kinds, Idle
  <2>2. CASE pointer.state # "ok"
    <3>1. op' = [Idle EXCEPT !.kind = "current", !.phase = "fall"]
      BY <1>21, <2>2 DEF Current, Begin, Nothing
    <3>2. QED
      BY <3>1, Numbers DEF Methods, Phases, Kinds, Idle
  <2>3. QED
    BY <2>1, <2>2
<1>22. ASSUME ListEnds PROVE op' \in Methods
  BY <1>22, <1>0, <1>a, <1>b, Numbers, MethodsKeep, MethodsHave DEF ListEnds, Nothing
<1>23. ASSUME GetEnds PROVE op' \in Methods
  BY <1>23, <1>0, <1>a, <1>b, Numbers, MethodsKeep, MethodsHave DEF GetEnds, Nothing
<1>24. ASSUME CurrentEnds PROVE op' \in Methods
  <2>1. \/ op' = Idle
        \/ op' = [op EXCEPT !.phase = "fall"]
    BY <1>24, <1>0, <1>b DEF CurrentEnds, Nothing, To, WritePointer
  <2>2. CASE op' = Idle
    BY <2>2, <1>0, <1>a, <1>b, Numbers, MethodsHave
  <2>3. CASE op' = [op EXCEPT !.phase = "fall"]
    BY <2>3, <1>0, <1>a, <1>b, Numbers DEF Methods, Phases, Kinds
  <2>4. QED
    BY <2>1, <2>2, <2>3
<1>25. ASSUME Fall PROVE op' \in Methods
  BY <1>25, <1>0, <1>a, <1>b, Numbers, MethodsKeep, MethodsHave DEF Fall, WritePointer
<1>26. ASSUME Select PROVE op' \in Methods
  BY <1>26, <1>0, <1>a, <1>b, Numbers, MethodsKeep, MethodsHave DEF Select, Nothing, WritePointer
<1>27. ASSUME Interrupt PROVE op' \in Methods
  BY <1>27, <1>0, <1>a, <1>b, Numbers, MethodsKeep, MethodsHave DEF Interrupt, Nothing
<1>28. ASSUME SpoilPointer PROVE op' \in Methods
  BY <1>28, <1>0, <1>a, <1>b, Numbers, MethodsKeep, MethodsHave DEF SpoilPointer, Harm
<1>29. ASSUME NEW x \in Revision, SpoilRevision(x) PROVE op' \in Methods
  BY <1>29, <1>0, <1>a, <1>b, Numbers, MethodsKeep, MethodsHave DEF SpoilRevision, Harm
<1>30. ASSUME NEW q \in Project, SpoilManifest(q) PROVE op' \in Methods
  BY <1>30, <1>0, <1>a, <1>b, Numbers, MethodsKeep, MethodsHave DEF SpoilManifest, Harm
<1>31. ASSUME NEW q \in Project, RestoreManifest(q) PROVE op' \in Methods
  BY <1>31, <1>0, <1>a, <1>b, Numbers, MethodsKeep, MethodsHave DEF RestoreManifest, Harm
<1>32. ASSUME NEW q \in Project, SpoilReceipt(q) PROVE op' \in Methods
  BY <1>32, <1>0, <1>a, <1>b, Numbers, MethodsKeep, MethodsHave DEF SpoilReceipt, Harm
<1>33. ASSUME NEW q \in Project, LoseReceipt(q) PROVE op' \in Methods
  BY <1>33, <1>0, <1>a, <1>b, Numbers, MethodsKeep, MethodsHave DEF LoseReceipt, Harm
<1>34. ASSUME NEW q \in Project, ForeignRevision(q) PROVE op' \in Methods
  BY <1>34, <1>0, <1>a, <1>b, Numbers, MethodsKeep, MethodsHave DEF ForeignRevision, Harm
<1>35. QED
  BY <1>1, <1>2, <1>3, <1>4, <1>5, <1>6, <1>7, <1>8, <1>9, <1>10, <1>11, <1>12, <1>13, <1>14,
     <1>15, <1>16, <1>17, <1>18, <1>19, <1>20, <1>21, <1>22, <1>23, <1>24, <1>25, <1>26, <1>27,
        <1>28, <1>29, <1>30, <1>31, <1>32, <1>33, <1>34 DEF Next, Method, Read, Write, Damage

------------------------------------------------------------------------------
(* What each step may change *)

\* The steps that write, spoil or move away a manifest.
HealthMoves == \E q \in Project : ReadManifest(q) \/ CreateProject(q) \/ SpoilManifest(q)

\* The steps that write the index of a project.
IndexMoves == \E q \in Project : RecoverIndexed(q) \/ RejectPending(q) \/ FinishPending(q)
          \/ RecoverOrphans(q) \/ WriteIndex(q) \/ RestoreManifest(q)

\* Those that write the rest of its manifest.
ManifestMoves == \E q \in Project : RecoverIndexed(q) \/ RejectPending(q) \/ FinishPending(q)
          \/ RecoverOrphans(q) \/ WriteIndex(q)

\* The steps that write or move a revision file.
FileMoves ==
    \/ \E q \in Project : RecoverIndexed(q) \/ RejectPending(q) \/ QuarantinePending(q)
                           \/ RecoverOrphans(q) \/ WriteRevision(q) \/ ForeignRevision(q)
    \/ \E x \in Revision : SpoilRevision(x)

\* The steps that make a revision.
RevisionMoves == \E q \in Project : Prepare(q) \/ ForeignRevision(q)

\* The steps that write or drop a receipt.
ReceiptMoves == \E q \in Project : DropPending(q) \/ FinishPending(q) \/ WriteReceipt(q) \/ Commit(q)
          \/ SpoilReceipt(q) \/ LoseReceipt(q)

\* The steps that write the pointer.
PointerMoves ==
    \/ \E q \in Project : FinishPending(q) \/ RepairPointer(q) \/ WriteCurrent(q)
    \/ CurrentEnds \/ Fall \/ Select \/ SpoilPointer

\* The steps that lose a revision.
HitMoves ==
    \/ \E q \in Project : SpoilManifest(q) \/ RestoreManifest(q)
    \/ \E x \in Revision : SpoilRevision(x)

\* The steps of the outside.
DamageMoves ==
    \/ \E q \in Project : SpoilManifest(q) \/ RestoreManifest(q) \/ SpoilReceipt(q)
                           \/ LoseReceipt(q) \/ ForeignRevision(q)
    \/ \E x \in Revision : SpoilRevision(x)
    \/ SpoilPointer

\* Every other step leaves the variable as it is.
LEMMA Frames ==
  ASSUME Next
  PROVE  /\ health' = health \/ HealthMoves
         /\ index' = index \/ IndexMoves
         /\ (rejected' = rejected /\ updated' = updated) \/ ManifestMoves
         /\ file' = file \/ FileMoves
         /\ (body' = body /\ made' = made) \/ RevisionMoves
         /\ receipt' = receipt \/ ReceiptMoves
         /\ pointer' = pointer \/ PointerMoves
         /\ acked' = acked \/ \E q \in Project : Commit(q)
         /\ hit' = hit \/ HitMoves
         /\ damage' = damage \/ DamageMoves
<1> USE DEF manifest, revisions, ghosts
<1>1. ASSUME NEW q \in Project, NextProject(q)
      PROVE  UNCHANGED <<health, index, rejected, updated, file, body, receipt, pointer, made,
                         acked, hit, damage>>
  BY <1>1 DEF NextProject, Nothing
<1>2. ASSUME NEW q \in Project, ReadManifest(q)
      PROVE  UNCHANGED <<index, rejected, updated, file, body, receipt, pointer, made, acked, hit,
                         damage>>
  BY <1>2 DEF ReadManifest, In, To
<1>3. ASSUME NEW q \in Project, RecoverIndexed(q)
      PROVE  UNCHANGED <<health, body, receipt, pointer, made, acked, hit, damage>>
  BY <1>3 DEF RecoverIndexed, In, Nothing, To, Quarantine, WriteManifest
<1>4. ASSUME NEW q \in Project, RejectPending(q)
      PROVE  UNCHANGED <<health, body, receipt, pointer, made, acked, hit, damage>>
  BY <1>4 DEF RejectPending, In, WriteManifest, Quarantine
<1>5. ASSUME NEW q \in Project, QuarantinePending(q)
      PROVE  UNCHANGED <<health, index, rejected, updated, body, receipt, pointer, made, acked,
                         hit, damage>>
  BY <1>5 DEF QuarantinePending, In, Quarantine
<1>6. ASSUME NEW q \in Project, DropPending(q)
      PROVE  UNCHANGED <<health, index, rejected, updated, file, body, pointer, made, acked, hit,
                         damage>>
  BY <1>6 DEF DropPending, In, DropReceipt, To
<1>7. ASSUME NEW q \in Project, FinishPending(q)
      PROVE  UNCHANGED <<health, file, body, made, acked, hit, damage>>
  BY <1>7 DEF FinishPending, In, WriteManifest, DropReceipt, WritePointer, Repair
<1>8. ASSUME NEW q \in Project, NoPending(q)
      PROVE  UNCHANGED <<health, index, rejected, updated, file, body, receipt, pointer, made,
                         acked, hit, damage>>
  BY <1>8 DEF NoPending, In, Nothing, To
<1>9. ASSUME NEW q \in Project, RecoverOrphans(q)
      PROVE  UNCHANGED <<health, body, receipt, pointer, made, acked, hit, damage>>
  BY <1>9 DEF RecoverOrphans, In, Quarantine, WriteManifest, To, Nothing
<1>10. ASSUME NEW q \in Project, RepairPointer(q)
      PROVE  UNCHANGED <<health, index, rejected, updated, file, body, receipt, made, acked, hit,
                         damage>>
  BY <1>10 DEF RepairPointer, In, Nothing, To, WritePointer, Repair
<1>11. ASSUME NEW q \in Project, Prepare(q)
      PROVE  UNCHANGED <<health, index, rejected, updated, file, receipt, pointer, acked, hit, damage>>
  BY <1>11 DEF Prepare, In, Nothing
<1>12. ASSUME NEW q \in Project, WriteReceipt(q)
      PROVE  UNCHANGED <<health, index, rejected, updated, file, body, pointer, made, acked, hit,
                         damage>>
  BY <1>12 DEF WriteReceipt, In, To
<1>13. ASSUME NEW q \in Project, WriteRevision(q)
      PROVE  UNCHANGED <<health, index, rejected, updated, body, receipt, pointer, made, acked,
                         hit, damage>>
  BY <1>13 DEF WriteRevision, In, To
<1>14. ASSUME NEW q \in Project, WriteIndex(q)
      PROVE  UNCHANGED <<health, file, body, receipt, pointer, made, acked, hit, damage>>
  BY <1>14 DEF WriteIndex, In, To, WriteManifest
<1>15. ASSUME NEW q \in Project, WriteCurrent(q)
      PROVE  UNCHANGED <<health, index, rejected, updated, file, body, receipt, made, acked, hit,
                         damage>>
  BY <1>15 DEF WriteCurrent, In, To, WritePointer
<1>16. ASSUME NEW q \in Project, Commit(q)
      PROVE  UNCHANGED <<health, index, rejected, updated, file, body, pointer, made, hit, damage>>
  BY <1>16 DEF Commit, In
<1>17. ASSUME NEW q \in Project, CreateProject(q)
      PROVE  UNCHANGED <<index, rejected, updated, file, body, receipt, pointer, made, acked, hit,
                         damage>>
  BY <1>17 DEF CreateProject
<1>18. ASSUME NEW q \in Project, Get(q)
      PROVE  UNCHANGED <<health, index, rejected, updated, file, body, receipt, pointer, made,
                         acked, hit, damage>>
  BY <1>18 DEF Get, Begin, Nothing
<1>19. ASSUME NEW q \in Project, NEW base \in RevisionsOf(q) \cup {0}, NEW strict \in BOOLEAN,
             Save(q, base, strict)
      PROVE  UNCHANGED <<health, index, rejected, updated, file, body, receipt, pointer, made,
                         acked, hit, damage>>
  BY <1>19 DEF Save, Begin, Nothing
<1>20. ASSUME List
      PROVE  UNCHANGED <<health, index, rejected, updated, file, body, receipt, pointer, made,
                         acked, hit, damage>>
  BY <1>20 DEF List, Begin, Nothing
<1>21. ASSUME Current
      PROVE  UNCHANGED <<health, index, rejected, updated, file, body, receipt, pointer, made,
                         acked, hit, damage>>
  BY <1>21 DEF Current, Begin, Nothing
<1>22. ASSUME ListEnds
      PROVE  UNCHANGED <<health, index, rejected, updated, file, body, receipt, pointer, made,
                         acked, hit, damage>>
  BY <1>22 DEF ListEnds, Nothing
<1>23. ASSUME GetEnds
      PROVE  UNCHANGED <<health, index, rejected, updated, file, body, receipt, pointer, made,
                         acked, hit, damage>>
  BY <1>23 DEF GetEnds, Nothing
<1>24. ASSUME CurrentEnds
      PROVE  UNCHANGED <<health, index, rejected, updated, file, body, receipt, made, acked, hit,
                         damage>>
  BY <1>24 DEF CurrentEnds, Nothing, To, WritePointer
<1>25. ASSUME Fall
      PROVE  UNCHANGED <<health, index, rejected, updated, file, body, receipt, made, acked, hit,
                         damage>>
  BY <1>25 DEF Fall, WritePointer
<1>26. ASSUME Select
      PROVE  UNCHANGED <<health, index, rejected, updated, file, body, receipt, made, acked, hit,
                         damage>>
  BY <1>26 DEF Select, Nothing, WritePointer
<1>27. ASSUME Interrupt
      PROVE  UNCHANGED <<health, index, rejected, updated, file, body, receipt, pointer, made,
                         acked, hit, damage>>
  BY <1>27 DEF Interrupt, Nothing
<1>28. ASSUME SpoilPointer
      PROVE  UNCHANGED <<health, index, rejected, updated, file, body, receipt, made, acked, hit>>
  BY <1>28 DEF SpoilPointer, Harm
<1>29. ASSUME NEW x \in Revision, SpoilRevision(x)
      PROVE  UNCHANGED <<health, index, rejected, updated, body, receipt, pointer, made, acked>>
  BY <1>29 DEF SpoilRevision, Harm
<1>30. ASSUME NEW q \in Project, SpoilManifest(q)
      PROVE  UNCHANGED <<index, rejected, updated, file, body, receipt, pointer, made, acked>>
  BY <1>30 DEF SpoilManifest, Harm
<1>31. ASSUME NEW q \in Project, RestoreManifest(q)
      PROVE  UNCHANGED <<health, rejected, updated, file, body, receipt, pointer, made, acked>>
  BY <1>31 DEF RestoreManifest, Harm
<1>32. ASSUME NEW q \in Project, SpoilReceipt(q)
      PROVE  UNCHANGED <<health, index, rejected, updated, file, body, pointer, made, acked, hit>>
  BY <1>32 DEF SpoilReceipt, Harm
<1>33. ASSUME NEW q \in Project, LoseReceipt(q)
      PROVE  UNCHANGED <<health, index, rejected, updated, file, body, pointer, made, acked, hit>>
  BY <1>33 DEF LoseReceipt, Harm
<1>34. ASSUME NEW q \in Project, ForeignRevision(q)
      PROVE  UNCHANGED <<health, index, rejected, updated, receipt, pointer, acked, hit>>
  BY <1>34 DEF ForeignRevision, Harm
<1>35. QED
  BY <1>1, <1>2, <1>3, <1>4, <1>5, <1>6, <1>7, <1>8, <1>9, <1>10, <1>11, <1>12, <1>13,
     <1>14, <1>15, <1>16, <1>17, <1>18, <1>19, <1>20, <1>21, <1>22, <1>23, <1>24, <1>25,
     <1>26, <1>27, <1>28, <1>29, <1>30, <1>31, <1>32, <1>33, <1>34
     DEF Next, Method, Read, Write, Damage, HealthMoves, IndexMoves, ManifestMoves, FileMoves,
         RevisionMoves, ReceiptMoves, PointerMoves, HitMoves, DamageMoves

------------------------------------------------------------------------------
(* What a step makes of an index *)

\* The index loses its last revisions, ...
Shorter(p) ==
    /\ index'[p] \in Seq(Revision) /\ Len(index'[p]) <= Len(index[p])
    /\ \A i \in 1..Len(index'[p]) : index'[p][i] = index[p][i]
    /\ Chain(body, made, p, index'[p])

\* ... to a backup, ...
Restored(p) ==
    /\ op = Idle /\ Shorter(p) /\ file' = file /\ receipt' = receipt /\ health[p] = "ok"
    /\ \A i \in (Len(index'[p]) + 1)..Len(index[p]) : index[p][i] \in hit'

\* ... or because they are not safe.
Recovering(p) ==
    /\ op.phase = "indexed" /\ op.cur = p /\ Shorter(p) /\ file' = file /\ receipt' = receipt
    /\ \A i \in 1..Len(index'[p]) : file[index[p][i]] = "good"
    /\ Len(index'[p]) < Len(index[p]) => file[index[p][Len(index'[p]) + 1]] # "good"

\* It gets the revision of a receipt, ...
Finished(p) ==
    /\ op.phase = "pending" /\ op.cur = p /\ Confirmed(p) /\ Appendable(p) /\ file' = file
    /\ receipt[p].rev \notin Indexed(p) /\ receipt' = receipt /\ rejected'[p] = rejected[p]
    /\ Grew(body, made, p, index[p], {receipt[p].rev}, index'[p])
    /\ Len(index'[p]) = Len(index[p]) + 1

\* ... the one that is saved, ...
Saved(p) ==
    /\ op.phase = "index" /\ op.cur = p /\ file' = file /\ receipt' = receipt
    /\ rejected'[p] = rejected[p]
    /\ Grew(body, made, p, index[p], {op.rev}, index'[p])
    /\ Len(index'[p]) = Len(index[p]) + 1

\* ... or orphans.
Adopting(p) ==
    /\ op.phase = "orphans" /\ op.cur = p /\ file' = file /\ receipt' = receipt
    /\ Grew(body, made, p, index[p], Unindexed(p), index'[p])
    /\ rejected'[p] = rejected[p] \cup (Unindexed(p) \ ToSet(index'[p]))
    /\ \A r \in Unindexed(p) : r \notin rejected[p] /\ file[r] = "good"

\* Unindexed revisions were made, for this project.
LEMMA UnindexedAre ==
  ASSUME RInv, NEW p \in Project
  PROVE  /\ Unindexed(p) \in SUBSET (1..made)
         /\ \A r \in Unindexed(p) :
              /\ r \in Revision /\ body[r].project = p /\ file[r] \in {"good", "bad"}
              /\ r \notin Indexed(p)
<1>1. None \notin Project
  BY RepositoryAssumption
<1>2. QED
  BY <1>1 DEF Unindexed, OnDisk, RevisionsOf, RInv, MadeOf, NoBody

\* A step leaves the index, cuts it, or lets it grow in one of these ways.
LEMMA IndexStep ==
  ASSUME RInv, Next, NEW p \in Project
  PROVE  \/ index'[p] = index[p]
         \/ /\ body' = body /\ made' = made
            /\ \/ Restored(p) \/ Recovering(p) \/ Finished(p) \/ Saved(p) \/ Adopting(p)
<1>0. /\ TypeOK /\ Chain(body, made, p, index[p]) /\ made \in Nat /\ made <= MaxRevision
      /\ index[p] \in Seq(Revision) /\ Len(index[p]) \in Nat /\ p \in DOMAIN index
      /\ p \in DOMAIN rejected
  BY Lengths, TypesAre, Numbers DEF RInv, ProjectOf, Types
<1> USE <1>0 DEF manifest, revisions, ghosts
<1>1. CASE index' = index
  BY <1>1
<1>2. CASE RecoverIndexed(p)
  <2>1. CASE UNCHANGED index
    BY <2>1
  <2>2. CASE index'[p] = Safe(p) /\ In(p, "indexed") /\ UNCHANGED <<file, receipt, body, made>>
    <3>1. PICK n \in 0..Len(index[p]) :
             /\ Safe(p) = SubSeq(index[p], 1, n)
             /\ \A i \in 1..n : file[index[p][i]] = "good"
             /\ n < Len(index[p]) => file[index[p][n + 1]] # "good"
      BY SafeIs
    <3>2. /\ SubSeq(index[p], 1, n) \in Seq(Revision) /\ Len(SubSeq(index[p], 1, n)) = n
          /\ \A i \in 1..n : SubSeq(index[p], 1, n)[i] = index[p][i]
          /\ Chain(body, made, p, SubSeq(index[p], 1, n))
      BY ChainPrefix
    <3>3. Recovering(p)
      BY <2>2, <3>1, <3>2 DEF Recovering, Shorter, In
    <3>4. QED
      BY <2>2, <3>3
  <2>3. QED
    BY <1>2, <2>1, <2>2 DEF RecoverIndexed, WriteManifest, Quarantine, Nothing
<1>3. CASE RejectPending(p)
  BY <1>3 DEF RejectPending, WriteManifest, Quarantine
<1>4. CASE FinishPending(p)
  <2>1. CASE index' = index
    BY <2>1
  <2>2. CASE index' # index
    <3> DEFINE r == receipt[p].rev
    <3>1. /\ op.phase = "pending" /\ op.cur = p /\ Confirmed(p) /\ Disqualified(p) = {}
          /\ r \notin Indexed(p) /\ index'[p] = Append(index[p], r)
          /\ UNCHANGED <<file, receipt, body, made>> /\ rejected'[p] = rejected[p]
      BY <1>4, <2>2 DEF FinishPending, WriteManifest, In, Repair, WritePointer, DropReceipt
    <3>2. Appendable(p)
      BY <3>1 DEF Disqualified, Confirmed
    <3>3. receipt[p].state # "none"
      BY <3>1 DEF Confirmed
    <3>4. /\ r \in 1..made /\ body[r].project = p /\ body[r].ordinal = Len(index[p]) + 1
          /\ body[r].parent = 0 \/ \E j \in 1..Len(index[p]) : index[p][j] = body[r].parent
      BY <3>2, <3>3, Members DEF Appendable, Extends, RInv, ReceiptOf
    <3>5. /\ Append(index[p], r) \in Seq(Revision) /\ Len(Append(index[p], r)) = Len(index[p]) + 1
          /\ \A i \in 1..Len(index[p]) : Append(index[p], r)[i] = index[p][i]
          /\ Append(index[p], r)[Len(index[p]) + 1] = r
          /\ Chain(body, made, p, Append(index[p], r))
      BY <3>4, ChainAppend
    <3>6. Grew(body, made, p, index[p], {r}, index'[p]) /\ Len(index'[p]) = Len(index[p]) + 1
      BY <3>1, <3>5 DEF Grew
    <3>7. QED
      BY <3>1, <3>2, <3>6 DEF Finished
  <2>3. QED
    BY <2>1, <2>2
<1>5. CASE RecoverOrphans(p)
  <2>1. CASE index' = index
    BY <2>1
  <2>2. CASE index' # index
    <3>1. /\ op.phase = "orphans" /\ op.cur = p /\ index'[p] = Adopted(index[p], Unindexed(p))
          /\ UNCHANGED <<file, receipt, body, made>>
          /\ \A r \in Unindexed(p) : r \notin rejected[p] /\ file[r] # "bad"
          /\ rejected'[p] = rejected[p] \cup (Unindexed(p) \ ToSet(index'[p]))
      BY <1>5, <2>2 DEF RecoverOrphans, WriteManifest, Quarantine, Nothing, In
    <3>2. Grew(body, made, p, index[p], Unindexed(p), Adopted(index[p], Unindexed(p)))
      BY UnindexedAre, AdoptedIs
    <3>3. QED
      BY <3>1, <3>2, UnindexedAre DEF Adopting
  <2>3. QED
    BY <2>1, <2>2
<1>6. CASE WriteIndex(p)
  <2> DEFINE r == op.rev
  <2>1. /\ op.phase = "index" /\ op.cur = p /\ index'[p] = Append(index[p], r)
        /\ UNCHANGED <<file, receipt, body, made>> /\ rejected'[p] = rejected[p]
    BY <1>6 DEF WriteIndex, WriteManifest, In
  <2>2. /\ r \in 1..made /\ body[r].project = p /\ body[r].ordinal = Len(index[p]) + 1
        /\ body[r].parent = 0 \/ \E j \in 1..Len(index[p]) : index[p][j] = body[r].parent
    BY <2>1 DEF RInv, Saving, Writing
  <2>3. /\ Append(index[p], r) \in Seq(Revision) /\ Len(Append(index[p], r)) = Len(index[p]) + 1
        /\ \A i \in 1..Len(index[p]) : Append(index[p], r)[i] = index[p][i]
        /\ Append(index[p], r)[Len(index[p]) + 1] = r
        /\ Chain(body, made, p, Append(index[p], r))
    BY <2>2, ChainAppend
  <2>4. Grew(body, made, p, index[p], {r}, index'[p]) /\ Len(index'[p]) = Len(index[p]) + 1
    BY <2>1, <2>3 DEF Grew
  <2>5. QED
    BY <2>1, <2>4 DEF Saved
<1>7. CASE RestoreManifest(p)
  <2>1. PICK n \in 0..(Len(index[p]) - 1) :
           /\ index'[p] = SubSeq(index[p], 1, n)
           /\ hit' = hit \cup ToSet(SubSeq(index[p], n + 1, Len(index[p])))
    BY <1>7 DEF RestoreManifest
  <2>2. op = Idle /\ UNCHANGED <<file, receipt, body, made>> /\ health[p] = "ok"
    BY <1>7 DEF RestoreManifest, Harm
  <2>3. n \in 0..Len(index[p])
    OBVIOUS
  <2>4. /\ SubSeq(index[p], 1, n) \in Seq(Revision) /\ Len(SubSeq(index[p], 1, n)) = n
        /\ \A i \in 1..n : SubSeq(index[p], 1, n)[i] = index[p][i]
        /\ Chain(body, made, p, SubSeq(index[p], 1, n))
    BY <2>3, ChainPrefix
  <2>5. ASSUME NEW i \in (n + 1)..Len(index[p]) PROVE index[p][i] \in hit'
    <3> DEFINE t == SubSeq(index[p], n + 1, Len(index[p]))
    <3>1. t \in Seq(Revision) /\ Len(t) = Len(index[p]) - n /\ i - n \in 1..Len(t)
          /\ t[i - n] = index[p][i]
      OBVIOUS
    <3> HIDE DEF t
    <3>2. index[p][i] \in ToSet(t)
      BY <3>1, Members
    <3>3. QED
      BY <2>1, <3>2 DEF t
  <2>6. Restored(p)
    BY <2>1, <2>2, <2>4, <2>5 DEF Restored, Shorter
  <2>7. QED
    BY <2>2, <2>6
<1>8. ASSUME NEW q \in Project, q # p,
             \/ RecoverIndexed(q) \/ RejectPending(q) \/ FinishPending(q)
             \/ RecoverOrphans(q) \/ WriteIndex(q) \/ RestoreManifest(q)
      PROVE  index'[p] = index[p]
  <2>1. index' = index \/ \E s : index' = [index EXCEPT ![q] = s]
    BY <1>8 DEF RecoverIndexed, RejectPending, FinishPending, RecoverOrphans, WriteIndex,
           RestoreManifest, WriteManifest, Quarantine, Nothing, Repair, WritePointer, DropReceipt
  <2>2. QED
    BY <1>8, <2>1
<1>9. QED
  BY <1>1, <1>2, <1>3, <1>4, <1>5, <1>6, <1>7, <1>8, Frames DEF IndexMoves

\* RInv, part by part.
LEMMA Parts ==
  ASSUME RInv
  PROVE  /\ TypeOK /\ Types
         /\ made \in Nat /\ made <= MaxRevision /\ 1..made \subseteq Revision
         /\ \A r \in Revision : MadeOf(r)
         /\ \A p \in Project : ProjectOf(p)
         /\ \A p \in Project : ReceiptOf(p)
         /\ \A p \in Project : Indexed(p) \cap rejected[p] = {}
BY TypesAre, Numbers DEF RInv, RejectedStaysOut, Types

\* Revisions are made one at a time, and what they are stays.
LEMMA MadeStep ==
  ASSUME RInv, Next
  PROVE  /\ made' \in Nat /\ made <= made' /\ made' <= MaxRevision
         /\ made' \in 0..MaxRevision /\ body' \in [Revision -> Bodies]
         /\ \A r \in 1..made : body'[r] = body[r]
         /\ \A r \in Revision : r \notin 1..made' => body'[r] = body[r]
         /\ \A r \in 1..made' : r \notin 1..made => r = made + 1 /\ body'[r].project \in Project
<1>0. Types /\ made \in Nat /\ made <= MaxRevision /\ 1..made \subseteq Revision
  BY Parts
<1> USE <1>0 DEF manifest, revisions, ghosts
<1>1. CASE body' = body /\ made' = made
  BY <1>1, Numbers DEF Types
<1>2. ASSUME NEW q \in Project, Prepare(q), ~ (body' = body /\ made' = made)
      PROVE  /\ made' = made + 1 /\ made + 1 <= MaxRevision
             /\ \E x \in Bodies : x.project = q /\ body' = [body EXCEPT ![made + 1] = x]
  <2> DEFINE parent == IF op.base = 0 THEN Latest(q) ELSE op.base
             x == [project |-> q, parent |-> parent, ordinal |-> Len(index[q]) + 1]
  <2>1. /\ op.kind = "save" /\ op.phase = "read" /\ made' = made + 1
        /\ body' = [body EXCEPT ![made + 1] = x]
    BY <1>2 DEF Prepare, In, Nothing
  <2>2. made < MaxRevision
    BY <2>1 DEF RInv, Saving, Writing
  <2>3. op.base \in 0..MaxRevision
    BY MethodsKeep DEF Types
  <2>4. parent \in 0..MaxRevision
    BY <2>3, Lengths
  <2>5. Len(index[q]) + 1 \in 0..(MaxRevision + 1)
    BY Lengths, Numbers
  <2> HIDE DEF parent
  <2>6. x \in Bodies /\ x.project = q
    BY <2>4, <2>5 DEF Bodies
  <2> HIDE DEF x
  <2>7. made + 1 <= MaxRevision
    BY <2>2, Numbers
  <2>8. QED
    BY <2>1, <2>6, <2>7
<1>3. ASSUME NEW q \in Project, ForeignRevision(q)
      PROVE  /\ made' = made + 1 /\ made + 1 <= MaxRevision
             /\ \E x \in Bodies : x.project = q /\ body' = [body EXCEPT ![made + 1] = x]
  <2>1. PICK parent \in RevisionsOf(q) \cup {0}, n \in 1..(Len(index[q]) + 2) :
           body' = [body EXCEPT ![made + 1] = [project |-> q, parent |-> parent, ordinal |-> n]]
    BY <1>3 DEF ForeignRevision
  <2>2. made' = made + 1 /\ made < MaxRevision
    BY <1>3 DEF ForeignRevision
  <2> DEFINE x == [project |-> q, parent |-> parent, ordinal |-> n]
  <2>3. parent \in 0..MaxRevision
    BY Numbers DEF RevisionsOf
  <2>4. n \in 0..(MaxRevision + 1)
    BY <2>2, Lengths, Numbers
  <2>5. x \in Bodies /\ x.project = q
    BY <2>3, <2>4 DEF Bodies
  <2>6. made + 1 <= MaxRevision
    BY <2>2, Numbers
  <2>7. body' = [body EXCEPT ![made + 1] = x]
    BY <2>1
  <2> HIDE DEF x
  <2>8. QED
    BY <2>2, <2>5, <2>6, <2>7
<1>4. ASSUME NEW q \in Project, made' = made + 1, made + 1 <= MaxRevision,
             NEW x \in Bodies, x.project = q, body' = [body EXCEPT ![made + 1] = x]
      PROVE  /\ made' \in Nat /\ made <= made' /\ made' <= MaxRevision
             /\ made' \in 0..MaxRevision /\ body' \in [Revision -> Bodies]
             /\ \A r \in 1..made : body'[r] = body[r]
             /\ \A r \in Revision : r \notin 1..made' => body'[r] = body[r]
             /\ \A r \in 1..made' : r \notin 1..made => r = made + 1 /\ body'[r].project \in Project
  <2>1. body \in [Revision -> Bodies] /\ made + 1 \in Revision
    BY <1>4, Numbers DEF Types
  <2>2. body'[made + 1] = x /\ \A r \in Revision : r # made + 1 => body'[r] = body[r]
    BY <1>4, <2>1
  <2>3. body' \in [Revision -> Bodies]
    BY <1>4, <2>1
  <2>4. QED
    BY <1>4, <2>1, <2>2, <2>3, Numbers
<1>5. QED
  BY <1>1, <1>2, <1>3, <1>4, Frames DEF RevisionMoves

\* A method that settles or finishes a receipt is about a revision that was made.
LEMMA ReceiptIs ==
  ASSUME RInv, NEW p \in Project
  PROVE  /\ receipt[p] \in Receipts
         /\ receipt[p].state # "none" => receipt[p].rev \in 1..made /\ receipt[p].rev \in Revision
         /\ OnDisk(p) \subseteq 1..made /\ Disqualified(p) \subseteq 1..made
         /\ Disqualified(p) \cap Indexed(p) = {}
<1>1. Types /\ ReceiptOf(p) /\ 1..made \subseteq Revision
  BY Parts
<1>2. receipt[p] \in Receipts
  BY <1>1 DEF Types
<1>3. receipt[p].state # "none" => receipt[p].rev \in 1..made
  BY <1>1 DEF ReceiptOf
<1>4. OnDisk(p) \subseteq 1..made
  BY Parts DEF OnDisk, MadeOf, RevisionsOf
<1>5. Disqualified(p) \subseteq 1..made /\ Disqualified(p) \cap Indexed(p) = {}
  BY <1>3, <1>4 DEF Disqualified, Unindexed
<1>6. QED
  BY <1>1, <1>2, <1>3, <1>4, <1>5

\* A step keeps the types of the manifests.
LEMMA ManifestStep ==
  ASSUME RInv, Next
  PROVE  /\ index' \in [Project -> Seq(Revision)]
         /\ rejected' \in [Project -> SUBSET Revision]
         /\ updated' \in [Project -> 0..(2 * MaxRevision + 1)]
<1>0. /\ Types /\ made \in Nat /\ made <= MaxRevision /\ 1..made \subseteq Revision
      /\ index \in [Project -> Seq(Revision)] /\ rejected \in [Project -> SUBSET Revision]
      /\ updated \in [Project -> 0..(2 * MaxRevision + 1)] /\ op.rev \in 0..MaxRevision
  BY Parts, MethodsKeep DEF Types
<1> DEFINE Written(q) == \E s, j, n : /\ index' = [index EXCEPT ![q] = s]
                                      /\ rejected' = [rejected EXCEPT ![q] = j]
                                      /\ updated' = [updated EXCEPT ![q] = n]
                                      /\ j \in SUBSET Revision /\ n \in 0..(2 * MaxRevision + 1)
           Same == index' = index /\ rejected' = rejected /\ updated' = updated
<1> USE DEF manifest, revisions, ghosts
<1>1. ASSUME NEW q \in Project, RecoverIndexed(q) PROVE Same \/ Written(q)
  <2>1. 2 * made + 1 \in 0..(2 * MaxRevision + 1) /\ rejected[q] \in SUBSET Revision
    BY <1>0, Numbers
  <2>2. QED
    BY <1>1, <2>1 DEF RecoverIndexed, WriteManifest, Quarantine, Nothing
<1>2. ASSUME NEW q \in Project, RejectPending(q) PROVE Same \/ Written(q)
  <2>1. /\ rejected[q] \cup Disqualified(q) \in SUBSET Revision
        /\ updated[q] \in 0..(2 * MaxRevision + 1)
    BY <1>0, ReceiptIs
  <2>2. QED
    BY <1>2, <2>1 DEF RejectPending, WriteManifest, Quarantine
<1>3. ASSUME NEW q \in Project, FinishPending(q) PROVE Same \/ Written(q)
  <2>1. receipt[q].rev \in 0..MaxRevision
    BY <1>0, ReceiptIs DEF Receipts
  <2>2. 2 * receipt[q].rev \in 0..(2 * MaxRevision + 1) /\ rejected[q] \in SUBSET Revision
    BY <1>0, <2>1, Numbers
  <2>3. QED
    BY <1>3, <2>2 DEF FinishPending, WriteManifest, Repair, WritePointer, DropReceipt
<1>4. ASSUME NEW q \in Project, RecoverOrphans(q) PROVE Same \/ Written(q)
  <2> DEFINE ids  == Adopted(index[q], Unindexed(q))
             rest == Unindexed(q) \ ToSet(ids)
             at   == IF rest # {} /\ ids = index[q] THEN updated[q] ELSE 2 * Last(ids)
  <2>1. \/ Same
        \/ /\ Unindexed(q) # {} /\ index' = [index EXCEPT ![q] = ids]
           /\ rejected' = [rejected EXCEPT ![q] = rejected[q] \cup rest]
           /\ updated' = [updated EXCEPT ![q] = at]
    BY <1>4 DEF RecoverOrphans, WriteManifest, Quarantine, Nothing
  <2>2. CASE Same
    BY <2>2
  <2>3. CASE Unindexed(q) # {}
    <3>1. rejected[q] \cup rest \in SUBSET Revision
      BY <1>0, UnindexedAre
    <3>2. Grew(body, made, q, index[q], Unindexed(q), ids)
      BY UnindexedAre, AdoptedIs, Parts, Lengths DEF ProjectOf
    <3>3. ids = <<>> => rest # {} /\ ids = index[q]
      <4>1. SUFFICES ASSUME ids = <<>> PROVE rest # {} /\ ids = index[q]
        OBVIOUS
      <4>2. Len(ids) = 0 /\ ToSet(ids) = {}
        BY <4>1 DEF ToSet
      <4>3. Len(index[q]) = 0
        BY <3>2, <4>2, Lengths DEF Grew
      <4>4. QED
        BY <2>3, <4>1, <4>2, <4>3, IndexedIs, Parts
    <3>4. ids # <<>> => Last(ids) \in Revision
      BY <3>2 DEF Grew, Last
    <3> HIDE DEF ids
    <3>5. at \in 0..(2 * MaxRevision + 1)
      <4>1. updated[q] \in 0..(2 * MaxRevision + 1)
        BY <1>0
      <4>2. ids # <<>> => 2 * Last(ids) \in 0..(2 * MaxRevision + 1)
        BY <3>4, Numbers
      <4>3. QED
        BY <3>3, <4>1, <4>2
    <3> HIDE DEF rest, at
    <3>6. QED
      BY <2>1, <3>1, <3>5
  <2>4. QED
    BY <2>1, <2>2, <2>3
<1>5. ASSUME NEW q \in Project, WriteIndex(q) PROVE Same \/ Written(q)
  <2>1. 2 * op.rev \in 0..(2 * MaxRevision + 1) /\ rejected[q] \in SUBSET Revision
    BY <1>0, Numbers
  <2>2. QED
    BY <1>5, <2>1 DEF WriteIndex, WriteManifest
<1>6. ASSUME NEW q \in Project, RestoreManifest(q)
      PROVE  rejected' = rejected /\ updated' = updated /\ \E s : index' = [index EXCEPT ![q] = s]
  BY <1>6 DEF RestoreManifest
<1> HIDE DEF Written
<1>7. \/ Same \/ \E q \in Project : Written(q)
      \/ /\ rejected' = rejected /\ updated' = updated
         /\ \E q \in Project : \E s : index' = [index EXCEPT ![q] = s]
  BY <1>1, <1>2, <1>3, <1>4, <1>5, <1>6, Frames DEF IndexMoves, ManifestMoves
<1>8. rejected' \in [Project -> SUBSET Revision] /\ updated' \in [Project -> 0..(2 * MaxRevision + 1)]
  BY <1>0, <1>7 DEF Written
<1>9. DOMAIN index' = Project /\ index' = [p \in Project |-> index'[p]]
  BY <1>0, <1>7 DEF Written
<1>10. ASSUME NEW p \in Project PROVE index'[p] \in Seq(Revision)
  BY <1>0, IndexStep DEF Restored, Recovering, Finished, Saved, Adopting, Shorter, Grew
<1>11. QED
  BY <1>8, <1>9, <1>10

\* A step keeps the type of the receipts.
LEMMA ReceiptTypeStep ==
  ASSUME RInv, Next
  PROVE  receipt' \in [Project -> Receipts]
<1>0. /\ receipt \in [Project -> Receipts] /\ made \in Nat /\ made <= MaxRevision
      /\ op.rev \in 0..MaxRevision
  BY Parts, MethodsKeep DEF Types
<1>1. NoReceipt \in Receipts
  BY Numbers DEF NoReceipt, Receipts
<1>2. ASSUME NEW q \in Project PROVE [receipt EXCEPT ![q] = NoReceipt] \in [Project -> Receipts]
  BY <1>0, <1>1
<1>3. ASSUME NEW q \in Project, WriteReceipt(q) PROVE receipt' \in [Project -> Receipts]
  <2> DEFINE x == [state |-> "ok", rev |-> op.rev, count |-> Len(index[q]), latest |-> Latest(q)]
  <2>1. receipt' = [receipt EXCEPT ![q] = x]
    BY <1>3 DEF WriteReceipt
  <2>2. Len(index[q]) \in 0..MaxRevision /\ Latest(q) \in 0..MaxRevision
    BY <1>0, Lengths, Numbers
  <2>3. x \in Receipts
    BY <1>0, <2>2 DEF Receipts
  <2> HIDE DEF x
  <2>4. QED
    BY <1>0, <2>1, <2>3
<1>4. ASSUME NEW q \in Project, SpoilReceipt(q) PROVE receipt' \in [Project -> Receipts]
  <2>1. PICK s \in {"unreadable", "invalid", "mismatched"} : receipt' = [receipt EXCEPT ![q].state = s]
    BY <1>4 DEF SpoilReceipt
  <2>2. [receipt[q] EXCEPT !.state = s] \in Receipts
    BY <1>0 DEF Receipts
  <2>3. receipt' = [receipt EXCEPT ![q] = [receipt[q] EXCEPT !.state = s]]
    BY <2>1
  <2>4. QED
    BY <1>0, <2>2, <2>3
<1>5. ASSUME NEW q \in Project, DropPending(q) \/ FinishPending(q) \/ Commit(q) \/ LoseReceipt(q)
      PROVE  receipt' = receipt \/ receipt' = [receipt EXCEPT ![q] = NoReceipt]
  BY <1>5 DEF DropPending, FinishPending, Commit, LoseReceipt, DropReceipt, WriteManifest, Repair,
        WritePointer
<1>6. QED
  BY <1>0, <1>2, <1>3, <1>4, <1>5, Frames DEF ReceiptMoves

\* A step keeps the type of the pointer.
LEMMA PointerTypeStep ==
  ASSUME RInv, Next
  PROVE  pointer' \in Pointers
<1>0. pointer \in Pointers /\ made \in 0..MaxRevision /\ op \in Methods
  BY Parts DEF Types
<1>1. NoPointer \in Pointers
  BY Numbers DEF NoPointer, Pointers
<1>2. ASSUME NEW q \in Project, NEW r \in 0..MaxRevision
      PROVE  [state |-> "ok", project |-> q, rev |-> r, at |-> made] \in Pointers
  BY <1>0 DEF Pointers
<1>3. ASSUME NEW q \in Project
      PROVE  /\ Latest(q) \in 0..MaxRevision
             /\ [state |-> "ok", project |-> q, rev |-> Latest(q), at |-> made] \in Pointers
  BY <1>2, Lengths
<1>4. op.rev \in 0..MaxRevision
  BY <1>0, MethodsKeep
<1>5. ASSUME NEW q \in Project, FinishPending(q) \/ RepairPointer(q) \/ WriteCurrent(q)
      PROVE  pointer' \in Pointers
  BY <1>0, <1>1, <1>2, <1>3, <1>4, <1>5 DEF FinishPending, RepairPointer, WriteCurrent, Repair,
     WritePointer, DropReceipt, WriteManifest, Nothing
<1>6. CASE CurrentEnds
  <2>1. op.cur \in Project
    BY <1>6 DEF CurrentEnds, RInv, Stage, Working, Past, Recovered, Settling
  <2>2. QED
    BY <1>0, <1>3, <1>6, <2>1 DEF CurrentEnds, WritePointer, Nothing
<1>7. CASE Fall
  BY <1>1, <1>7 DEF Fall, WritePointer
<1>8. CASE Select
  BY <1>0, <1>3, <1>8 DEF Select, WritePointer, Nothing, Listed
<1>9. CASE SpoilPointer
  <2>1. PICK s \in {"bad", "none"} : pointer' = [NoPointer EXCEPT !.state = s]
    BY <1>9 DEF SpoilPointer
  <2>2. QED
    BY <1>1, <2>1 DEF Pointers
<1>10. QED
  BY <1>0, <1>5, <1>6, <1>7, <1>8, <1>9, Frames DEF PointerMoves

\* A step keeps all types.
LEMMA TypeStep ==
  ASSUME RInv, Next
  PROVE  TypeOK'
<1>0. Types /\ 1..made \subseteq Revision
  BY Parts
<1> USE DEF manifest, revisions, ghosts
<1>1. health' \in [Project -> Healths]
  <2>1. ASSUME NEW q \in Project, ReadManifest(q) \/ CreateProject(q) \/ SpoilManifest(q)
        PROVE  \E h \in Healths : health' = [health EXCEPT ![q] = h]
    BY <1>0, <2>1 DEF ReadManifest, CreateProject, SpoilManifest, Types, Healths
  <2>2. QED
    BY <1>0, <2>1, Frames DEF HealthMoves, Types
<1>2. file' \in [Revision -> Files]
  <2>1. ASSUME NEW q \in Project,
               \/ RecoverIndexed(q) \/ RejectPending(q) \/ QuarantinePending(q)
               \/ RecoverOrphans(q) \/ WriteRevision(q) \/ ForeignRevision(q)
        PROVE  file' = file \/ \E r, f : f \in Files /\ file' = [file EXCEPT ![r] = f]
    BY <2>1 DEF RecoverIndexed, RejectPending, QuarantinePending, RecoverOrphans, WriteRevision,
       ForeignRevision, Quarantine, WriteManifest, Nothing, Files
  <2>2. ASSUME NEW x \in Revision, SpoilRevision(x)
        PROVE  \E r, f : f \in Files /\ file' = [file EXCEPT ![r] = f]
    BY <2>2 DEF SpoilRevision, Files
  <2>3. file' = file \/ \E r, f : f \in Files /\ file' = [file EXCEPT ![r] = f]
    BY <2>1, <2>2, Frames DEF FileMoves
  <2>4. QED
    BY <1>0, <2>3 DEF Types
<1>3. damage' \in 0..MaxDamage
  <2>1. DamageMoves => damage < MaxDamage /\ damage' = damage + 1
    BY DEF DamageMoves, SpoilManifest, RestoreManifest, SpoilReceipt, LoseReceipt,
       ForeignRevision, SpoilRevision, SpoilPointer, Harm
  <2>2. QED
    BY <1>0, <2>1, Numbers, Frames DEF Types
<1>4. acked' \subseteq Revision
  <2>1. ASSUME NEW q \in Project, Commit(q) PROVE acked' = acked \cup {op.rev} /\ op.rev \in Revision
    BY <1>0, <2>1 DEF Commit, In, RInv, Saving, Writing
  <2>2. QED
    BY <1>0, <2>1, Frames DEF Types
<1>5. hit' \subseteq Revision
  <2>1. ASSUME NEW q \in Project, SpoilManifest(q) PROVE hit' \subseteq Revision
    BY <1>0, <2>1, Lengths DEF SpoilManifest, Types
  <2>2. ASSUME NEW q \in Project, RestoreManifest(q) PROVE hit' \subseteq Revision
    <3>1. PICK n \in 0..(Len(index[q]) - 1) :
             hit' = hit \cup ToSet(SubSeq(index[q], n + 1, Len(index[q])))
      BY <2>2 DEF RestoreManifest
    <3> DEFINE t == SubSeq(index[q], n + 1, Len(index[q]))
    <3>2. t \in Seq(Revision)
      BY Lengths
    <3> HIDE DEF t
    <3>3. ToSet(t) \subseteq Revision
      BY <3>2, Members
    <3>4. QED
      BY <1>0, <3>1, <3>3 DEF Types, t
  <2>3. ASSUME NEW x \in Revision, SpoilRevision(x) PROVE hit' \subseteq Revision
    BY <1>0, <2>3 DEF SpoilRevision, Types
  <2>4. QED
    BY <1>0, <2>1, <2>2, <2>3, Frames DEF HitMoves, Types
<1>6. op' \in Methods /\ pointer' \in Pointers
  BY MethodStep, PointerTypeStep
<1>7. /\ index' \in [Project -> Seq(Revision)] /\ rejected' \in [Project -> SUBSET Revision]
      /\ updated' \in [Project -> 0..(2 * MaxRevision + 1)]
      /\ receipt' \in [Project -> Receipts]
  BY ManifestStep, ReceiptTypeStep
<1>8. made' \in 0..MaxRevision /\ body' \in [Revision -> Bodies]
  BY MadeStep
<1>9. Types'
  BY <1>1, <1>2, <1>3, <1>4, <1>5, <1>6, <1>7, <1>8 DEF Types
<1>10. QED
  BY <1>9 DEF TypeOK, Types, Healths, Files, Bodies, Receipts, Pointers, Kinds, Methods

------------------------------------------------------------------------------
(* What a step makes of a revision file *)

\* The file is moved away by the recovery of its project.
Quarantined(r) ==
    /\ file'[r] = "quarantined" /\ file[r] \in {"good", "bad"}
    /\ op.cur \in Project /\ r \in OnDisk(op.cur)
    /\ UNCHANGED <<index, receipt, health, made, body, hit, acked, rejected>>
    /\ \/ op.phase = "indexed" /\ r \in Indexed(op.cur) \ ToSet(Safe(op.cur))
       \/ op.phase = "pending" /\ (r \notin Indexed(op.cur) \/ file[r] = "bad")
       \/ op.phase = "orphans" /\ r \in Unindexed(op.cur)

FileStep(r) ==
    \/ file'[r] = file[r]
    \/ Quarantined(r)
    \/ file'[r] = "good" /\ op.phase = "revision" /\ r = op.rev
    \/ op = Idle /\ file'[r] = "bad" /\ file[r] = "good" /\ r \in hit'
    \/ op = Idle /\ file'[r] = "good" /\ r = made + 1 /\ made' = made + 1

\* Every step of every revision file is one of FileStep.
LEMMA FileSteps ==
  ASSUME RInv, Next, NEW r \in Revision
  PROVE  FileStep(r)
<1>0. Types /\ file \in [Revision -> Files]
  BY Parts DEF Types
<1> USE <1>0 DEF manifest, revisions, ghosts, FileStep
<1>1. ASSUME NEW q \in Project, RecoverIndexed(q) PROVE FileStep(r)
  <2>1. \A x \in Indexed(q) : body[x].project = q
    BY Parts, IndexedIs DEF ProjectOf, Chain
  <2>2. QED
    BY <1>1, <2>1 DEF RecoverIndexed, In, Quarantine, WriteManifest, Nothing, Quarantined, OnDisk,
       RevisionsOf
<1>2. ASSUME NEW q \in Project, RejectPending(q) PROVE FileStep(r)
  BY <1>2, ReceiptIs DEF RejectPending, In, Quarantine, WriteManifest, Quarantined, OnDisk
<1>3. ASSUME NEW q \in Project, QuarantinePending(q) PROVE FileStep(r)
  BY <1>3 DEF QuarantinePending, In, Quarantine, Quarantined, Pending, OnDisk
<1>4. ASSUME NEW q \in Project, RecoverOrphans(q) PROVE FileStep(r)
  <2>1. \A x \in Unindexed(q) : x \in OnDisk(q) /\ file[x] \in {"good", "bad"}
    BY DEF Unindexed, OnDisk
  <2>2. QED
    BY <1>4, <2>1 DEF RecoverOrphans, In, Quarantine, WriteManifest, Nothing, Quarantined
<1>5. ASSUME NEW q \in Project, WriteRevision(q) PROVE FileStep(r)
  BY <1>5 DEF WriteRevision, In
<1>6. ASSUME NEW q \in Project, ForeignRevision(q) PROVE FileStep(r)
  BY <1>6 DEF ForeignRevision, Harm
<1>7. ASSUME NEW x \in Revision, SpoilRevision(x) PROVE FileStep(r)
  BY <1>7 DEF SpoilRevision, Harm
<1>8. QED
  BY <1>1, <1>2, <1>3, <1>4, <1>5, <1>6, <1>7, Frames DEF FileMoves

\* A whole revision of a history stays whole, unless it is damaged from outside or
\* comes after one that is not whole.
LEMMA WholeStep ==
  ASSUME RInv, Next, NEW p \in Project, NEW i \in 1..Len(index[p]), file[index[p][i]] = "good"
  PROVE  \/ file'[index[p][i]] = "good"
         \/ op = Idle /\ index[p][i] \in hit'
         \/ op.phase = "indexed" /\ op.cur = p /\ \E j \in 1..i : file[index[p][j]] # "good"
<1> DEFINE r == index[p][i]
<1>0. /\ TypeOK /\ Chain(body, made, p, index[p]) /\ made \in Nat /\ r \in Revision
      /\ index[p] \in Seq(Revision) /\ Len(index[p]) \in Nat
      /\ body[r].project = p /\ r \in Indexed(p)
  <2>1. TypeOK /\ Chain(body, made, p, index[p]) /\ made \in Nat
    BY Parts DEF ProjectOf
  <2>2. QED
    BY <2>1, IndexedIs DEF Chain
<1>1. Quarantined(r) => op.cur = p
  BY <1>0 DEF Quarantined, OnDisk, RevisionsOf
<1>2. CASE Quarantined(r) /\ op.phase = "indexed"
  <2>1. r \notin ToSet(Safe(p)) /\ op.cur = p
    BY <1>1, <1>2 DEF Quarantined
  <2>2. PICK n \in 0..Len(index[p]) :
           /\ Safe(p) = SubSeq(index[p], 1, n)
           /\ n < Len(index[p]) => file[index[p][n + 1]] # "good"
    BY <1>0, SafeIs
  <2>3. n < i
    <3>1. SUFFICES ASSUME i <= n PROVE FALSE
      OBVIOUS
    <3>2. /\ SubSeq(index[p], 1, n) \in Seq(Revision) /\ Len(SubSeq(index[p], 1, n)) = n
          /\ SubSeq(index[p], 1, n)[i] = r
      BY <1>0, <3>1, ChainPrefix
    <3>3. r \in ToSet(Safe(p))
      <4> DEFINE t == SubSeq(index[p], 1, n)
      <4>1. t \in Seq(Revision) /\ i \in 1..Len(t) /\ t[i] = r
        BY <3>1, <3>2
      <4> HIDE DEF t
      <4>2. r \in ToSet(t)
        BY <4>1, Members
      <4>3. QED
        BY <2>2, <4>2 DEF t
    <3>4. QED
      BY <2>1, <3>3
  <2>4. n + 1 \in 1..i /\ file[index[p][n + 1]] # "good"
    BY <1>0, <2>2, <2>3
  <2>5. QED
    BY <1>2, <2>1, <2>4
<1>3. CASE Quarantined(r) /\ op.phase # "indexed"
  BY <1>0, <1>1, <1>3 DEF Quarantined, Unindexed
<1>4. CASE ~Quarantined(r)
  BY <1>0, <1>4, FileSteps DEF FileStep
<1>5. QED
  BY <1>2, <1>3, <1>4

\* The life of a manifest.
LEMMA HealthStep ==
  ASSUME RInv, Next, NEW p \in Project
  PROVE  \/ health'[p] = health[p]
         \/ op = Idle /\ health[p] = "none" /\ health'[p] = "ok"
         \/ /\ op = Idle /\ health[p] = "ok" /\ health'[p] = "bad"
            /\ \A i \in 1..Len(index[p]) : index[p][i] \in hit'
         \/ op.phase = "manifest" /\ health[p] = "bad" /\ health'[p] = "gone"
<1>0. health \in [Project -> Healths]
  BY Parts DEF Types
<1>1. ASSUME NEW q \in Project, SpoilManifest(q)
      PROVE  op = Idle /\ health[q] = "ok" /\ health' = [health EXCEPT ![q] = "bad"]
             /\ \A i \in 1..Len(index[q]) : index[q][i] \in hit'
  BY <1>1, IndexedIs, Parts DEF SpoilManifest, Harm
<1>2. ASSUME NEW q \in Project, CreateProject(q)
      PROVE  op = Idle /\ health[q] = "none" /\ health' = [health EXCEPT ![q] = "ok"]
  BY <1>2 DEF CreateProject
<1>3. ASSUME NEW q \in Project, ReadManifest(q)
      PROVE  /\ op.phase = "manifest"
             /\ health' = [health EXCEPT ![q] = IF health[q] = "bad" THEN "gone" ELSE health[q]]
  BY <1>3 DEF ReadManifest, In
<1>4. QED
  BY <1>0, <1>1, <1>2, <1>3, Frames DEF HealthMoves

\* What is not made yet stays nowhere.
LEMMA MadeOfStep ==
  ASSUME RInv, Next, NEW r \in Revision
  PROVE  MadeOf(r)'
<1>0. MadeOf(r) /\ made \in Nat /\ (op.phase = "revision" => op.rev \in 1..made)
  BY Parts DEF RInv, Saving, Writing
<1>1. ASSUME r \notin 1..made' PROVE body'[r] = NoBody /\ file'[r] = "none"
  <2>1. r \notin 1..made /\ body'[r] = body[r]
    BY <1>0, <1>1, MadeStep
  <2>2. r # made + 1 \/ made' # made + 1
    BY <1>0, <1>1
  <2>3. file'[r] = file[r]
    BY <1>0, <2>1, <2>2, FileSteps DEF FileStep, Quarantined, MadeOf
  <2>4. QED
    BY <1>0, <2>1, <2>3 DEF MadeOf
<1>2. ASSUME r \in 1..made' PROVE body'[r].project \in Project
  BY <1>0, <1>2, MadeStep DEF MadeOf
<1>3. QED
  BY <1>1, <1>2 DEF MadeOf

\* What a step adds to the rejected revisions of a project.
LEMMA RejectedStep ==
  ASSUME RInv, Next, NEW p \in Project
  PROVE  \/ rejected'[p] = rejected[p]
         \/ /\ op.phase = "pending" /\ op.cur = p /\ index'[p] = index[p]
            /\ rejected'[p] = rejected[p] \cup Disqualified(p)
         \/ /\ op.phase = "orphans" /\ op.cur = p
            /\ rejected'[p] = rejected[p] \cup (Unindexed(p) \ ToSet(index'[p]))
<1>0. /\ rejected \in [Project -> SUBSET Revision]
      /\ index \in [Project -> Seq(Revision)]
  BY Parts DEF Types
<1> USE <1>0 DEF manifest, revisions, ghosts
<1>1. ASSUME NEW q \in Project, RecoverIndexed(q) PROVE rejected'[p] = rejected[p]
  BY <1>1 DEF RecoverIndexed, WriteManifest, Quarantine, Nothing
<1>2. ASSUME NEW q \in Project, RejectPending(q)
      PROVE  \/ rejected'[p] = rejected[p]
             \/ /\ op.phase = "pending" /\ op.cur = p /\ index'[p] = index[p]
                /\ rejected'[p] = rejected[p] \cup Disqualified(p)
  BY <1>2 DEF RejectPending, WriteManifest, Quarantine, In
<1>3. ASSUME NEW q \in Project, FinishPending(q) PROVE rejected'[p] = rejected[p]
  BY <1>3 DEF FinishPending, WriteManifest, Repair, WritePointer, DropReceipt
<1>4. ASSUME NEW q \in Project, RecoverOrphans(q)
      PROVE  \/ rejected'[p] = rejected[p]
             \/ /\ op.phase = "orphans" /\ op.cur = p
                /\ rejected'[p] = rejected[p] \cup (Unindexed(p) \ ToSet(index'[p]))
  BY <1>4 DEF RecoverOrphans, WriteManifest, Quarantine, Nothing, In
<1>5. ASSUME NEW q \in Project, WriteIndex(q) PROVE rejected'[p] = rejected[p]
  BY <1>5 DEF WriteIndex, WriteManifest
<1>6. QED
  BY <1>1, <1>2, <1>3, <1>4, <1>5, Frames DEF ManifestMoves

\* What a step makes of the receipt of a project.
LEMMA ReceiptStep ==
  ASSUME RInv, Next, NEW p \in Project
  PROVE  \/ receipt'[p] = receipt[p]
         \/ receipt'[p].state = "none"
         \/ /\ op.phase = "receipt" /\ op.cur = p
            /\ receipt'[p] = [state |-> "ok", rev |-> op.rev, count |-> Len(index[p]),
                              latest |-> Latest(p)]
         \/ /\ op = Idle /\ receipt[p].state # "none" /\ receipt'[p].state # "ok"
            /\ receipt'[p].rev = receipt[p].rev /\ receipt'[p].count = receipt[p].count
            /\ receipt'[p].latest = receipt[p].latest
<1>0. receipt \in [Project -> Receipts]
  BY Parts DEF Types
<1>1. ASSUME NEW q \in Project, DropPending(q) \/ FinishPending(q) \/ Commit(q) \/ LoseReceipt(q)
      PROVE  receipt' = receipt \/ receipt' = [receipt EXCEPT ![q] = NoReceipt]
  BY <1>1 DEF DropPending, FinishPending, Commit, LoseReceipt, DropReceipt, WriteManifest, Repair,
        WritePointer
<1>2. ASSUME NEW q \in Project, WriteReceipt(q)
      PROVE  /\ op.phase = "receipt" /\ op.cur = q
             /\ receipt' = [receipt EXCEPT ![q] =
                  [state |-> "ok", rev |-> op.rev, count |-> Len(index[q]), latest |-> Latest(q)]]
  BY <1>2 DEF WriteReceipt, In
<1>3. ASSUME NEW q \in Project, SpoilReceipt(q)
      PROVE  /\ op = Idle /\ receipt[q].state # "none"
             /\ \E s \in {"unreadable", "invalid", "mismatched"} :
                  receipt' = [receipt EXCEPT ![q].state = s]
  BY <1>3 DEF SpoilReceipt, Harm
<1>4. NoReceipt.state = "none"
  BY DEF NoReceipt
<1>5. ASSUME NEW s, NEW q \in Project, receipt' = [receipt EXCEPT ![q].state = s],
             s \in {"unreadable", "invalid", "mismatched"}
      PROVE  \/ receipt'[p] = receipt[p]
             \/ /\ p = q /\ receipt'[p].state # "ok" /\ receipt'[p].rev = receipt[p].rev
                /\ receipt'[p].count = receipt[p].count /\ receipt'[p].latest = receipt[p].latest
  BY <1>0, <1>5 DEF Receipts
<1>6. QED
  BY <1>0, <1>1, <1>2, <1>3, <1>4, <1>5, Frames DEF ReceiptMoves

\* Every step keeps the histories of the projects.
LEMMA ProjectStep ==
  ASSUME RInv, Next, NEW p \in Project
  PROVE  ProjectOf(p)'
<1>0. /\ ProjectOf(p) /\ Types /\ made \in Nat /\ Stage
      /\ index[p] \in Seq(Revision) /\ Len(index[p]) \in Nat /\ health \in [Project -> Healths]
  BY Parts, Lengths DEF RInv, Types
<1>a. made' \in Nat /\ made <= made' /\ \A r \in 1..made : body'[r] = body[r]
  BY MadeStep
<1>1. Chain(body', made', p, index'[p])
  <2>1. CASE index'[p] = index[p]
    <3>1. Chain(body', made', p, index[p])
      BY <1>0, <1>a, ChainKept DEF ProjectOf
    <3>2. QED
      BY <2>1, <3>1
  <2>2. CASE index'[p] # index[p]
    BY <2>2, IndexStep DEF Restored, Recovering, Finished, Saved, Adopting, Shorter, Grew
  <2>3. QED
    BY <2>1, <2>2
<1>2. rejected'[p] \subseteq 1..made'
  <2>1. rejected[p] \subseteq 1..made /\ 1..made \subseteq 1..made'
    BY <1>0, <1>a DEF ProjectOf
  <2>2. QED
    BY <2>1, RejectedStep, ReceiptIs, UnindexedAre
<1>3. ASSUME health'[p] = "none"
      PROVE  /\ index'[p] = <<>> /\ rejected'[p] = {} /\ receipt'[p].state = "none"
             /\ \A r \in 1..made' : body'[r].project # p
  <2>1. health[p] = "none"
    BY <1>3, HealthStep
  <2>2. /\ index[p] = <<>> /\ rejected[p] = {} /\ receipt[p].state = "none"
        /\ \A r \in 1..made : body[r].project # p
    BY <1>0, <2>1 DEF ProjectOf
  <2>3. op.phase \in Working \ {"manifest"} => op.cur # p
    BY <1>0, <2>1 DEF Stage
  <2>4. index'[p] = index[p]
    BY <2>1, <2>3, IndexStep DEF Restored, Recovering, Finished, Saved, Adopting, Working, Past,
       Recovered, Writing
  <2>5. rejected'[p] = rejected[p]
    BY <2>3, RejectedStep DEF Working, Past, Recovered
  <2>6. receipt'[p].state = "none"
    BY <2>2, <2>3, ReceiptStep DEF Working, Past, Writing
  <2>7. \A r \in 1..made' : body'[r].project # p
    <3>1. CASE body' = body /\ made' = made
      BY <2>2, <3>1
    <3>2. ASSUME NEW q \in Project, Prepare(q), ~ (body' = body /\ made' = made)
          PROVE  /\ q # p
                 /\ \E parent, n : body' = [body EXCEPT ![made + 1] =
                      [project |-> q, parent |-> parent, ordinal |-> n]]
      <4> DEFINE parent == IF op.base = 0 THEN Latest(q) ELSE op.base
      <4>1. /\ op.phase = "read" /\ op.cur = q
            /\ body' = [body EXCEPT ![made + 1] =
                  [project |-> q, parent |-> parent, ordinal |-> Len(index[q]) + 1]]
        BY <3>2 DEF Prepare, In, Nothing, manifest, revisions, ghosts
      <4>2. q # p
        BY <2>3, <4>1 DEF Working, Past, Recovered, Settling
      <4> HIDE DEF parent
      <4>3. QED
        BY <4>1, <4>2
    <3>3. ASSUME NEW q \in Project, ForeignRevision(q)
          PROVE  /\ q # p
                 /\ \E parent, n : body' = [body EXCEPT ![made + 1] =
                      [project |-> q, parent |-> parent, ordinal |-> n]]
      BY <2>1, <3>3 DEF ForeignRevision
    <3>4. body \in [Revision -> Bodies] /\ made' <= MaxRevision /\ 1..made' \subseteq Revision
      BY <1>0, MadeStep, Numbers DEF Types
    <3>5. ASSUME NEW q, q # p, NEW parent, NEW n,
                 body' = [body EXCEPT ![made + 1] = [project |-> q, parent |-> parent, ordinal |-> n]],
                 NEW r \in 1..made'
          PROVE  body'[r].project # p
      <4>1. CASE r \in 1..made
        BY <1>a, <2>2, <4>1
      <4>2. CASE r \notin 1..made
        BY <3>4, <3>5, <4>2, MadeStep
      <4>3. QED
        BY <4>1, <4>2
    <3>6. CASE RevisionMoves /\ ~ (body' = body /\ made' = made)
      <4>1. PICK q \in Project : /\ q # p
                                /\ \E parent, n : body' = [body EXCEPT ![made + 1] =
                                     [project |-> q, parent |-> parent, ordinal |-> n]]
        BY <3>2, <3>3, <3>6 DEF RevisionMoves
      <4>2. QED
        BY <3>5, <4>1
    <3>7. QED
      BY <3>1, <3>6, Frames
  <2>8. QED
    BY <2>2, <2>4, <2>5, <2>6, <2>7
<1>4. QED
  BY <1>1, <1>2, <1>3 DEF ProjectOf

\* No step indexes what was rejected, or rejects what is indexed.
LEMMA RejectedOutStep ==
  ASSUME RInv, Next
  PROVE  RejectedStaysOut'
<1>1. SUFFICES ASSUME NEW p \in Project, NEW x \in ToSet(index'[p]), x \in rejected'[p]
               PROVE  FALSE
  BY DEF RejectedStaysOut, Indexed
<1>2. /\ index[p] \in Seq(Revision) /\ index'[p] \in Seq(Revision) /\ Indexed(p) \cap rejected[p] = {}
      /\ \A y : y \in Indexed(p) <=> \E i \in 1..Len(index[p]) : index[p][i] = y
      /\ Len(index[p]) \in Nat
  BY Parts, IndexedIs, ManifestStep
<1>3. PICK i \in 1..Len(index'[p]) : index'[p][i] = x
  BY <1>2, Members
<1>4. CASE index'[p] = index[p]
  BY <1>1, <1>2, <1>3, <1>4, RejectedStep, ReceiptIs
<1>5. CASE Restored(p) \/ Recovering(p)
  <2>1. x \in Indexed(p)
    BY <1>2, <1>3, <1>5 DEF Restored, Recovering, Shorter
  <2>2. op.phase \in {"idle", "indexed"}
    BY <1>5 DEF Restored, Recovering, Idle
  <2>3. QED
    BY <1>1, <1>2, <2>1, <2>2, RejectedStep
<1>6. ASSUME NEW S, Grew(body, made, p, index[p], S, index'[p])
      PROVE  x \in Indexed(p) \/ x \in S
  BY <1>2, <1>3, <1>6 DEF Grew
<1>7. CASE Finished(p)
  <2>1. receipt[p].rev \notin rejected[p]
    BY <1>2, <1>7, Parts DEF Finished, ReceiptOf, Confirmed, Appendable
  <2>2. QED
    BY <1>1, <1>2, <1>6, <1>7, <2>1 DEF Finished
<1>8. CASE Saved(p)
  <2>1. op.rev \notin rejected[p]
    BY <1>8 DEF Saved, RInv, Saving, Writing
  <2>2. QED
    BY <1>1, <1>2, <1>6, <1>8, <2>1 DEF Saved
<1>9. CASE Adopting(p)
  BY <1>1, <1>2, <1>6, <1>9 DEF Adopting
<1>10. QED
  BY <1>4, <1>5, <1>7, <1>8, <1>9, IndexStep

\* Every step keeps what ties a receipt to the index.
LEMMA ReceiptOfStep ==
  ASSUME RInv, Next, NEW p \in Project
  PROVE  ReceiptOf(p)'
<1> DEFINE t == receipt[p]
<1>0. /\ ReceiptOf(p) /\ TypeOK /\ Types /\ Stage /\ Saving /\ made \in Nat /\ ProjectOf(p)
      /\ index[p] \in Seq(Revision) /\ Len(index[p]) \in Nat
      /\ index'[p] \in Seq(Revision) /\ Len(index'[p]) \in Nat
      /\ receipt[p] \in Receipts /\ receipt[p].count \in Nat
  BY Parts, Lengths, ManifestStep, ReceiptIs DEF RInv, Receipts
<1>a. made' \in Nat /\ made <= made' /\ \A r \in 1..made : body'[r] = body[r]
  BY MadeStep
\* A receipt that stays, but for its state.
<1>1. ASSUME receipt'[p].state # "none", t.state # "none", t.rev = receipt'[p].rev,
             t.count = receipt'[p].count, t.latest = receipt'[p].latest,
             receipt'[p].state = "ok" => t.state = "ok"
      PROVE  ReceiptOf(p)'
  <2>1. /\ t.rev \in 1..made /\ body[t.rev].project = p /\ body[t.rev].ordinal = t.count + 1
        /\ Len(index[p]) <= t.count + 1
        /\ Len(index[p]) = t.count + 1 => index[p][t.count + 1] = t.rev
        /\ Len(index[p]) >= t.count
              => /\ t.count = 0 => t.latest = 0
                 /\ t.count # 0 => t.latest = index[p][t.count]
                 /\ body[t.rev].parent = 0 => t.count = 0
                 /\ body[t.rev].parent # 0
                      => \E j \in 1..t.count : index[p][j] = body[t.rev].parent
        /\ t.state = "ok" /\ t.rev \in rejected[p] => Len(index[p]) < t.count
    BY <1>0, <1>1 DEF ReceiptOf
  <2>2. body'[t.rev] = body[t.rev] /\ t.rev \in 1..made'
    BY <1>0, <1>a, <2>1
  <2>3. op.phase # "orphans" \/ op.cur # p
    BY <1>0, <1>1 DEF Stage, Recovered
  \* All but the last conjunct, from what the step makes of the index.
  <2> DEFINE Holds(u) ==
        /\ Len(u) <= t.count + 1
        /\ Len(u) = t.count + 1 => u[t.count + 1] = t.rev
        /\ Len(u) >= t.count
              => /\ t.count = 0 => t.latest = 0
                 /\ t.count # 0 => t.latest = u[t.count]
                 /\ body[t.rev].parent = 0 => t.count = 0
                 /\ body[t.rev].parent # 0
                      => \E j \in 1..t.count : u[j] = body[t.rev].parent
  <2>4. CASE index'[p] = index[p]
    <3>1. Holds(index'[p])
      BY <2>1, <2>4
    <3>2. t.state = "ok" /\ t.rev \in rejected'[p] => Len(index'[p]) < t.count
      <4>1. SUFFICES ASSUME t.state = "ok", t.rev \in rejected'[p], t.rev \notin rejected[p]
                     PROVE  Len(index'[p]) < t.count
        BY <2>1, <2>4
      <4>2. t.rev \in Disqualified(p)
        BY <2>3, <4>1, RejectedStep
      <4>3. t.rev \notin Indexed(p) /\ ~Appendable(p)
        BY <4>1, <4>2 DEF Disqualified
      <4>4. Len(index[p]) # t.count + 1
        BY <1>0, <2>1, <4>3, IndexedIs
      <4>5. Len(index[p]) # t.count
        <5>1. SUFFICES ASSUME Len(index[p]) = t.count PROVE Appendable(p)
          BY <4>3
        <5>2. Latest(p) = t.latest
          BY <1>0, <2>1, <5>1, IndexedIs
        <5>3. /\ body[t.rev].ordinal = Len(index[p]) + 1
              /\ body[t.rev].parent \in ToSet(index[p]) \cup {0}
              /\ body[t.rev].parent = 0 => index[p] = <<>>
          BY <1>0, <2>1, <5>1, IndexedIs, Members
        <5>4. QED
          BY <5>1, <5>2, <5>3 DEF Appendable, Extends
      <4>6. QED
        BY <1>0, <2>1, <2>4, <4>4, <4>5
    <3>3. QED
      BY <1>1, <2>1, <2>2, <3>1, <3>2 DEF ReceiptOf
  <2>5. CASE Restored(p) \/ Recovering(p)
    <3>1. /\ Len(index'[p]) <= Len(index[p])
          /\ \A i \in 1..Len(index'[p]) : index'[p][i] = index[p][i]
      BY <2>5 DEF Restored, Recovering, Shorter
    <3>2. rejected'[p] = rejected[p]
      BY <2>5, RejectedStep DEF Restored, Recovering, Idle
    <3>3. Holds(index'[p])
      <4>1. Len(index'[p]) <= t.count + 1
        BY <1>0, <2>1, <3>1
      <4>2. Len(index'[p]) = t.count + 1 => index'[p][t.count + 1] = t.rev
        BY <1>0, <2>1, <3>1
      <4>3. ASSUME Len(index'[p]) >= t.count
            PROVE  \A j \in 1..t.count : index'[p][j] = index[p][j]
        BY <1>0, <3>1, <4>3
      <4>4. Len(index'[p]) >= t.count => Len(index[p]) >= t.count
        BY <1>0, <3>1
      <4>5. t.count # 0 => t.count \in 1..t.count
        BY <1>0
      <4>6. QED
        BY <2>1, <4>1, <4>2, <4>3, <4>4, <4>5
    <3>4. t.state = "ok" /\ t.rev \in rejected'[p] => Len(index'[p]) < t.count
      BY <1>0, <2>1, <3>1, <3>2
    <3>5. QED
      BY <1>1, <2>1, <2>2, <3>3, <3>4 DEF ReceiptOf
  <2>6. ASSUME Finished(p) \/ Saved(p) PROVE ReceiptOf(p)'
    <3>1. /\ Grew(body, made, p, index[p], {t.rev}, index'[p])
          /\ Len(index'[p]) = Len(index[p]) + 1 /\ rejected'[p] = rejected[p]
      BY <1>0, <2>6 DEF Finished, Saved, Saving, Writing
    <3>2. Len(index[p]) = t.count
      <4>1. CASE Finished(p)
        BY <4>1 DEF Finished, Appendable
      <4>2. CASE Saved(p)
        BY <1>0, <2>1, <4>2 DEF Saved, Saving, Writing
      <4>3. QED
        BY <2>6, <4>1, <4>2
    <3>3. \A i \in 1..t.count : index'[p][i] = index[p][i]
      BY <3>1, <3>2 DEF Grew
    <3>4. index'[p][t.count + 1] = t.rev
      BY <1>0, <3>1, <3>2 DEF Grew
    <3>5. Len(index[p]) >= t.count /\ (t.count # 0 => t.count \in 1..t.count)
      BY <1>0, <3>2
    <3>6. Holds(index'[p])
      <4>1. Len(index'[p]) <= t.count + 1
        BY <1>0, <3>1, <3>2
      <4>2. /\ t.count = 0 => t.latest = 0
            /\ t.count # 0 => t.latest = index'[p][t.count]
        BY <2>1, <3>3, <3>5
      <4>3. /\ body[t.rev].parent = 0 => t.count = 0
            /\ body[t.rev].parent # 0
                  => \E j \in 1..t.count : index'[p][j] = body[t.rev].parent
        BY <2>1, <3>3, <3>5
      <4>4. QED
        BY <3>4, <4>1, <4>2, <4>3
    <3>7. t.state = "ok" => t.rev \notin rejected'[p]
      BY <1>0, <2>1, <3>1, <3>2
    <3>8. QED
      BY <1>1, <2>1, <2>2, <3>6, <3>7 DEF ReceiptOf
  <2>7. ~ Adopting(p)
    BY <2>3 DEF Adopting
  <2>8. QED
    BY <2>4, <2>5, <2>6, <2>7, IndexStep
\* The receipt of a save.
<1>2. ASSUME op.phase = "receipt", op.cur = p,
             receipt'[p] = [state |-> "ok", rev |-> op.rev, count |-> Len(index[p]),
                            latest |-> Latest(p)]
      PROVE  ReceiptOf(p)'
  <2>1. index'[p] = index[p] /\ rejected'[p] = rejected[p]
    BY <1>2, IndexStep, RejectedStep DEF Restored, Recovering, Finished, Saved, Adopting, Idle
  <2>2. /\ op.rev \in 1..made /\ op.rev \notin rejected[p]
        /\ body[op.rev].project = p
        /\ body[op.rev].ordinal = Len(index[p]) + 1
        /\ body[op.rev].parent = 0 => index[p] = <<>>
        /\ body[op.rev].parent # 0
             => \E j \in 1..Len(index[p]) : index[p][j] = body[op.rev].parent
    BY <1>0, <1>2 DEF Saving, Writing
  <2>3. body'[op.rev] = body[op.rev] /\ op.rev \in 1..made'
    BY <1>0, <1>a, <2>2
  <2>4. /\ Len(index[p]) = 0 => Latest(p) = 0
        /\ Len(index[p]) # 0 => Latest(p) = index[p][Len(index[p])]
        /\ index[p] = <<>> => Len(index[p]) = 0
    BY <1>0, IndexedIs
  <2>5. /\ receipt'[p].rev = op.rev /\ receipt'[p].count = Len(index[p])
        /\ receipt'[p].latest = Latest(p) /\ receipt'[p].state = "ok"
    BY <1>2
  <2>6. Len(index[p]) <= Len(index[p]) + 1 /\ Len(index[p]) # Len(index[p]) + 1
    BY <1>0
  <2>7. QED
    BY <2>1, <2>2, <2>3, <2>4, <2>5, <2>6 DEF ReceiptOf
<1>3. CASE receipt'[p].state = "none"
  BY <1>3 DEF ReceiptOf
<1>4. QED
  BY <1>1, <1>2, <1>3, ReceiptStep

\* The latest revision of a project was made for it.
LEMMA LatestIs ==
  ASSUME RInv, NEW p \in Project, Latest(p) # 0 \/ index[p] # <<>>
  PROVE  /\ Latest(p) \in 1..made /\ body[Latest(p)].project = p /\ Latest(p) \in Indexed(p)
         /\ health[p] # "none"
<1>1. Len(index[p]) \in 1..Len(index[p]) /\ Latest(p) = index[p][Len(index[p])] /\ index[p] # <<>>
  BY IndexedIs, Parts
<1>2. QED
  BY <1>1, IndexedIs, Parts DEF ProjectOf, Chain

\* Every step leaves the pointer at a revision of a project that was created.
LEMMA PointerOfStep ==
  ASSUME RInv, Next
  PROVE  PointerOf'
<1> DEFINE Good(x) == /\ x.project \in Project /\ x.rev \in 1..made /\ x.rev <= x.at /\ x.at <= made
                      /\ body[x.rev].project = x.project /\ health[x.project] # "none"
<1>0. /\ Types /\ made \in Nat /\ PointerOf /\ Stage /\ Saving
  BY Parts DEF RInv
<1>a. made' \in Nat /\ made <= made' /\ \A r \in 1..made : body'[r] = body[r]
  BY MadeStep
<1>1. ASSUME NEW q \in Project, Latest(q) # 0
      PROVE  Good([state |-> "ok", project |-> q, rev |-> Latest(q), at |-> made])
  BY <1>0, <1>1, LatestIs
<1>2. ASSUME pointer'.state = "ok" PROVE Good(pointer')
  <2>1. CASE pointer' = pointer
    BY <1>0, <1>2, <2>1 DEF PointerOf
  <2>2. ASSUME NEW q \in Project, FinishPending(q) PROVE Good(pointer')
    <3>1. CASE pointer' = pointer
      BY <2>1, <3>1
    <3>2. CASE pointer' # pointer
      <4>1. receipt[q].rev \in Indexed(q)
            /\ pointer' = [state |-> "ok", project |-> q, rev |-> Latest(q), at |-> made]
        <5>1. receipt[q].rev \in Indexed(q) /\ Repair(q)
          BY <2>2, <3>2 DEF FinishPending, WriteManifest, DropReceipt
        <5>2. QED
          BY <1>2, <5>1 DEF Repair, WritePointer, NoPointer
      <4>2. Latest(q) # 0
        BY <4>1, IndexedIs, Parts, Numbers
      <4>3. QED
        BY <1>1, <4>1, <4>2
    <3>3. QED
      BY <3>1, <3>2
  <2>3. ASSUME NEW q \in Project, RepairPointer(q) PROVE Good(pointer')
    <3>1. \/ pointer' = pointer
          \/ /\ Latest(q) # 0
             /\ pointer' = [state |-> "ok", project |-> q, rev |-> Latest(q), at |-> made]
      BY <1>2, <2>3 DEF RepairPointer, Repair, WritePointer, NoPointer, Nothing
    <3>2. QED
      BY <1>1, <2>1, <3>1
  <2>4. ASSUME NEW q \in Project, WriteCurrent(q) PROVE Good(pointer')
    <3>1. /\ op.phase = "select" /\ op.cur = q
          /\ pointer' = [state |-> "ok", project |-> q, rev |-> op.rev, at |-> made]
      BY <2>4 DEF WriteCurrent, In, WritePointer
    <3>2. op.rev = made /\ op.rev \in 1..made /\ op.rev = index[q][Len(index[q])]
          /\ Len(index[q]) = body[op.rev].ordinal
      BY <1>0, <3>1 DEF Saving, Writing
    <3>3. health[q] = "ok"
      BY <1>0, <3>1 DEF Stage, Working, Past, Writing
    <3>4. Len(index[q]) # 0
      <4>1. SUFFICES ASSUME Len(index[q]) = 0 PROVE FALSE
        OBVIOUS
      <4>2. receipt[q].rev = op.rev /\ receipt[q].state = "ok" /\ ReceiptOf(q)
        BY <1>0, <3>1, Parts DEF Saving, Writing
      <4>3. receipt[q].count \in Nat /\ body[op.rev].ordinal = receipt[q].count + 1
        BY <4>2, ReceiptIs, Numbers DEF ReceiptOf, Receipts
      <4>4. QED
        BY <3>2, <4>1, <4>3
    <3>5. body[op.rev].project = q
      <4>1. Len(index[q]) \in 1..Len(index[q])
        BY <3>4, IndexedIs, Parts
      <4>2. body[index[q][Len(index[q])]].project = q
        BY <4>1, Parts DEF ProjectOf, Chain
      <4>3. QED
        BY <3>2, <4>2
    <3>6. QED
      BY <1>0, <3>1, <3>2, <3>3, <3>5
  <2>5. CASE CurrentEnds
    <3>1. op.cur \in Project
      BY <1>0, <2>5 DEF CurrentEnds, Stage, Working, Past, Recovered, Settling
    <3>2. \/ pointer' = pointer
          \/ /\ Latest(op.cur) # 0
             /\ pointer' = [state |-> "ok", project |-> op.cur, rev |-> Latest(op.cur), at |-> made]
      BY <2>5 DEF CurrentEnds, WritePointer, Nothing
    <3>3. QED
      BY <1>1, <2>1, <3>1, <3>2
  <2>6. CASE Fall
    BY <1>2, <2>6 DEF Fall, WritePointer, NoPointer
  <2>7. CASE Select
    <3>1. \/ pointer' = pointer
          \/ \E q \in Project :
               /\ Latest(q) # 0
               /\ pointer' = [state |-> "ok", project |-> q, rev |-> Latest(q), at |-> made]
      BY <2>7 DEF Select, WritePointer, Nothing, Listed
    <3>2. QED
      BY <1>1, <2>1, <3>1
  <2>8. CASE SpoilPointer
    BY <1>2, <2>8 DEF SpoilPointer, NoPointer
  <2>9. QED
    BY <2>1, <2>2, <2>3, <2>4, <2>5, <2>6, <2>7, <2>8, Frames DEF PointerMoves
<1>3. ASSUME Good(pointer')
      PROVE  /\ pointer'.project \in Project
             /\ pointer'.rev \in 1..made' /\ pointer'.rev <= pointer'.at /\ pointer'.at <= made'
             /\ body'[pointer'.rev].project = pointer'.project
             /\ health'[pointer'.project] # "none"
  <2>1. pointer' \in Pointers
    BY PointerTypeStep
  <2>2. pointer'.at \in Nat
    BY <2>1, Numbers DEF Pointers
  <2>3. pointer'.at <= made'
    BY <1>0, <1>a, <1>3, <2>2
  <2>4. body'[pointer'.rev] = body[pointer'.rev] /\ pointer'.rev \in 1..made'
    BY <1>0, <1>a, <1>3
  <2>5. health'[pointer'.project] # "none"
    BY <1>3, HealthStep
  <2>6. QED
    BY <1>3, <2>3, <2>4, <2>5
<1> HIDE DEF Good
<1>4. QED
  BY <1>2, <1>3 DEF PointerOf

\* Only revisions that were made are damaged, and stay so.
LEMMA HitStep ==
  ASSUME RInv, Next
  PROVE  hit \subseteq hit' /\ hit' \subseteq 1..made'
<1>0. hit \subseteq 1..made /\ made \in Nat /\ made' \in Nat /\ made <= made'
  BY Parts, MadeStep DEF RInv
<1>1. ASSUME NEW q \in Project, SpoilManifest(q) PROVE hit \subseteq hit' /\ hit' \subseteq 1..made
  <2>1. \A x \in Indexed(q) : x \in 1..made
    BY IndexedIs, Parts DEF ProjectOf, Chain
  <2>2. QED
    BY <1>0, <1>1, <2>1 DEF SpoilManifest
<1>2. ASSUME NEW q \in Project, RestoreManifest(q) PROVE hit \subseteq hit' /\ hit' \subseteq 1..made
  <2>1. PICK n \in 0..(Len(index[q]) - 1) :
           hit' = hit \cup ToSet(SubSeq(index[q], n + 1, Len(index[q])))
    BY <1>2 DEF RestoreManifest
  <2> DEFINE t == SubSeq(index[q], n + 1, Len(index[q]))
  <2>2. /\ t \in Seq(Revision) /\ Len(t) = Len(index[q]) - n
        /\ \A i \in 1..Len(t) : t[i] = index[q][n + i]
    BY Lengths
  <2> HIDE DEF t
  <2>3. \A i \in 1..Len(t) : n + i \in 1..Len(index[q])
    BY <2>2, Lengths
  <2>4. \A x \in ToSet(t) : x \in 1..made
    BY <2>2, <2>3, Members, Parts DEF ProjectOf, Chain
  <2>5. QED
    BY <1>0, <2>1, <2>4 DEF t
<1>3. ASSUME NEW x \in Revision, SpoilRevision(x) PROVE hit \subseteq hit' /\ hit' \subseteq 1..made
  BY <1>0, <1>3, Parts DEF SpoilRevision, MadeOf
<1>4. hit \subseteq hit' /\ hit' \subseteq 1..made
  BY <1>0, <1>1, <1>2, <1>3, Frames DEF HitMoves
<1>5. QED
  BY <1>0, <1>4

\* What a save has returned stays in the index, or is damaged.
LEMMA AckedStep ==
  ASSUME RInv, Next, NEW x \in acked'
  PROVE  AckedOf(x)'
<1>0. /\ made \in Nat /\ Types /\ Stage /\ Saving /\ hit \subseteq 1..made
  BY Parts DEF RInv
<1>a. made' \in Nat /\ made <= made' /\ \A r \in 1..made : body'[r] = body[r]
  BY MadeStep
<1>b. PICK p, k : p = body[x].project /\ k = body[x].ordinal
  OBVIOUS
<1>1. x \in 1..made /\ (Hit(x) \/ Kept(p, x))
  <2>1. CASE x \in acked
    BY <1>b, <2>1 DEF RInv, AckedOf
  <2>2. ASSUME NEW q \in Project, Commit(q), x \notin acked PROVE x \in 1..made /\ Kept(p, x)
    <3>1. op.phase = "commit" /\ op.cur = q /\ x = op.rev
      BY <2>2 DEF Commit, In
    <3>2. /\ x \in 1..made /\ Len(index[q]) = k /\ index[q][Len(index[q])] = x
          /\ receipt[q].state = "ok" /\ receipt[q].rev = x /\ health[q] = "ok"
          /\ \A i \in 1..Len(index[q]) : file[index[q][i]] = "good"
      BY <1>0, <1>b, <3>1 DEF Saving, Stage, Writing, Working, Past
    <3>3. body[x].project = q /\ receipt[q].count \in Nat /\ k = receipt[q].count + 1
      BY <1>b, <3>2, Parts, ReceiptIs, Numbers DEF ReceiptOf, Receipts
    <3>4. k \in 1..Len(index[q])
      BY <3>2, <3>3, Lengths
    <3>5. QED
      BY <1>b, <3>2, <3>3, <3>4 DEF Kept
  <2>3. QED
    BY <2>1, <2>2, Frames
<1>2. x \in 1..made' /\ body'[x] = body[x]
  BY <1>0, <1>a, <1>1
<1>3. \A d \in hit : body'[d] = body[d]
  BY <1>0, <1>a
<1>4. CASE Hit(x)
  BY <1>2, <1>3, <1>4, HitStep DEF Hit, AckedOf
<1>5. CASE Kept(p, x)
  <2>1. /\ p \in Project /\ health[p] = "ok"
        /\ k \in 1..Len(index[p]) /\ index[p][k] = x /\ k \in Nat
        /\ \A j \in 1..k : file[index[p][j]] = "good"
        /\ Len(index[p]) \in Nat /\ Len(index'[p]) \in Nat
    <3>1. p \in Project
      BY <1>1, <1>b, Parts DEF MadeOf
    <3>2. /\ health[p] = "ok" /\ k \in 1..Len(index[p]) /\ index[p][k] = x
          /\ \A j \in 1..k : file[index[p][j]] = "good"
      BY <1>5, <1>b DEF Kept
    <3>3. Len(index[p]) \in Nat /\ Len(index'[p]) \in Nat
      BY <3>1, ManifestStep, Lengths, Parts
    <3>4. QED
      BY <3>1, <3>2, <3>3
  \* What damages the history up to x damages x.
  <2>2. ASSUME NEW j \in 1..k, index[p][j] \in hit' PROVE Hit(x)'
    <3>1. j \in 1..Len(index[p])
      BY <2>1
    <3>2. /\ index[p][j] \in 1..made /\ body[index[p][j]].project = p
          /\ body[index[p][j]].ordinal = j
      BY <2>1, <3>1, Parts DEF ProjectOf, Chain
    <3>3. body'[index[p][j]] = body[index[p][j]]
      BY <1>a, <3>2
    <3>4. QED
      BY <1>2, <1>b, <2>1, <2>2, <3>2, <3>3 DEF Hit
  <2>3. \/ Hit(x)'
        \/ \A j \in 1..k : file'[index[p][j]] = "good"
    <3>1. SUFFICES ASSUME NEW j \in 1..k, file'[index[p][j]] # "good" PROVE Hit(x)'
      OBVIOUS
    <3>2. j \in 1..Len(index[p]) /\ file[index[p][j]] = "good"
          /\ \A i \in 1..j : file[index[p][i]] = "good"
      BY <2>1
    <3>3. op = Idle /\ index[p][j] \in hit'
      BY <2>1, <3>1, <3>2, WholeStep
    <3>4. QED
      BY <2>2, <3>3
  <2>4. Hit(x)' \/ health'[p] = "ok"
    BY <2>1, <2>2, HealthStep
  <2>5. Hit(x)' \/ (k \in 1..Len(index'[p]) /\ \A j \in 1..k : index'[p][j] = index[p][j])
    <3>1. CASE index'[p] = index[p]
      BY <2>1, <3>1
    <3>2. CASE Restored(p)
      <4>1. CASE k <= Len(index'[p])
        BY <2>1, <3>2, <4>1 DEF Restored, Shorter
      <4>2. CASE ~ (k <= Len(index'[p]))
        <5>1. k \in (Len(index'[p]) + 1)..Len(index[p]) /\ k \in 1..k
          BY <2>1, <4>2
        <5>2. QED
          BY <2>2, <3>2, <5>1 DEF Restored
      <4>3. QED
        BY <4>1, <4>2
    <3>3. CASE Recovering(p)
      <4>1. k <= Len(index'[p])
        <5>1. SUFFICES ASSUME Len(index'[p]) < k PROVE FALSE
          BY <2>1
        <5>2. Len(index'[p]) < Len(index[p]) /\ Len(index'[p]) + 1 \in 1..k
          BY <2>1, <5>1
        <5>3. QED
          BY <2>1, <3>3, <5>2 DEF Recovering
      <4>2. QED
        BY <2>1, <3>3, <4>1 DEF Recovering, Shorter
    <3>4. ASSUME NEW S, Grew(body, made, p, index[p], S, index'[p])
          PROVE  k \in 1..Len(index'[p]) /\ \A j \in 1..k : index'[p][j] = index[p][j]
      BY <2>1, <3>4 DEF Grew
    <3>5. CASE Finished(p) \/ Saved(p) \/ Adopting(p)
      BY <3>4, <3>5 DEF Finished, Saved, Adopting
    <3>6. QED
      BY <2>1, <3>1, <3>2, <3>3, <3>5, IndexStep
  <2>6. CASE Hit(x)'
    BY <1>2, <2>6 DEF AckedOf
  <2>7. CASE ~ Hit(x)'
    <3>1. k \in 1..Len(index'[p]) /\ index'[p][k] = x /\ health'[p] = "ok"
      BY <2>1, <2>4, <2>5, <2>7
    <3>a. \A j \in 1..k : file'[index'[p][j]] = "good"
      BY <2>3, <2>5, <2>7
    <3>b. body'[x].ordinal = k /\ body'[x].project = p
      BY <1>2, <1>b
    <3>c. Kept(p, x)'
      BY <3>1, <3>a, <3>b DEF Kept
    <3>2. QED
      BY <1>2, <3>b, <3>c DEF AckedOf
  <2>8. QED
    BY <2>6, <2>7
<1>6. QED
  BY <1>1, <1>4, <1>5

------------------------------------------------------------------------------
(* What a step makes of the method *)

\* Between methods, or between two projects.
Between == {"idle", "next", "fall"}

\* The steps of a method about one project p.
PhaseMoves(p) ==
    \/ op.phase = "manifest" /\ op'.phase = "indexed" /\ health[p] = "ok"
    \/ op'.phase = op.phase /\ op.phase \in {"indexed", "pending", "orphans"}
    \/ /\ op.phase = "indexed" /\ op'.phase = "pending"
       /\ file' = file
       /\ \/ index'[p] = index[p] /\ Indexed(p) \subseteq ToSet(Safe(p))
          \/ index'[p] = Safe(p)
    \/ /\ op.phase = "pending" /\ op'.phase = "orphans" /\ receipt'[p].state = "none"
    \/ op.phase = "orphans" /\ op'.phase = "repair" /\ Unindexed(p) = {}
       /\ UNCHANGED <<index, file, body>>
    \/ /\ op.phase = "repair" /\ op'.phase \in Settling /\ UNCHANGED <<index, file, body>>
       /\ op'.phase = "read" => /\ Latest(p) = 0 \/ Settled(p, op.force, 0)
                                /\ pointer' = pointer
    \/ op.phase = "read" /\ op'.phase = "receipt" /\ Prepare(p)
    \/ op.phase = "receipt" /\ op'.phase = "revision" /\ WriteReceipt(p)
    \/ op.phase = "revision" /\ op'.phase = "index" /\ WriteRevision(p)
    \/ op.phase = "index" /\ op'.phase = "select" /\ WriteIndex(p)
    \/ op.phase = "select" /\ op'.phase = "commit" /\ WriteCurrent(p)

\* Every step ends a method, goes on to another project, or is one of PhaseMoves.
LEMMA PhaseStep ==
  ASSUME RInv, Next
  PROVE  \/ op'.phase \in Between
         \/ op'.phase = "manifest" /\ op'.cur \in Project
         \/ \E p \in Project : /\ op.cur = p /\ op'.cur = p /\ PhaseMoves(p)
                               /\ op'.rev = op.rev \/ Prepare(p)
<1> DEFINE Goal == \/ op'.phase \in Between
                   \/ op'.phase = "manifest" /\ op'.cur \in Project
                   \/ \E p \in Project : /\ op.cur = p /\ op'.cur = p /\ PhaseMoves(p)
                                         /\ op'.rev = op.rev \/ Prepare(p)
<1>0. op \in Methods /\ Types
  BY Parts DEF Types
<1>a. ASSUME NEW p \in Project, op.cur = p, PhaseMoves(p),
             op' = op \/ (\E x : op' = [op EXCEPT !.phase = x])
                \/ (\E x : op' = [op EXCEPT !.force = x])
                \/ (\E x, y : op' = [op EXCEPT !.phase = x, !.force = y])
      PROVE  Goal
  <2>1. op'.cur = p /\ op'.rev = op.rev
    BY <1>0, <1>a DEF Methods
  <2>2. QED
    BY <1>a, <2>1
<1>b. ASSUME NEW x PROVE [op EXCEPT !.phase = x].phase = x
  BY <1>0 DEF Methods
<1>c. op' = Idle => Goal
  BY DEF Idle, Between
<1> HIDE DEF Goal
<1> USE DEF In, To
<1>1. ASSUME NEW q \in Project, NextProject(q) PROVE Goal
  <2>1. op'.phase = "manifest" /\ op'.cur = q
    BY <1>0, <1>1 DEF NextProject, Methods
  <2>2. QED
    BY <2>1 DEF Goal
<1>2. ASSUME NEW q \in Project, ReadManifest(q) PROVE Goal
  <2>1. CASE health[q] = "ok"
    <3>1. op.phase = "manifest" /\ op.cur = q /\ op' = [op EXCEPT !.phase = "indexed"]
      BY <1>2, <2>1 DEF ReadManifest
    <3>2. op'.phase = "indexed"
      BY <3>1, <1>b DEF Phases
    <3>3. PhaseMoves(q)
      BY <2>1, <3>1, <3>2 DEF PhaseMoves
    <3>4. QED
      BY <1>a, <3>1, <3>3
  <2>2. CASE health[q] # "ok"
    <3>1. op' = Idle \/ op' = [op EXCEPT !.phase = "next"] \/ op' = [op EXCEPT !.phase = "fall"]
      BY <1>2, <2>2 DEF ReadManifest
    <3>2. op' = Idle \/ op'.phase \in Between
      BY <3>1, <1>b DEF Phases, Between
    <3>3. QED
      BY <1>c, <3>2 DEF Goal
  <2>3. QED
    BY <2>1, <2>2
<1>3. ASSUME NEW q \in Project, RecoverIndexed(q) PROVE Goal
  <2>1. /\ op.phase = "indexed" /\ op.cur = q
        /\ \/ op' = op
           \/ /\ op' = [op EXCEPT !.phase = "pending"] /\ file' = file
              /\ \/ Indexed(q) \subseteq ToSet(Safe(q)) /\ index' = index
                 \/ index' = [index EXCEPT ![q] = Safe(q)]
    BY <1>3 DEF RecoverIndexed, WriteManifest, Nothing, manifest, revisions
  <2>2. op' = op \/ op'.phase = "pending"
    BY <1>b, <2>1 DEF Phases
  <2>3. \/ op' = op
        \/ /\ file' = file
           /\ \/ index'[q] = index[q] /\ Indexed(q) \subseteq ToSet(Safe(q))
              \/ index'[q] = Safe(q)
    BY <1>0, <2>1 DEF Types
  <2>4. PhaseMoves(q)
    BY <2>1, <2>2, <2>3 DEF PhaseMoves
  <2>5. QED
    BY <1>a, <2>1, <2>4
<1>4. ASSUME NEW q \in Project, RejectPending(q) \/ QuarantinePending(q) PROVE Goal
  <2>1. op.phase = "pending" /\ op.cur = q /\ op' = op
    BY <1>4 DEF RejectPending, QuarantinePending
  <2>2. QED
    BY <1>a, <2>1 DEF PhaseMoves
<1>5. ASSUME NEW q \in Project, DropPending(q) \/ NoPending(q) \/ FinishPending(q) PROVE Goal
  <2>1. /\ op.phase = "pending" /\ op.cur = q
        /\ \/ op' = op \/ receipt' = [receipt EXCEPT ![q] = NoReceipt]
           \/ receipt[q].state = "none" /\ receipt' = receipt
        /\ \/ op' = op \/ op' = [op EXCEPT !.phase = "orphans"]
           \/ op' = [op EXCEPT !.phase = "orphans", !.force = TRUE]
    <3>1. CASE DropPending(q)
      BY <3>1 DEF DropPending, DropReceipt
    <3>2. CASE NoPending(q)
      BY <3>2 DEF NoPending, Nothing
    <3>3. CASE FinishPending(q)
      BY <3>3 DEF FinishPending, DropReceipt
    <3>4. QED
      BY <1>5, <3>1, <3>2, <3>3
  <2>2. op' = op \/ receipt'[q].state = "none"
    BY <1>0, <2>1 DEF Types, NoReceipt
  <2>3. op' = op \/ op'.phase = "orphans"
    BY <1>0, <2>1 DEF Methods
  <2>4. PhaseMoves(q)
    BY <2>1, <2>2, <2>3 DEF PhaseMoves
  <2>5. QED
    BY <1>a, <2>1, <2>4
<1>6. ASSUME NEW q \in Project, RecoverOrphans(q) PROVE Goal
  <2>1. /\ op.phase = "orphans" /\ op.cur = q
        /\ \/ op' = op
           \/ \E x : op' = [op EXCEPT !.force = x]
           \/ /\ op' = [op EXCEPT !.phase = "repair"] /\ Unindexed(q) = {}
              /\ UNCHANGED <<index, file, body>>
    BY <1>6 DEF RecoverOrphans, Nothing, manifest, revisions
  <2>2. \/ op'.phase = "orphans"
        \/ op'.phase = "repair" /\ Unindexed(q) = {} /\ UNCHANGED <<index, file, body>>
    BY <1>0, <2>1 DEF Methods
  <2>3. PhaseMoves(q)
    BY <2>1, <2>2 DEF PhaseMoves
  <2>4. QED
    BY <1>a, <2>1, <2>3
<1>7. ASSUME NEW q \in Project, RepairPointer(q) PROVE Goal
  <2>1. /\ op.phase = "repair" /\ op.cur = q /\ UNCHANGED <<index, file, body>>
        /\ \/ op' = op
           \/ op' = [op EXCEPT !.phase = "next"]
           \/ /\ op' = [op EXCEPT !.phase = "read"] /\ pointer' = pointer
              /\ Latest(q) = 0 \/ Settled(q, op.force, 0)
    BY <1>7 DEF RepairPointer, Nothing, Repair, WritePointer, manifest, revisions
  <2>2. CASE op' = [op EXCEPT !.phase = "next"]
    BY <1>b, <2>2 DEF Between, Phases, Goal
  <2>3. CASE op' # [op EXCEPT !.phase = "next"]
    <3>1. \/ op'.phase = "repair"
          \/ /\ op'.phase = "read" /\ pointer' = pointer
             /\ Latest(q) = 0 \/ Settled(q, op.force, 0)
      BY <1>0, <2>1, <2>3 DEF Methods
    <3>2. PhaseMoves(q)
      BY <2>1, <3>1 DEF PhaseMoves, Settling
    <3>3. QED
      BY <1>a, <2>1, <2>3, <3>2
  <2>4. QED
    BY <2>2, <2>3
<1>8. ASSUME NEW q \in Project, Prepare(q) PROVE Goal
  <2>1. CASE op' = Idle
    BY <1>c, <2>1
  <2>2. CASE op' # Idle
    <3>1. /\ op.phase = "read" /\ op.cur = q
          /\ op' = [op EXCEPT !.phase = "receipt", !.rev = made + 1]
      BY <1>8, <2>2 DEF Prepare
    <3>2. op'.phase = "receipt" /\ op'.cur = q
      BY <1>0, <3>1 DEF Methods
    <3>3. PhaseMoves(q)
      BY <1>8, <3>1, <3>2 DEF PhaseMoves
    <3>4. QED
      BY <1>8, <3>1, <3>2, <3>3 DEF Goal
  <2>3. QED
    BY <2>1, <2>2
<1>9. ASSUME NEW q \in Project, NEW x \in Phases, NEW y \in Phases,
             op' = [op EXCEPT !.phase = y], op.phase = x, op.cur = q,
             \/ x = "receipt" /\ y = "revision" /\ WriteReceipt(q)
             \/ x = "revision" /\ y = "index" /\ WriteRevision(q)
             \/ x = "index" /\ y = "select" /\ WriteIndex(q)
             \/ x = "select" /\ y = "commit" /\ WriteCurrent(q)
      PROVE  Goal
  <2>1. op'.phase = y
    BY <1>9, <1>b
  <2>2. PhaseMoves(q)
    BY <1>9, <2>1 DEF PhaseMoves
  <2>3. QED
    BY <1>9, <1>a, <2>2
<1>10. ASSUME NEW q \in Project,
              WriteReceipt(q) \/ WriteRevision(q) \/ WriteIndex(q) \/ WriteCurrent(q)
       PROVE  Goal
  <2>1. CASE WriteReceipt(q)
    <3>1. op.phase = "receipt" /\ op.cur = q /\ op' = [op EXCEPT !.phase = "revision"]
      BY <2>1 DEF WriteReceipt
    <3>2. QED
      BY <1>9, <2>1, <3>1 DEF Phases
  <2>2. CASE WriteRevision(q)
    <3>1. op.phase = "revision" /\ op.cur = q /\ op' = [op EXCEPT !.phase = "index"]
      BY <2>2 DEF WriteRevision
    <3>2. QED
      BY <1>9, <2>2, <3>1 DEF Phases
  <2>3. CASE WriteIndex(q)
    <3>1. op.phase = "index" /\ op.cur = q /\ op' = [op EXCEPT !.phase = "select"]
      BY <2>3 DEF WriteIndex
    <3>2. QED
      BY <1>9, <2>3, <3>1 DEF Phases
  <2>4. CASE WriteCurrent(q)
    <3>1. op.phase = "select" /\ op.cur = q /\ op' = [op EXCEPT !.phase = "commit"]
      BY <2>4 DEF WriteCurrent
    <3>2. QED
      BY <1>9, <2>4, <3>1 DEF Phases
  <2>5. QED
    BY <1>10, <2>1, <2>2, <2>3, <2>4
<1>11. ASSUME op' = Idle \/ (op = Idle /\ op' = op) PROVE Goal
  BY <1>11, <1>c
<1>12. ASSUME NEW q \in Project,
              \/ CreateProject(q) \/ Commit(q) \/ SpoilManifest(q) \/ RestoreManifest(q)
              \/ SpoilReceipt(q) \/ LoseReceipt(q) \/ ForeignRevision(q)
       PROVE  Goal
  BY <1>11, <1>12 DEF CreateProject, Commit, SpoilManifest, RestoreManifest, SpoilReceipt,
     LoseReceipt, ForeignRevision, Harm
<1>13. ASSUME NEW x \in Revision, SpoilRevision(x) PROVE Goal
  BY <1>11, <1>13 DEF SpoilRevision, Harm
<1>14. ASSUME ListEnds \/ GetEnds \/ Select \/ Interrupt \/ SpoilPointer PROVE Goal
  BY <1>11, <1>14 DEF ListEnds, GetEnds, Select, Interrupt, SpoilPointer, Harm
<1>15. ASSUME List \/ Current \/ Fall PROVE Goal
  <2>1. op'.phase = "next" \/ op'.phase = "fall"
    BY <1>15 DEF List, Current, Fall, Begin, Idle
  <2>2. QED
    BY <2>1 DEF Goal, Between
<1>16. ASSUME CurrentEnds PROVE Goal
  <2>1. op' = Idle \/ op' = [op EXCEPT !.phase = "fall"]
    BY <1>16 DEF CurrentEnds
  <2>2. op' = Idle \/ op'.phase = "fall"
    BY <1>b, <2>1 DEF Phases
  <2>3. QED
    BY <1>c, <2>2 DEF Goal, Between
<1>17. ASSUME NEW q \in Project,
              \/ Get(q)
              \/ \E base \in RevisionsOf(q) \cup {0}, strict \in BOOLEAN : Save(q, base, strict)
       PROVE  Goal
  <2>1. op'.phase = "next"
    BY <1>17 DEF Get, Save, Begin, Idle
  <2>2. QED
    BY <2>1 DEF Goal, Between
<1>18. Goal
  BY <1>1, <1>2, <1>3, <1>4, <1>5, <1>6, <1>7, <1>8, <1>10, <1>12, <1>13, <1>14, <1>15, <1>16, <1>17
     DEF Next, Method, Read, Write, Damage
<1>19. QED
  BY <1>18 DEF Goal

\* The safe revisions are whole, and so are all when all are safe.
LEMMA SafeAre ==
  ASSUME RInv, NEW p \in Project
  PROVE  /\ \A i \in 1..Len(Safe(p)) : file[Safe(p)[i]] = "good"
         /\ Indexed(p) \subseteq ToSet(Safe(p))
              => \A i \in 1..Len(index[p]) : file[index[p][i]] = "good"
<1>0. /\ TypeOK /\ Chain(body, made, p, index[p]) /\ made \in Nat
      /\ index[p] \in Seq(Revision) /\ Len(index[p]) \in Nat
  BY Parts, Lengths DEF ProjectOf
<1>1. PICK n \in 0..Len(index[p]) : /\ Safe(p) = SubSeq(index[p], 1, n)
                                    /\ \A i \in 1..n : file[index[p][i]] = "good"
  BY <1>0, SafeIs
<1> DEFINE t == SubSeq(index[p], 1, n)
<1>2. t \in Seq(Revision) /\ Len(t) = n /\ \A i \in 1..n : t[i] = index[p][i]
  BY <1>0, ChainPrefix
<1>3. Safe(p) = t
  BY <1>1
<1> HIDE DEF t
<1>4. \A i \in 1..Len(t) : file[t[i]] = "good"
  BY <1>1, <1>2
<1>5. ASSUME Indexed(p) \subseteq ToSet(t), NEW i \in 1..Len(index[p])
      PROVE  file[index[p][i]] = "good"
  <2>1. index[p][i] \in ToSet(t)
    BY <1>0, <1>5, IndexedIs
  <2>2. PICK j \in 1..n : t[j] = index[p][i]
    BY <1>2, <2>1, Members
  <2>3. QED
    BY <1>1, <1>2, <2>2
<1>6. QED
  BY <1>3, <1>4, <1>5

\* Every step keeps what the stages of a method have achieved.
LEMMA StageStep ==
  ASSUME RInv, Next
  PROVE  Stage'
<1>0. Stage /\ Saving /\ Types /\ made \in Nat
  BY Parts DEF RInv
<1>1. ASSUME op'.phase \notin Working PROVE Stage'
  BY <1>1 DEF Stage, Working, Past, Recovered, Settling, Writing
<1>2. ASSUME op'.phase \in Between PROVE Stage'
  BY <1>1, <1>2 DEF Between, Working, Past, Recovered, Settling, Writing
<1>3. ASSUME op'.phase = "manifest", op'.cur \in Project PROVE Stage'
  BY <1>3 DEF Stage, Past, Recovered, Settling, Writing
<1>4. ASSUME NEW p \in Project, op.cur = p, op'.cur = p, PhaseMoves(p) PROVE Stage'
  <2>1. op.phase \in Working \ Between /\ op.phase # "commit"
    BY <1>4 DEF PhaseMoves, Working, Past, Recovered, Settling, Writing, Between
  <2>2. op # Idle
    BY <2>1 DEF Idle, Between
  <2>3. health'[p] = "ok"
    <3>1. CASE op.phase = "manifest"
      <4>1. health[p] = "ok"
        BY <1>4, <3>1 DEF PhaseMoves
      <4>2. QED
        BY <2>2, <4>1, HealthStep
    <3>2. CASE op.phase # "manifest"
      BY <1>0, <1>4, <2>1, <2>2, <3>2, HealthStep DEF Stage
    <3>3. QED
      BY <3>1, <3>2
  <2>4. ASSUME op'.phase \in Past
        PROVE  \A i \in 1..Len(index'[p]) : file'[index'[p][i]] = "good"
    <3>1. CASE op.phase = "indexed"
      <4>1. /\ file' = file
            /\ \/ index'[p] = index[p] /\ Indexed(p) \subseteq ToSet(Safe(p))
               \/ index'[p] = Safe(p)
        BY <1>4, <2>4, <3>1 DEF PhaseMoves, Past, Recovered, Settling, Writing
      <4>2. QED
        BY <4>1, SafeAre
    <3>2. CASE op.phase # "indexed"
      <4>1. op.phase \in Past
        BY <1>4, <2>4, <3>2 DEF PhaseMoves, Past, Recovered, Settling, Writing
      <4>2. \A i \in 1..Len(index[p]) : file[index[p][i]] = "good"
        BY <1>0, <1>4, <4>1 DEF Stage
      <4>3. \A i \in 1..Len(index[p]) : file'[index[p][i]] = "good"
        BY <2>2, <3>2, <4>2, WholeStep
      <4>4. Len(index[p]) \in Nat /\ Len(index'[p]) \in Nat
        BY Lengths, ManifestStep
      <4>5. ASSUME NEW S, Grew(body, made, p, index[p], S, index'[p]),
                   \A r \in S : file'[r] = "good"
            PROVE  \A i \in 1..Len(index'[p]) : file'[index'[p][i]] = "good"
        <5>1. SUFFICES ASSUME NEW i \in 1..Len(index'[p]) PROVE file'[index'[p][i]] = "good"
          OBVIOUS
        <5>2. CASE i <= Len(index[p])
          BY <4>3, <4>4, <4>5, <5>2 DEF Grew
        <5>3. CASE ~ (i <= Len(index[p]))
          BY <4>4, <4>5, <5>3 DEF Grew
        <5>4. QED
          BY <5>2, <5>3
      <4>6. CASE index'[p] = index[p]
        BY <4>3, <4>6
      <4>7. CASE Finished(p)
        BY <4>5, <4>7 DEF Finished, Confirmed, Pending
      <4>8. CASE Saved(p)
        BY <1>0, <4>5, <4>8 DEF Saved, Saving
      <4>9. CASE Adopting(p)
        BY <4>5, <4>9 DEF Adopting
      <4>10. ~ Restored(p) /\ ~ Recovering(p)
        BY <2>2, <3>2 DEF Restored, Recovering
      <4>11. QED
        BY <4>6, <4>7, <4>8, <4>9, <4>10, IndexStep
    <3>3. QED
      BY <3>1, <3>2
  <2>5. ASSUME op'.phase \in Recovered \cup {"receipt"} PROVE receipt'[p].state = "none"
    <3>1. CASE op.phase = "pending"
      BY <1>4, <2>5, <3>1 DEF PhaseMoves, Recovered, Settling
    <3>2. CASE op.phase # "pending"
      <4>1. op.phase \in Recovered
        BY <1>4, <2>5, <3>2 DEF PhaseMoves, Recovered, Settling
      <4>2. receipt[p].state = "none"
        BY <1>0, <1>4, <4>1 DEF Stage
      <4>3. QED
        BY <2>2, <4>1, <4>2, ReceiptStep DEF Recovered, Settling
    <3>3. QED
      BY <3>1, <3>2
  <2>6. ASSUME op'.phase \in Settling PROVE Unindexed(p)' = {}
    <3>1. UNCHANGED <<index, file, body>> /\ (op.phase = "orphans" \/ op.phase = "repair")
      BY <1>4, <2>6 DEF PhaseMoves, Settling
    <3>2. Unindexed(p) = {}
      BY <1>0, <1>4, <2>6, <3>1 DEF PhaseMoves, Settling, Stage
    <3>3. QED
      BY <3>1, <3>2 DEF Unindexed, OnDisk, RevisionsOf, Indexed
  <2>7. QED
    BY <1>4, <2>3, <2>4, <2>5, <2>6 DEF Stage
<1>5. QED
  BY <1>2, <1>3, <1>4, PhaseStep

\* While a save has not begun to write, there is room for its revision.
LEMMA RoomStep ==
  ASSUME RInv, Next, op'.kind = "save", op'.phase \notin Writing
  PROVE  made' < MaxRevision
<1> DEFINE Began == op.kind = "save" /\ op.phase \notin Writing
<1>0. op \in Methods /\ Saving /\ Idle.kind # "save"
  BY Parts DEF Types, RInv, Idle
<1>1. ASSUME NEW q \in Project,
             \/ NextProject(q) \/ ReadManifest(q) \/ RecoverIndexed(q) \/ RejectPending(q)
             \/ QuarantinePending(q) \/ DropPending(q) \/ FinishPending(q) \/ NoPending(q)
             \/ RecoverOrphans(q) \/ RepairPointer(q) \/ Prepare(q)
      PROVE  Began
  <2>1. op'.kind = op.kind \/ op' = Idle
    BY <1>0, <1>1 DEF NextProject, ReadManifest, RecoverIndexed, RejectPending, QuarantinePending,
       DropPending, FinishPending, NoPending, RecoverOrphans, RepairPointer, Prepare, Methods, To
  <2>2. op.phase \notin Writing
    BY <1>1 DEF NextProject, ReadManifest, RecoverIndexed, RejectPending, QuarantinePending,
       DropPending, FinishPending, NoPending, RecoverOrphans, RepairPointer, Prepare, In, Writing
  <2>3. QED
    BY <1>0, <2>1, <2>2
<1>2. ASSUME NEW q \in Project,
             WriteReceipt(q) \/ WriteRevision(q) \/ WriteIndex(q) \/ WriteCurrent(q) \/ Commit(q)
      PROVE  Began
  <2>1. op'.phase \in Writing \/ op' = Idle
    BY <1>0, <1>2 DEF WriteReceipt, WriteRevision, WriteIndex, WriteCurrent, Commit, Methods, To,
       Writing
  <2>2. QED
    BY <1>0, <2>1
<1>3. ASSUME op' = op, op = Idle \/ op'.phase \notin Writing PROVE Began
  BY <1>0, <1>3
<1>4. ASSUME NEW q \in Project,
             \/ CreateProject(q) \/ SpoilManifest(q) \/ RestoreManifest(q)
             \/ SpoilReceipt(q) \/ LoseReceipt(q) \/ ForeignRevision(q)
      PROVE  Began
  BY <1>3, <1>4 DEF CreateProject, SpoilManifest, RestoreManifest, SpoilReceipt, LoseReceipt,
     ForeignRevision, Harm
<1>5. ASSUME NEW x \in Revision, SpoilRevision(x) PROVE Began
  BY <1>3, <1>5 DEF SpoilRevision, Harm
<1>6. ASSUME SpoilPointer PROVE Began
  BY <1>3, <1>6 DEF SpoilPointer, Harm
<1>7. ~ (ListEnds \/ GetEnds \/ Select \/ Interrupt)
  BY <1>0 DEF ListEnds, GetEnds, Select, Interrupt
<1>8. ~ (List \/ Current \/ Fall \/ CurrentEnds)
  BY <1>0 DEF List, Current, Fall, CurrentEnds, Begin, To, Idle, Methods
<1>9. ASSUME NEW q \in Project PROVE ~ Get(q)
  BY <1>0 DEF Get, Begin, Idle
<1>10. ASSUME NEW q \in Project, NEW base, NEW strict, Save(q, base, strict) PROVE made < MaxRevision
  BY <1>10 DEF Save
<1>11. made < MaxRevision
  <2>1. Began => made < MaxRevision
    BY <1>0 DEF Saving
  <2> HIDE DEF Began
  <2>2. QED
    BY <1>1, <1>2, <1>4, <1>5, <1>6, <1>7, <1>8, <1>9, <1>10, <2>1
       DEF Next, Method, Read, Write, Damage
<1>12. made' = made
  <2>1. ASSUME NEW q \in Project, Prepare(q) PROVE made' = made
    <3>1. op' = Idle \/ op' = [op EXCEPT !.phase = "receipt", !.rev = made + 1]
      BY <2>1 DEF Prepare
    <3>2. op'.phase \in Writing \/ op' = Idle
      BY <1>0, <3>1 DEF Methods, Writing
    <3>3. QED
      BY <1>0, <3>2
  <2>2. ASSUME NEW q \in Project PROVE ~ ForeignRevision(q)
    BY <1>0 DEF ForeignRevision, Harm
  <2>3. QED
    BY <2>1, <2>2, Frames DEF RevisionMoves
<1>13. QED
  BY <1>11, <1>12

\* What a save knows of the revision that it writes.
Wrote(p) ==
    /\ op.rev \in 1..made /\ op.rev = made /\ op.rev \notin rejected[p]
    /\ op.phase \in Writing \ {"receipt"} => receipt[p].state = "ok" /\ receipt[p].rev = op.rev
    /\ op.phase \in {"receipt", "revision", "index"}
          => /\ body[op.rev].project = p
             /\ body[op.rev].ordinal = Len(index[p]) + 1
             /\ body[op.rev].parent = 0 => index[p] = <<>>
             /\ body[op.rev].parent # 0
                  => \E j \in 1..Len(index[p]) : index[p][j] = body[op.rev].parent
    /\ op.phase \in {"receipt", "revision"} => file[op.rev] = "none"
    /\ op.phase = "index" => file[op.rev] = "good"
    /\ op.phase \in {"select", "commit"}
          => Len(index[p]) = body[op.rev].ordinal /\ index[p][Len(index[p])] = op.rev

\* Saving, in terms of Wrote.
LEMMA SavingIs ==
  Saving <=> /\ op.kind = "save" /\ op.phase \notin Writing => made < MaxRevision
             /\ op.phase \in Writing => Wrote(op.cur)
BY DEF Saving, Wrote, Writing

\* The save prepares its revision.
LEMMA PrepareStep ==
  ASSUME RInv, Next, NEW p \in Project, Prepare(p), op'.cur = p, op'.phase = "receipt"
  PROVE  Wrote(p)'
<1> DEFINE parent == IF op.base = 0 THEN Latest(p) ELSE op.base
           r      == made + 1
<1>0. op \in Methods /\ Saving /\ Types /\ Idle.phase # "receipt" /\ made \in Nat
  BY Parts DEF Types, RInv, Idle
<1>1. /\ op.kind = "save" /\ op.phase = "read" /\ op.cur = p
      /\ parent = 0 \/ parent \in Indexed(p)
      /\ op' = [op EXCEPT !.phase = "receipt", !.rev = r]
      /\ made' = r
      /\ body' = [body EXCEPT ![r] = [project |-> p, parent |-> parent,
                                      ordinal |-> Len(index[p]) + 1]]
      /\ UNCHANGED <<index, rejected, file>>
  BY <1>0 DEF Prepare, In, manifest
<1>2. r \in Revision /\ r \notin 1..made
  BY <1>0, <1>1, Numbers DEF Saving, Writing
<1>3. op'.rev = r /\ body'[r] = [project |-> p, parent |-> parent, ordinal |-> Len(index[p]) + 1]
  BY <1>0, <1>1, <1>2 DEF Methods, Types
<1>4. file[r] = "none" /\ r \notin rejected[p]
  BY <1>2, Parts DEF MadeOf, ProjectOf
<1>5. parent = 0 => index[p] = <<>>
  <2>1. index[p] # <<>> => Latest(p) # 0
    BY LatestIs
  <2>2. QED
    BY <2>1
<1>6. parent # 0 => \E j \in 1..Len(index[p]) : index[p][j] = parent
  BY <1>1, IndexedIs, Parts
<1> HIDE DEF parent
<1>7. QED
  BY <1>0, <1>1, <1>3, <1>4, <1>5, <1>6 DEF Wrote, Writing

\* The save goes on to its next write.
LEMMA WriteStep ==
  ASSUME RInv, Next, NEW p \in Project, op.cur = p, op'.rev = op.rev,
         \/ op.phase = "receipt" /\ op'.phase = "revision" /\ WriteReceipt(p)
         \/ op.phase = "revision" /\ op'.phase = "index" /\ WriteRevision(p)
         \/ op.phase = "index" /\ op'.phase = "select" /\ WriteIndex(p)
         \/ op.phase = "select" /\ op'.phase = "commit" /\ WriteCurrent(p)
  PROVE  Wrote(p)'
<1>0. Types /\ Wrote(p) /\ op.rev \in Revision
  BY Parts, SavingIs DEF RInv, Writing, Wrote
<1>1. UNCHANGED <<body, made>> /\ rejected'[p] = rejected[p]
  BY <1>0 DEF WriteReceipt, WriteRevision, WriteIndex, WriteCurrent, WriteManifest, WritePointer,
     manifest, revisions, Types
<1>2. CASE op.phase = "receipt" /\ op'.phase = "revision" /\ WriteReceipt(p)
  <2>1. UNCHANGED <<index, file>> /\ receipt'[p].state = "ok" /\ receipt'[p].rev = op.rev
    BY <1>0, <1>2 DEF WriteReceipt, manifest, revisions, Types
  <2>2. QED
    BY <1>0, <1>1, <1>2, <2>1 DEF Wrote, Writing
<1>3. CASE op.phase = "revision" /\ op'.phase = "index" /\ WriteRevision(p)
  <2>1. UNCHANGED <<index, receipt>> /\ file'[op.rev] = "good"
    BY <1>0, <1>3 DEF WriteRevision, manifest, Types
  <2>2. QED
    BY <1>0, <1>1, <1>3, <2>1 DEF Wrote, Writing
<1>4. CASE op.phase = "index" /\ op'.phase = "select" /\ WriteIndex(p)
  <2>1. receipt' = receipt /\ index'[p] = Append(index[p], op.rev)
    BY <1>0, <1>4 DEF WriteIndex, WriteManifest, Types
  <2>2. Len(index'[p]) = Len(index[p]) + 1 /\ index'[p][Len(index[p]) + 1] = op.rev
    BY <1>0, <2>1, Lengths
  <2>3. body[op.rev].ordinal = Len(index[p]) + 1
    BY <1>0, <1>4 DEF Wrote
  <2>4. QED
    BY <1>0, <1>1, <1>4, <2>1, <2>2, <2>3 DEF Wrote, Writing
<1>5. CASE op.phase = "select" /\ op'.phase = "commit" /\ WriteCurrent(p)
  <2>1. UNCHANGED <<index, receipt>>
    BY <1>5 DEF WriteCurrent, WritePointer, manifest
  <2>2. QED
    BY <1>0, <1>1, <1>5, <2>1 DEF Wrote, Writing
<1>6. QED
  BY <1>2, <1>3, <1>4, <1>5

\* Every step keeps what a save knows.
LEMMA SavingStep ==
  ASSUME RInv, Next
  PROVE  Saving'
<1>1. ASSUME op'.phase \in Writing PROVE Wrote(op.cur)' /\ op'.cur = op.cur
  <2>1. PICK p \in Project : /\ op.cur = p /\ op'.cur = p /\ PhaseMoves(p)
                             /\ op'.rev = op.rev \/ Prepare(p)
    BY <1>1, PhaseStep DEF Writing, Between
  <2>2. CASE op.phase = "read" /\ op'.phase = "receipt" /\ Prepare(p)
    BY <2>1, <2>2, PrepareStep DEF Wrote
  <2>3. CASE ~ (op.phase = "read" /\ op'.phase = "receipt" /\ Prepare(p))
    <3>1. \/ op.phase = "receipt" /\ op'.phase = "revision" /\ WriteReceipt(p)
          \/ op.phase = "revision" /\ op'.phase = "index" /\ WriteRevision(p)
          \/ op.phase = "index" /\ op'.phase = "select" /\ WriteIndex(p)
          \/ op.phase = "select" /\ op'.phase = "commit" /\ WriteCurrent(p)
      BY <1>1, <2>1, <2>3 DEF PhaseMoves, Writing, Settling
    <3>2. ~ Prepare(p)
      BY <3>1 DEF Prepare, In
    <3>3. Wrote(p)'
      BY <2>1, <3>1, <3>2, WriteStep
    <3>4. QED
      BY <2>1, <3>3 DEF Wrote
  <2>4. QED
    BY <2>2, <2>3
<1>2. QED
  BY <1>1, RoomStep DEF Saving, Wrote, Writing

\* A read that completes leaves the pointer to the project as it settled it.
LEMMA PointerFollowsStep ==
  ASSUME RInv, Next
  PROVE  PointerFollows'
<1> USE DEF PointerFollows
<1>1. SUFFICES ASSUME op'.phase = "read", pointer'.state = "ok", pointer'.project = op'.cur,
                      index'[op'.cur] # <<>>
               PROVE  pointer'.rev = Latest(op.cur)' /\ op'.cur = op.cur
  BY DEF Latest
<1>2. PICK p \in Project : op.cur = p /\ op'.cur = p /\ PhaseMoves(p)
  BY <1>1, PhaseStep DEF Between
<1>3. /\ UNCHANGED <<index, pointer>>
      /\ Latest(p) = 0 \/ Settled(p, op.force, 0)
  BY <1>1, <1>2 DEF PhaseMoves, Settling
<1>4. Latest(p) # 0
  BY <1>1, <1>2, <1>3, LatestIs
<1>5. pointer.rev = Latest(p)
  BY <1>1, <1>2, <1>3, <1>4 DEF Settled
<1>6. QED
  BY <1>2, <1>3, <1>5 DEF Latest

------------------------------------------------------------------------------
(* The invariant *)

\* The invariant holds initially, ...
LEMMA InitInv == Init => RInv
<1> SUFFICES ASSUME Init PROVE RInv
  OBVIOUS
<1> USE DEF Init
<1>0. \A p \in Project : index[p] = <<>> /\ Len(index[p]) = 0 /\ health[p] = "none"
                         /\ receipt[p].state = "none" /\ rejected[p] = {}
  BY DEF NoReceipt
<1>1. TypeOK
  <2>1. index \in [Project -> Seq(Revision)] /\ updated \in [Project -> 0..(2 * MaxRevision + 1)]
    BY RepositoryAssumption
  <2>2. NoBody \in Bodies /\ NoReceipt \in Receipts /\ NoPointer \in Pointers
    BY Numbers DEF NoBody, NoReceipt, NoPointer, Bodies, Receipts, Pointers
  <2>3. /\ health \in [Project -> Healths] /\ rejected \in [Project -> SUBSET Revision]
        /\ file \in [Revision -> Files] /\ body \in [Revision -> Bodies]
        /\ receipt \in [Project -> Receipts] /\ pointer \in Pointers
    BY <2>2 DEF Healths, Files
  <2>4. made \in 0..MaxRevision /\ damage \in 0..MaxDamage /\ op \in Methods
    <3>1. Idle \in Methods
      BY MethodsHave
    <3>2. made = 0 /\ damage = 0 /\ op = Idle
      OBVIOUS
    <3>3. 0 \in 0..MaxDamage
      BY RepositoryAssumption
    <3>4. QED
      BY <3>1, <3>2, <3>3, Numbers
  <2>5. Types
    BY <2>1, <2>3, <2>4 DEF Types
  <2>6. QED
    BY <2>5, TypesAre
<1>2. \A r \in Revision : MadeOf(r)
  BY DEF MadeOf
<1>3. \A p \in Project : ProjectOf(p) /\ ReceiptOf(p)
  BY <1>0 DEF ProjectOf, ReceiptOf, Chain
<1>4. RejectedStaysOut
  BY <1>0 DEF RejectedStaysOut
<1>5. PointerOf /\ Stage /\ Saving /\ PointerFollows
  BY DEF PointerOf, Stage, Saving, PointerFollows, NoPointer, Idle, Working, Past, Recovered,
     Settling, Writing
<1>6. QED
  BY <1>1, <1>2, <1>3, <1>4, <1>5 DEF RInv

\* ... every step keeps it, ...
LEMMA StepInv ==
  ASSUME RInv, Next
  PROVE  RInv'
<1>1. TypeOK' /\ RejectedStaysOut' /\ PointerOf' /\ Stage' /\ Saving' /\ PointerFollows'
  BY TypeStep, RejectedOutStep, PointerOfStep, StageStep, SavingStep, PointerFollowsStep
<1>2. (\A r \in Revision : MadeOf(r))' /\ (\A p \in Project : ProjectOf(p))'
      /\ (\A p \in Project : ReceiptOf(p))'
  BY MadeOfStep, ProjectStep, ReceiptOfStep
<1>3. (hit \subseteq 1..made)' /\ (\A r \in acked : AckedOf(r))'
  BY HitStep, AckedStep
<1>4. QED
  BY <1>1, <1>2, <1>3 DEF RInv

\* ... and so does a step that changes nothing.
LEMMA StutterInv ==
  ASSUME RInv, UNCHANGED vars
  PROVE  RInv'
<1> USE DEF vars
<1>1. TypeOK' /\ (\A r \in Revision : MadeOf(r))' /\ (hit \subseteq 1..made)'
  BY DEF RInv, TypeOK, MadeOf
<1>2. (\A p \in Project : ProjectOf(p))' /\ (\A p \in Project : ReceiptOf(p))' /\ RejectedStaysOut'
  BY DEF RInv, ProjectOf, ReceiptOf, RejectedStaysOut, Chain, Indexed
<1>3. PointerOf' /\ PointerFollows'
  BY DEF RInv, PointerOf, PointerFollows, Latest
<1>4. Stage' /\ Saving'
  BY DEF RInv, Stage, Saving, Unindexed, OnDisk, RevisionsOf, Indexed
<1>5. (\A r \in acked : AckedOf(r))'
  BY DEF RInv, AckedOf, Hit, Kept
<1>6. QED
  BY <1>1, <1>2, <1>3, <1>4, <1>5 DEF RInv

\* The invariant holds of every project directory, whatever was damaged, and wherever
\* methods were interrupted.
THEOREM RepositoryInvariant == Spec => []RInv
<1>1. RInv /\ [Next]_vars => RInv'
  BY StepInv, StutterInv
<1>2. QED
  BY InitInv, <1>1, PTL DEF Spec

------------------------------------------------------------------------------
(* What a read would show *)

\* The parts of Outcome.
Loose(p) == {r \in RevisionsOf(p) \ Indexed(p) : file[r] = "good"}

LatestSafe(p) == IF Safe(p) = <<>> THEN 0 ELSE Last(Safe(p))

Added(p) ==
    IF /\ receipt[p].state = "ok" /\ receipt[p].rev \in Loose(p) /\ Extends(Safe(p), receipt[p].rev)
       /\ receipt[p].count = Len(Safe(p)) /\ receipt[p].latest = LatestSafe(p)
    THEN <<receipt[p].rev>> ELSE <<>>

Barred(p) ==
    CASE receipt[p].state = "none" -> {}
      [] \/ receipt[p].state = "unreadable"
         \/ receipt[p].state = "invalid" /\ receipt[p].rev \in ToSet(Safe(p)) -> Loose(p)
      [] OTHER -> {receipt[p].rev}

\* Outcome, in terms of its parts.
LEMMA OutcomeIs ==
  ASSUME NEW p \in Project
  PROVE  Outcome(p) = IF health[p] # "ok" THEN <<>>
                      ELSE Adopted(Safe(p) \o Added(p), Loose(p) \ (rejected[p] \cup Barred(p)))
BY DEF Outcome, Loose, LatestSafe, Added, Barred

\* The safe revisions, with the one that the receipt adds, are a history of p.
LEMMA BaseIs ==
  ASSUME RInv, NEW p \in Project
  PROVE  /\ Safe(p) \o Added(p) \in Seq(Revision)
         /\ Chain(body, made, p, Safe(p) \o Added(p))
         /\ \A i \in 1..Len(Safe(p)) : i \in 1..Len(Safe(p) \o Added(p))
                                       /\ (Safe(p) \o Added(p))[i] = Safe(p)[i]
         /\ Loose(p) \in SUBSET (1..made) /\ \A r \in Loose(p) : body[r].project = p
         /\ Added(p) = <<>> => Safe(p) \o Added(p) = Safe(p)
<1>0. /\ TypeOK /\ Chain(body, made, p, index[p]) /\ made \in Nat /\ made <= MaxRevision
      /\ index[p] \in Seq(Revision) /\ Len(index[p]) \in Nat
  BY Parts, Lengths DEF ProjectOf
<1>1. PICK n \in 0..Len(index[p]) : Safe(p) = SubSeq(index[p], 1, n)
  BY <1>0, SafeIs
<1>2. Safe(p) \in Seq(Revision) /\ Len(Safe(p)) \in Nat /\ Chain(body, made, p, Safe(p))
  BY <1>0, <1>1, ChainPrefix
<1>3. Loose(p) \in SUBSET (1..made) /\ \A r \in Loose(p) : body[r].project = p
  <2>1. SUFFICES ASSUME NEW r \in Loose(p) PROVE r \in 1..made /\ body[r].project = p
    OBVIOUS
  <2>2. r \in Revision /\ body[r].project = p /\ file[r] = "good"
    BY <2>1 DEF Loose, RevisionsOf
  <2>3. QED
    BY <2>2, Parts DEF MadeOf
<1>4. CASE Added(p) = <<>>
  <2>1. Safe(p) \o Added(p) = Safe(p)
    BY <1>2, <1>4
  <2>2. QED
    BY <1>2, <1>3, <2>1
<1>5. CASE Added(p) # <<>>
  <2> DEFINE x == receipt[p].rev
  <2>1. Added(p) = <<x>> /\ x \in Loose(p) /\ Extends(Safe(p), x)
    BY <1>5 DEF Added
  <2>2. /\ x \in 1..made /\ body[x].project = p /\ body[x].ordinal = Len(Safe(p)) + 1
        /\ body[x].parent = 0 \/ \E j \in 1..Len(Safe(p)) : Safe(p)[j] = body[x].parent
    BY <1>2, <1>3, <2>1, Members DEF Extends
  <2>3. /\ Append(Safe(p), x) \in Seq(Revision) /\ Len(Append(Safe(p), x)) = Len(Safe(p)) + 1
        /\ \A i \in 1..Len(Safe(p)) : Append(Safe(p), x)[i] = Safe(p)[i]
        /\ Chain(body, made, p, Append(Safe(p), x))
    BY <1>0, <1>2, <2>2, ChainAppend
  <2>4. Safe(p) \o Added(p) = Append(Safe(p), x)
    BY <1>0, <1>2, <2>1, <2>2
  <2>5. QED
    BY <1>2, <1>3, <1>5, <2>3, <2>4
<1>6. QED
  BY <1>4, <1>5

\* A revision kept up to its ordinal is shown.
LEMMA KeptIsShown ==
  ASSUME RInv, NEW p \in Project, NEW r, Kept(p, r)
  PROVE  r \in ToSet(Outcome(p))
<1> DEFINE k == body[r].ordinal
           s == Safe(p) \o Added(p)
           o == Loose(p) \ (rejected[p] \cup Barred(p))
<1>0. /\ TypeOK /\ Chain(body, made, p, index[p])
      /\ index[p] \in Seq(Revision) /\ Len(index[p]) \in Nat
      /\ health[p] = "ok" /\ k \in 1..Len(index[p]) /\ index[p][k] = r
      /\ \A j \in 1..k : file[index[p][j]] = "good"
  BY Parts, Lengths DEF ProjectOf, Kept
<1>1. PICK n \in 0..Len(index[p]) : /\ Safe(p) = SubSeq(index[p], 1, n)
                                    /\ n < Len(index[p]) => file[index[p][n + 1]] # "good"
  BY <1>0, SafeIs
<1>2. k \in 1..n
  BY <1>0, <1>1
<1>3. Len(Safe(p)) = n /\ Safe(p)[k] = r
  BY <1>0, <1>1, <1>2, ChainPrefix, Parts
<1>4. k \in 1..Len(s) /\ s[k] = r /\ s \in Seq(Revision) /\ Chain(body, made, p, s)
  BY <1>2, <1>3, BaseIs
<1>5. o \in SUBSET (1..made) /\ \A x \in o : body[x].project = p
  BY BaseIs
<1> HIDE DEF s, o, k
<1>6. Grew(body, made, p, s, o, Adopted(s, o))
  BY <1>0, <1>4, <1>5, AdoptedIs
<1>7. Adopted(s, o) \in Seq(Revision) /\ k \in 1..Len(Adopted(s, o)) /\ Adopted(s, o)[k] = r
  BY <1>4, <1>6 DEF Grew
<1>8. Outcome(p) = Adopted(s, o)
  BY <1>0, OutcomeIs DEF s, o
<1>9. QED
  BY <1>7, <1>8, Members

\* The invariant says that what was saved is shown.
LEMMA AckedFollows == RInv => AckedSurvives
<1> SUFFICES ASSUME RInv, NEW r \in acked
             PROVE  \/ r \in ToSet(Outcome(body[r].project))
                    \/ \E d \in hit : body[d].project = body[r].project
                                      /\ body[d].ordinal <= body[r].ordinal
  BY DEF AckedSurvives
<1>1. r \in 1..made /\ (Hit(r) \/ Kept(body[r].project, r))
  BY DEF RInv, AckedOf
<1>2. body[r].project \in Project
  BY <1>1, Parts DEF MadeOf
<1>3. QED
  BY <1>1, <1>2, KeptIsShown DEF Hit

\* The invariant says that a read that completes has settled the files.
LEMMA ReadFollows == RInv => ReadSettles
<1> SUFFICES ASSUME RInv, op.phase = "read"
             PROVE  /\ index[op.cur] = Outcome(op.cur) /\ receipt[op.cur].state = "none"
                    /\ OnDisk(op.cur) = Indexed(op.cur)
                    /\ \A r \in Indexed(op.cur) : file[r] = "good"
  BY DEF ReadSettles
<1>1. PICK p \in Project : p = op.cur
  BY DEF RInv, Stage, Working, Past, Recovered, Settling
<1>2. /\ health[p] = "ok" /\ receipt[p].state = "none" /\ Unindexed(p) = {}
      /\ \A i \in 1..Len(index[p]) : file[index[p][i]] = "good"
  BY <1>1 DEF RInv, Stage, Working, Past, Recovered, Settling
<1>3. \A r \in Indexed(p) : file[r] = "good" /\ r \in Revision /\ body[r].project = p
  BY <1>2, IndexedIs, Parts DEF ProjectOf, Chain
<1>4. OnDisk(p) = Indexed(p)
  BY <1>2, <1>3 DEF Unindexed, OnDisk, RevisionsOf
<1>5. Loose(p) = {} /\ Added(p) = <<>>
  BY <1>2, <1>4 DEF Loose, Added, OnDisk
<1>6. Safe(p) = index[p]
  <2>1. PICK n \in 0..Len(index[p]) : /\ Safe(p) = SubSeq(index[p], 1, n)
                                      /\ n < Len(index[p]) => file[index[p][n + 1]] # "good"
    BY Parts, SafeIs DEF ProjectOf
  <2>2. n = Len(index[p]) /\ index[p] \in Seq(Revision)
    BY <1>2, <2>1, Lengths
  <2>3. QED
    BY <2>1, <2>2
<1>7. Safe(p) \o Added(p) = index[p] /\ Loose(p) \ (rejected[p] \cup Barred(p)) = {}
  BY <1>5, <1>6, BaseIs
<1>8. Outcome(p) = Adopted(index[p], {})
  BY <1>2, <1>7, OutcomeIs
<1>9. Adopted(index[p], {}) = index[p]
  BY AdoptedIs, Parts, Lengths DEF ProjectOf
<1>10. QED
  BY <1>1, <1>2, <1>3, <1>4, <1>8, <1>9

------------------------------------------------------------------------------
(* The selection, when no revision file is damaged and no manifest replaced *)

\* An index of whole revisions is safe as it is.
LEMMA WholeIsSafe ==
  ASSUME RInv, NEW p \in Project, \A i \in 1..Len(index[p]) : file[index[p][i]] = "good"
  PROVE  Safe(p) = index[p]
<1>1. PICK n \in 0..Len(index[p]) : /\ Safe(p) = SubSeq(index[p], 1, n)
                                    /\ n < Len(index[p]) => file[index[p][n + 1]] # "good"
  BY Parts, SafeIs DEF ProjectOf
<1>2. n = Len(index[p]) /\ index[p] \in Seq(Revision)
  BY <1>1, Lengths
<1>3. QED
  BY <1>1, <1>2

\* What NoRollback excludes.
LEMMA NoneLost ==
  ASSUME NoRollback
  PROVE  /\ \A q \in Project : ~ RestoreManifest(q)
         /\ \A x \in Revision : ~ SpoilRevision(x)
BY DEF NoRollback, RestoreManifest, SpoilRevision, Harm

\* Indexed revisions stay whole.
LEMMA GoodStep ==
  ASSUME RInv, SInv, NoRollback, Next, NEW p \in Project, NEW r \in Indexed(p)
  PROVE  file'[r] = "good"
<1>0. r \in Revision /\ body[r].project = p /\ file[r] = "good"
  BY IndexedIs, Parts DEF ProjectOf, Chain, SInv, UpdatedOf
<1>1. CASE Quarantined(r)
  <2>1. op.cur = p
    BY <1>0, <1>1 DEF Quarantined, OnDisk, RevisionsOf
  <2>2. Safe(p) = index[p]
    BY WholeIsSafe DEF SInv, UpdatedOf
  <2>3. QED
    BY <1>0, <1>1, <2>1, <2>2 DEF Quarantined, Unindexed, Indexed
<1>2. CASE op = Idle /\ file'[r] = "bad"
  <2>1. op.phase = "idle"
    BY <1>2 DEF Idle
  <2>2. ASSUME NEW q \in Project, ForeignRevision(q) PROVE file' = [file EXCEPT ![made + 1] = "good"]
    BY <2>2 DEF ForeignRevision
  <2>3. ASSUME NEW q \in Project
        PROVE  ~ (\/ RecoverIndexed(q) \/ RejectPending(q) \/ QuarantinePending(q)
                  \/ RecoverOrphans(q) \/ WriteRevision(q))
    BY <2>1 DEF RecoverIndexed, RejectPending, QuarantinePending, RecoverOrphans, WriteRevision, In
  <2>4. file' = file \/ file' = [file EXCEPT ![made + 1] = "good"]
    BY <2>2, <2>3, NoneLost, Frames DEF FileMoves
  <2>5. QED
    BY <1>0, <1>2, <2>4, Parts DEF Types
<1>3. QED
  BY <1>0, <1>1, <1>2, FileSteps DEF FileStep

\* The indexes stay whole.
LEMMA WholeKept ==
  ASSUME RInv, SInv, NoRollback, Next, NEW p \in Project
  PROVE  \A i \in 1..Len(index'[p]) : file'[index'[p][i]] = "good"
<1>0. Len(index[p]) \in Nat /\ Len(index'[p]) \in Nat
  BY Lengths, ManifestStep
<1>1. \A i \in 1..Len(index[p]) : file'[index[p][i]] = "good"
  BY GoodStep, IndexedIs, Parts
<1>2. CASE index'[p] = index[p]
  BY <1>1, <1>2
<1>3. CASE Restored(p) \/ Recovering(p)
  <2>1. Len(index'[p]) <= Len(index[p]) /\ \A i \in 1..Len(index'[p]) : index'[p][i] = index[p][i]
    BY <1>3 DEF Restored, Recovering, Shorter
  <2>2. QED
    BY <1>0, <1>1, <2>1
<1>4. ASSUME NEW S, Grew(body, made, p, index[p], S, index'[p]), \A r \in S : file'[r] = "good"
      PROVE  \A i \in 1..Len(index'[p]) : file'[index'[p][i]] = "good"
  <2>1. SUFFICES ASSUME NEW i \in 1..Len(index'[p]) PROVE file'[index'[p][i]] = "good"
    OBVIOUS
  <2>2. CASE i <= Len(index[p])
    BY <1>0, <1>1, <1>4, <2>2 DEF Grew
  <2>3. CASE ~ (i <= Len(index[p]))
    BY <1>0, <1>4, <2>3 DEF Grew
  <2>4. QED
    BY <2>2, <2>3
<1>5. CASE Finished(p)
  BY <1>4, <1>5 DEF Finished, Confirmed, Pending
<1>6. CASE Saved(p)
  BY <1>4, <1>6 DEF Saved, RInv, Saving
<1>7. CASE Adopting(p)
  BY <1>4, <1>7 DEF Adopting
<1>8. QED
  BY <1>2, <1>3, <1>5, <1>6, <1>7, IndexStep

\* The time of the last write of a manifest is the time of its latest revision.
LEMMA UpdatedStep ==
  ASSUME RInv, SInv, NoRollback, Next, NEW p \in Project
  PROVE  UpdatedOf(p)'
<1> DEFINE Dated == updated'[p] = 2 * Latest(p)'
<1>0. /\ Types /\ index[p] \in Seq(Revision) /\ Len(index[p]) \in Nat
      /\ updated[p] = 2 * Latest(p)
  BY Parts, Lengths DEF SInv, UpdatedOf
<1>1. ASSUME index'[p] = index[p], updated'[p] = updated[p] PROVE Dated
  BY <1>0, <1>1 DEF Latest
<1>2. ASSUME NEW s, s # <<>>, index'[p] = s, updated'[p] = 2 * Last(s) PROVE Dated
  BY <1>2 DEF Latest
<1>3. ASSUME NEW r \in Revision, index'[p] = Append(index[p], r), updated'[p] = 2 * r PROVE Dated
  <2>1. Append(index[p], r) # <<>> /\ Last(Append(index[p], r)) = r
    BY <1>0 DEF Last
  <2>2. QED
    BY <1>2, <1>3, <2>1
<1> HIDE DEF Dated
<1>4. ASSUME NEW q \in Project, RecoverIndexed(q) PROVE Dated
  <2>1. Indexed(q) \ ToSet(Safe(q)) = {}
    BY WholeIsSafe DEF SInv, UpdatedOf, Indexed
  <2>2. index' = index /\ updated' = updated
    BY <1>4, <2>1 DEF RecoverIndexed, Nothing, manifest
  <2>3. QED
    BY <1>1, <2>2
<1>5. ASSUME NEW q \in Project, RejectPending(q) PROVE Dated
  <2>1. \/ index' = index /\ updated' = updated
        \/ index' = [index EXCEPT ![q] = index[q]] /\ updated' = [updated EXCEPT ![q] = updated[q]]
    BY <1>5 DEF RejectPending, WriteManifest, Quarantine, manifest
  <2>2. QED
    BY <1>0, <1>1, <2>1 DEF Types
<1>6. ASSUME NEW q \in Project, FinishPending(q) PROVE Dated
  <2>1. \/ index' = index /\ updated' = updated
        \/ /\ index' = [index EXCEPT ![q] = Append(index[q], receipt[q].rev)]
           /\ updated' = [updated EXCEPT ![q] = 2 * receipt[q].rev]
           /\ receipt[q].state # "none"
    BY <1>6 DEF FinishPending, WriteManifest, WritePointer, Repair, DropReceipt, manifest, Confirmed
  <2>2. receipt[q].state # "none" => receipt[q].rev \in Revision
    BY ReceiptIs
  <2>3. QED
    BY <1>0, <1>1, <1>3, <2>1, <2>2 DEF Types
<1>7. ASSUME NEW q \in Project, RecoverOrphans(q) PROVE Dated
  <2> DEFINE ids == Adopted(index[q], Unindexed(q))
             rest == Unindexed(q) \ ToSet(ids)
  <2>1. /\ Grew(body, made, q, index[q], Unindexed(q), ids)
        /\ index[q] \in Seq(Revision) /\ Len(index[q]) \in Nat
    BY AdoptedIs, UnindexedAre, Parts, Lengths DEF ProjectOf
  <2>2. \/ index' = index /\ updated' = updated
        \/ /\ index' = [index EXCEPT ![q] = ids] /\ Unindexed(q) # {}
           /\ updated' = [updated EXCEPT ![q] = IF rest # {} /\ ids = index[q] THEN updated[q]
                                                ELSE 2 * Last(ids)]
    BY <1>7 DEF RecoverOrphans, WriteManifest, Quarantine, Nothing, manifest
  <2> HIDE DEF ids
  <2>3. ids = index[q] \/ ids # <<>>
    <3>1. CASE index[q] = <<>>
      BY <3>1
    <3>2. CASE index[q] # <<>>
      <4>1. Len(index[q]) # 0 /\ Len(ids) >= Len(index[q])
        BY <2>1, <3>2 DEF Grew
      <4>2. ids # <<>>
        BY <2>1, <4>1
      <4>3. QED
        BY <4>2
    <3>3. QED
      BY <3>1, <3>2
  <2>4. ids = index[q] => rest = Unindexed(q)
    BY DEF Unindexed, Indexed
  <2>5. CASE q = p
    BY <1>0, <1>1, <1>2, <2>2, <2>3, <2>4, <2>5 DEF Types
  <2>6. CASE q # p
    BY <1>0, <1>1, <2>2, <2>6 DEF Types
  <2>7. QED
    BY <2>5, <2>6
<1>8. ASSUME NEW q \in Project, WriteIndex(q) PROVE Dated
  <2>1. /\ index' = [index EXCEPT ![q] = Append(index[q], op.rev)]
        /\ updated' = [updated EXCEPT ![q] = 2 * op.rev]
    BY <1>8 DEF WriteIndex, WriteManifest
  <2>2. op.rev \in Revision
    BY <1>8, Parts DEF WriteIndex, In, RInv, Saving, Writing
  <2>3. QED
    BY <1>0, <1>1, <1>3, <2>1, <2>2 DEF Types
<1>9. ASSUME UNCHANGED <<index, updated>> PROVE Dated
  BY <1>1, <1>9
<1>10. \/ index' = index /\ updated' = updated
       \/ IndexMoves \/ ManifestMoves
  BY Frames
<1>11. Dated
  BY <1>4, <1>5, <1>6, <1>7, <1>8, <1>9, <1>10, NoneLost DEF IndexMoves, ManifestMoves
<1>12. QED
  BY <1>11, WholeKept DEF Dated, UpdatedOf

\* A step of a read leaves the kind of the method and its choice alone.
LEMMA SelectingReads ==
  ASSUME RInv, SInv, NoRollback, Next, NEW q \in Project, Read(q)
  PROVE  Selecting'
<1>0. /\ Types /\ op \in Methods /\ Selecting /\ Stage
      /\ Idle.kind = "idle" /\ Idle.phase = "idle"
      /\ op.left \subseteq Project
  BY Parts, MethodsKeep DEF Types, RInv, SInv, Idle
<1>a. ASSUME Latest(q) # 0 PROVE index[q] # <<>>
  BY <1>a DEF Latest
<1>b. ASSUME op.cur = q, op'.cur = q, op'.kind = op.kind, op'.left = op.left,
             op.phase \in Working, op'.phase \in Working \ Writing,
             health' = health, pointer' = pointer,
             \A p \in Project : p # q => index'[p] = index[p],
             index'[q] = index[q] \/ index'[q] # <<>>
      PROVE  Selecting'
  <2>1. op'.phase # "next" /\ op'.phase # "fall" /\ op.phase # "next" /\ op.phase # "fall"
    BY <1>b DEF Working, Past, Recovered, Settling, Writing
  <2>2. pointer.state = "ok" => pointer.project \in Project
    BY Parts DEF RInv, PointerOf
  <2>3. \A p \in Project : p # q => Latest(p)' = Latest(p)
    BY <1>b DEF Latest
  <2>4. \A p \in Project : index[p] # <<>> => index'[p] # <<>>
    BY <1>b
  <2>5. QED
    BY <1>0, <1>b, <2>1, <2>2, <2>3, <2>4 DEF Selecting
<1>c. ASSUME op.cur = q, op'.cur = q, op'.kind = op.kind, op'.left = op.left,
             op.phase \in Working, op'.phase \in Working \ Writing, op.phase # "manifest",
             UNCHANGED <<health, index>>, index[q] # <<>>,
             \/ pointer' = NoPointer /\ pointer.state # "ok"
             \/ pointer'.state = "ok" /\ pointer'.project = q
                /\ (pointer.state # "ok" \/ op.kind \notin {"current"} \/ pointer.project = q)
      PROVE  Selecting'
  <2>1. op'.phase # "next" /\ op'.phase # "fall" /\ op.phase # "next" /\ op.phase # "fall"
    BY <1>c DEF Working, Past, Recovered, Settling, Writing
  <2>2. health[q] = "ok"
    BY <1>0, <1>c DEF Stage
  <2>3. QED
    BY <1>0, <1>c, <2>1, <2>2 DEF Selecting, NoPointer
<1>d. ASSUME Repair(q), index[q] # <<>>
      PROVE  /\ UNCHANGED <<health, index>>
             /\ \/ pointer' = NoPointer /\ pointer.state # "ok"
                \/ pointer'.state = "ok" /\ pointer'.project = q
  BY <1>d DEF Repair, WritePointer, manifest
<1>1. CASE NextProject(q)
  <2>1. /\ op.phase = "next" /\ q \in op.left /\ UNCHANGED <<health, index, pointer>>
        /\ op' = [op EXCEPT !.left = @ \ {q}, !.cur = q, !.force = FALSE, !.phase = "manifest"]
    BY <1>1 DEF NextProject, Nothing, manifest
  <2>2. op'.kind = op.kind /\ op'.cur = q /\ op'.left \subseteq op.left /\ op'.phase = "manifest"
    BY <1>0, <2>1 DEF Methods
  <2>3. QED
    BY <1>0, <2>1, <2>2 DEF Selecting, Writing, Latest
<1>2. CASE ReadManifest(q)
  <2>1. /\ op.phase = "manifest" /\ op.cur = q /\ UNCHANGED <<index, pointer>>
        /\ \A p \in Project : health[p] = "ok" => health'[p] = "ok"
    BY <1>0, <1>2 DEF ReadManifest, In, Types
  <2>2. \/ health[q] = "ok" /\ op' = [op EXCEPT !.phase = "indexed"]
        \/ health[q] # "ok" /\ op.kind \in {"list", "fallback"} /\ op' = [op EXCEPT !.phase = "next"]
        \/ health[q] # "ok" /\ op.kind = "current" /\ op' = [op EXCEPT !.phase = "fall"]
        \/ op' = Idle
    BY <1>2 DEF ReadManifest, To
  <2>3. pointer.state = "ok" => pointer.project \in Project
    BY Parts DEF RInv, PointerOf
  <2>4. CASE op' = Idle
    BY <1>0, <2>4 DEF Selecting, Writing
  <2>5. CASE op' # Idle
    <3>1. /\ op'.kind = op.kind /\ op'.cur = q /\ op'.left = op.left
          /\ \/ health[q] = "ok" /\ op'.phase = "indexed"
             \/ health[q] # "ok" /\ op.kind # "current" /\ op'.phase = "next"
             \/ health[q] # "ok" /\ op.kind = "current" /\ op'.phase = "fall"
      BY <1>0, <2>1, <2>2, <2>5 DEF Methods
    <3>2. QED
      BY <1>0, <2>1, <2>3, <3>1 DEF Selecting, Writing, Latest
  <2>6. QED
    BY <2>4, <2>5
<1>3. CASE RecoverIndexed(q)
  <2>1. Indexed(q) \ ToSet(Safe(q)) = {}
    BY WholeIsSafe DEF SInv, UpdatedOf, Indexed
  <2>2. /\ op.phase = "indexed" /\ op.cur = q /\ op' = [op EXCEPT !.phase = "pending"]
        /\ UNCHANGED <<health, index, pointer>>
    BY <1>3, <2>1 DEF RecoverIndexed, Nothing, manifest, In, To
  <2>3. op'.kind = op.kind /\ op'.cur = q /\ op'.left = op.left /\ op'.phase = "pending"
    BY <1>0, <2>2 DEF Methods
  <2>4. QED
    BY <1>b, <2>2, <2>3 DEF Working, Past, Writing
<1>4. CASE RejectPending(q) \/ QuarantinePending(q)
  <2>1. /\ op.phase = "pending" /\ op.cur = q /\ op' = op /\ UNCHANGED <<health, pointer>>
        /\ index' = index \/ index' = [index EXCEPT ![q] = index[q]]
    BY <1>4 DEF RejectPending, QuarantinePending, WriteManifest, Quarantine, manifest, In
  <2>2. \A p \in Project : index'[p] = index[p]
    BY <1>0, <2>1 DEF Types
  <2>3. QED
    BY <1>b, <2>1, <2>2 DEF Working, Past, Writing
<1>5. CASE DropPending(q) \/ NoPending(q)
  <2>1. /\ op.phase = "pending" /\ op.cur = q /\ op' = [op EXCEPT !.phase = "orphans"]
        /\ UNCHANGED <<health, pointer, index>>
    BY <1>5 DEF DropPending, NoPending, DropReceipt, Nothing, manifest, In, To
  <2>2. op'.kind = op.kind /\ op'.cur = q /\ op'.left = op.left /\ op'.phase = "orphans"
    BY <1>0, <2>1 DEF Methods
  <2>3. QED
    BY <1>b, <2>1, <2>2 DEF Working, Past, Recovered, Writing
<1>6. CASE FinishPending(q)
  <2>0. op.phase = "pending" /\ op.cur = q
    BY <1>6 DEF FinishPending, In
  <2>1. CASE receipt[q].rev \notin Indexed(q)
    <3>1. /\ index' = [index EXCEPT ![q] = Append(index[q], receipt[q].rev)]
          /\ op' = op /\ UNCHANGED <<health, pointer>>
      BY <1>6, <2>1 DEF FinishPending, WriteManifest
    <3>2. index'[q] # <<>> /\ \A p \in Project : p # q => index'[p] = index[p]
      BY <1>0, <3>1, Lengths DEF Types
    <3>3. QED
      BY <1>b, <2>0, <3>1, <3>2 DEF Working, Past, Writing
  <2>2. CASE receipt[q].rev \in Indexed(q) /\ ~ Settled(q, TRUE, receipt[q].rev)
    <3>1. Repair(q) /\ op' = op
      BY <1>6, <2>2 DEF FinishPending
    <3>2. index[q] # <<>>
      BY <2>2, IndexedIs, Parts
    <3>3. QED
      BY <1>0, <1>c, <1>d, <2>0, <3>1, <3>2 DEF Working, Past, Writing, Selecting
  <2>3. CASE receipt[q].rev \in Indexed(q) /\ Settled(q, TRUE, receipt[q].rev)
    <3>1. /\ UNCHANGED <<health, index, pointer>>
          /\ op' = [op EXCEPT !.phase = "orphans", !.force = TRUE]
      BY <1>6, <2>3 DEF FinishPending, DropReceipt, manifest
    <3>2. op'.kind = op.kind /\ op'.cur = q /\ op'.left = op.left /\ op'.phase = "orphans"
      BY <1>0, <2>0, <3>1 DEF Methods
    <3>3. QED
      BY <1>b, <2>0, <3>1, <3>2 DEF Working, Past, Recovered, Writing
  <2>4. QED
    BY <2>1, <2>2, <2>3
<1>7. CASE RecoverOrphans(q)
  <2>0. op.phase = "orphans" /\ op.cur = q
    BY <1>7 DEF RecoverOrphans, In
  <2>1. /\ UNCHANGED <<health, pointer>>
        /\ \/ op' = op \/ op' = [op EXCEPT !.phase = "repair"]
           \/ \E f : op' = [op EXCEPT !.force = f]
    BY <1>7 DEF RecoverOrphans, Quarantine, WriteManifest, Nothing, manifest, To
  <2>2. op'.kind = op.kind /\ op'.cur = q /\ op'.left = op.left /\ op'.phase \in {"orphans", "repair"}
    BY <1>0, <2>0, <2>1 DEF Methods
  <2>3. index' = index \/ index' = [index EXCEPT ![q] = Adopted(index[q], Unindexed(q))]
    BY <1>7 DEF RecoverOrphans, Quarantine, WriteManifest, Nothing, manifest
  <2>4. /\ Grew(body, made, q, index[q], Unindexed(q), Adopted(index[q], Unindexed(q)))
        /\ index[q] \in Seq(Revision) /\ Len(index[q]) \in Nat
    BY AdoptedIs, UnindexedAre, Parts, Lengths DEF ProjectOf
  <2> DEFINE ids == Adopted(index[q], Unindexed(q))
  <2> HIDE DEF ids
  <2>5. index[q] # <<>> => ids # <<>>
    <3>1. SUFFICES ASSUME index[q] # <<>> PROVE ids # <<>>
      OBVIOUS
    <3>2. Len(index[q]) # 0 /\ Len(ids) >= Len(index[q]) /\ ids \in Seq(Revision)
      BY <2>4, <3>1 DEF Grew, ids
    <3>3. QED
      BY <2>4, <3>2
  <2>6. /\ \A p \in Project : p # q => index'[p] = index[p]
        /\ index'[q] = index[q] \/ index'[q] = ids
    BY <1>0, <2>3 DEF Types, ids
  <2>7. index'[q] = index[q] \/ index'[q] # <<>>
    <3>1. ids = <<>> => index[q] = <<>>
      BY <2>5
    <3>2. QED
      BY <2>6, <3>1
  <2>8. QED
    BY <1>b, <2>0, <2>1, <2>2, <2>6, <2>7 DEF Working, Past, Recovered, Settling, Writing
<1>8. CASE RepairPointer(q)
  <2>0. op.phase = "repair" /\ op.cur = q
    BY <1>8 DEF RepairPointer, In
  <2>1. CASE Latest(q) = 0 \/ Settled(q, op.force, 0)
    <3>1. /\ UNCHANGED <<health, index, pointer>>
          /\ \/ op.kind \in {"list", "fallback"} /\ op' = [op EXCEPT !.phase = "next"]
             \/ op.kind \notin {"list", "fallback"} /\ op' = [op EXCEPT !.phase = "read"]
      BY <1>8, <2>1 DEF RepairPointer, Nothing, manifest, To
    <3>2. /\ op'.kind = op.kind /\ op'.cur = q /\ op'.left = op.left
          /\ \/ op.kind \in {"list", "fallback"} /\ op'.phase = "next"
             \/ op.kind \notin {"list", "fallback"} /\ op'.phase = "read"
      BY <1>0, <2>0, <3>1 DEF Methods
    <3>3. pointer.state = "ok" /\ pointer.project = q /\ index[q] # <<>> => pointer.rev = Latest(q)
      BY <2>1, LatestIs DEF Settled
    <3>4. QED
      BY <1>0, <2>0, <3>1, <3>2, <3>3 DEF Selecting, Writing, Latest
  <2>2. CASE ~ (Latest(q) = 0 \/ Settled(q, op.force, 0))
    <3>1. Repair(q) /\ op' = op /\ index[q] # <<>>
      BY <1>8, <1>a, <2>2 DEF RepairPointer
    <3>2. QED
      BY <1>0, <1>c, <1>d, <2>0, <3>1 DEF Working, Past, Recovered, Settling, Writing, Selecting
  <2>3. QED
    BY <2>1, <2>2
<1>9. QED
  BY <1>1, <1>2, <1>3, <1>4, <1>5, <1>6, <1>7, <1>8 DEF Read

\* Every step keeps what current() and its fallback know of the pointer.
LEMMA SelectingStep ==
  ASSUME RInv, SInv, NoRollback, Next
  PROVE  Selecting'
<1>0. op \in Methods /\ Selecting /\ Idle.kind = "idle" /\ Idle.phase = "idle"
  BY Parts DEF Types, SInv, Idle
<1>1. ASSUME NEW q \in Project, Read(q) PROVE Selecting'
  BY <1>1, SelectingReads
<1>2. ASSUME NEW q \in Project, Write(q) PROVE Selecting'
  <2>1. op.kind = "save"
    BY <1>0, <1>2 DEF Write, Prepare, WriteReceipt, WriteRevision, WriteIndex, WriteCurrent, Commit,
       In, Selecting, Writing
  <2>2. op' = Idle \/ op'.kind = "save"
    BY <1>0, <1>2, <2>1 DEF Write, Prepare, WriteReceipt, WriteRevision, WriteIndex, WriteCurrent,
       Commit, To, Methods
  <2>3. QED
    BY <1>0, <2>2 DEF Selecting, Writing
<1>3. ASSUME op' = Idle PROVE Selecting'
  BY <1>0, <1>3 DEF Selecting, Writing
<1>4. ASSUME NEW q \in Project,
             \/ CreateProject(q) \/ SpoilManifest(q) \/ RestoreManifest(q)
             \/ SpoilReceipt(q) \/ LoseReceipt(q) \/ ForeignRevision(q)
      PROVE  Selecting'
  BY <1>3, <1>4 DEF CreateProject, SpoilManifest, RestoreManifest, SpoilReceipt, LoseReceipt,
     ForeignRevision, Harm
<1>5. ASSUME NEW x \in Revision, SpoilRevision(x) PROVE Selecting'
  BY <1>3, <1>5 DEF SpoilRevision, Harm
<1>6. ASSUME ListEnds \/ GetEnds \/ Select \/ Interrupt \/ SpoilPointer PROVE Selecting'
  BY <1>3, <1>6 DEF ListEnds, GetEnds, Select, Interrupt, SpoilPointer, Harm
<1>7. ASSUME List PROVE Selecting'
  BY <1>7 DEF List, Begin, Idle, Selecting, Writing
<1>8. ASSUME Current PROVE Selecting'
  <2>1. pointer' = pointer
    BY <1>8 DEF Current, Begin, Nothing
  <2>2. \/ op' = [Idle EXCEPT !.kind = "current", !.phase = "fall"]
        \/ /\ pointer.state = "ok"
           /\ op' = [Idle EXCEPT !.kind = "current", !.phase = "next",
                                 !.left = {pointer.project}, !.base = pointer.rev]
    BY <1>8 DEF Current, Begin
  <2>3. \/ op'.kind = "current" /\ op'.phase = "fall"
        \/ /\ pointer.state = "ok" /\ op'.kind = "current" /\ op'.phase = "next"
           /\ op'.left = {pointer.project}
    BY <2>2 DEF Idle
  <2>4. QED
    BY <2>1, <2>3 DEF Selecting, Writing
<1>9. ASSUME Fall PROVE Selecting'
  BY <1>9 DEF Fall, WritePointer, NoPointer, Idle, Selecting, Writing
<1>10. ASSUME CurrentEnds PROVE Selecting'
  <2>1. op' = Idle \/ op' = [op EXCEPT !.phase = "fall"]
    BY <1>10 DEF CurrentEnds, To
  <2>2. op' = Idle \/ (op'.kind = "current" /\ op'.phase = "fall")
    BY <1>0, <1>10, <2>1 DEF CurrentEnds, Methods
  <2>3. QED
    BY <1>3, <2>2 DEF Selecting, Writing
<1>11. ASSUME NEW q \in Project, Get(q) PROVE Selecting'
  BY <1>11 DEF Get, Begin, Idle, Selecting, Writing
<1>12. ASSUME NEW q \in Project, NEW base, NEW strict, Save(q, base, strict) PROVE Selecting'
  BY <1>12 DEF Save, Begin, Idle, Selecting, Writing
<1>13. QED
  BY <1>1, <1>2, <1>4, <1>5, <1>6, <1>7, <1>8, <1>9, <1>10, <1>11, <1>12
     DEF Next, Method, Damage

\* The pointer moves to another project by a later selection only.
LEMMA SelectionStep ==
  ASSUME RInv, SInv, NoRollback, Next,
         pointer.state = "ok", pointer'.state = "ok", pointer'.project # pointer.project
  PROVE  pointer'.rev > pointer.rev
<1>0. /\ Types /\ made \in Nat /\ Saving /\ Stage /\ Selecting
      /\ pointer.project \in Project /\ pointer.rev \in 1..made
      /\ pointer.rev <= pointer.at /\ pointer.at <= made
      /\ body[pointer.rev].project = pointer.project
      /\ pointer.at \in Nat
  BY Parts, Numbers DEF RInv, SInv, PointerOf, Types, Pointers
<1>1. ASSUME NEW q \in Project, FinishPending(q) PROVE pointer'.rev > pointer.rev
  <2> DEFINE r == receipt[q].rev
  <2>1. r \in Indexed(q) /\ ~ Settled(q, TRUE, r) /\ Repair(q) /\ receipt[q].state = "ok"
    BY <1>1 DEF FinishPending, WriteManifest, DropReceipt, Confirmed
  <2>2. pointer'.project = q /\ pointer'.rev = Latest(q)
    BY <2>1 DEF Repair, WritePointer
  <2>3. /\ r \in 1..made /\ body[r].ordinal = receipt[q].count + 1
        /\ Len(index[q]) <= receipt[q].count + 1
        /\ Len(index[q]) = receipt[q].count + 1 => index[q][receipt[q].count + 1] = r
        /\ receipt[q].count \in Nat
    BY <2>1, Parts, ReceiptIs, Numbers DEF ReceiptOf, Receipts
  <2>4. PICK i \in 1..Len(index[q]) : index[q][i] = r
    BY <2>1, IndexedIs, Parts
  <2>5. body[r].ordinal = i
    BY <2>4, Parts DEF ProjectOf, Chain
  <2>6. Latest(q) = r
    BY <2>3, <2>4, <2>5, IndexedIs, Parts
  <2>7. r > pointer.at
    BY <1>0, <2>1, <2>2, <2>3 DEF Settled
  <2>8. QED
    BY <1>0, <2>2, <2>3, <2>6, <2>7
<1>2. ASSUME NEW q \in Project PROVE ~ RepairPointer(q)
  <2>1. SUFFICES ASSUME RepairPointer(q) PROVE FALSE
    OBVIOUS
  <2>2. ~ Settled(q, op.force, 0) /\ Repair(q)
    BY <2>1 DEF RepairPointer, Nothing
  <2>3. pointer'.project = q
    BY <2>2 DEF Repair, WritePointer
  <2>4. QED
    BY <1>0, <2>2, <2>3 DEF Settled
<1>3. ASSUME NEW q \in Project, WriteCurrent(q) PROVE pointer'.rev > pointer.rev
  <2>1. /\ op.phase = "select" /\ op.cur = q
        /\ pointer' = [state |-> "ok", project |-> q, rev |-> op.rev, at |-> made]
    BY <1>3 DEF WriteCurrent, In, WritePointer
  <2>2. op.rev = made /\ receipt[q].state = "ok" /\ receipt[q].rev = op.rev
    BY <1>0, <2>1 DEF Saving, Writing
  <2>3. body[op.rev].project = q
    BY <2>2, Parts DEF ReceiptOf
  <2>4. QED
    BY <1>0, <2>1, <2>2, <2>3
<1>4. ~ CurrentEnds
  <2>1. SUFFICES ASSUME CurrentEnds PROVE FALSE
    OBVIOUS
  <2>2. op.kind = "current" /\ op.phase = "read" /\ pointer'.project = op.cur
    BY <2>1 DEF CurrentEnds, Nothing, WritePointer
  <2>3. QED
    BY <1>0, <2>2 DEF Selecting
<1>5. ~ Fall /\ ~ SpoilPointer
  BY DEF Fall, SpoilPointer, WritePointer, NoPointer
<1>6. CASE Select
  <2> DEFINE c == pointer.project
  <2>1. op.kind = "fallback" /\ op.phase = "next"
    BY <1>6 DEF Select
  <2>2. health[c] = "ok" /\ index[c] # <<>> /\ pointer.rev = Latest(c)
    BY <1>0, <2>1 DEF Selecting
  <2>3. c \in Listed /\ Latest(c) # 0
    BY <1>0, <2>2, LatestIs DEF Listed
  <2>4. PICK p \in Listed : /\ Latest(p) # 0 /\ updated[c] <= updated[p]
                            /\ pointer' = [state |-> "ok", project |-> p, rev |-> Latest(p),
                                           at |-> made]
    BY <1>6, <2>3 DEF Select, Nothing, WritePointer
  <2>5. p \in Project /\ updated[c] = 2 * Latest(c) /\ updated[p] = 2 * Latest(p)
    BY <1>0 DEF SInv, UpdatedOf, Listed
  <2>6. Latest(c) \in Nat /\ Latest(p) \in Nat /\ body[Latest(p)].project = p
    BY <1>0, <2>3, <2>4, <2>5, LatestIs
  <2>7. QED
    BY <1>0, <2>2, <2>4, <2>5, <2>6
<1>7. QED
  BY <1>1, <1>2, <1>3, <1>4, <1>5, <1>6, Frames DEF PointerMoves

\* What the selection rests on is inductive, too.
LEMMA SelectingInv ==
  /\ Init => SInv
  /\ RInv /\ SInv /\ NoRollback /\ [Next]_vars => SInv'
<1>1. Init => SInv
  BY DEF Init, SInv, UpdatedOf, Selecting, Latest, Idle, Writing
<1>2. ASSUME RInv, SInv, NoRollback, Next PROVE SInv'
  BY <1>2, UpdatedStep, SelectingStep DEF SInv
<1>3. ASSUME SInv, UNCHANGED vars PROVE SInv'
  BY <1>3 DEF SInv, UpdatedOf, Selecting, Latest, vars
<1>4. QED
  BY <1>1, <1>2, <1>3

------------------------------------------------------------------------------
(* Recovery keeps what a read would show *)

\* What a read starts from, and the orphans that it considers.
Base(p) == Safe(p) \o Added(p)
Rest(p) == Loose(p) \ (rejected[p] \cup Barred(p))

\* Adopted as a function of the revisions' bodies.
AdoptedBy(b, s, orphans) ==
    IF orphans = {} THEN s
    ELSE (CHOOSE g : Growth(b, s, orphans, g, Cardinality(orphans)))[Cardinality(orphans)]

\* Adopted does not depend on the state in any other way.
LEMMA AdoptedByIs ==
  ASSUME NEW s, NEW orphans
  PROVE  Adopted(s, orphans) = AdoptedBy(body, s, orphans)
BY DEF Adopted, AdoptedBy, Growth, Grown, Candidates, Extends

OutcomesAre ==
    \A p \in Project :
        Outcome(p) = IF health[p] # "ok" THEN <<>> ELSE AdoptedBy(body, Base(p), Rest(p))

\* Outcome, as a function of where a read starts and the orphans it considers.
LEMMA OutcomeBy == OutcomesAre
BY OutcomeIs, AdoptedByIs DEF OutcomesAre, Base, Rest

\* The same is true after a step.
LEMMA OutcomeByNext == OutcomesAre'
BY OutcomeBy, PTL

\* What a read would show is told by its start and its orphans.
LEMMA OutcomeTold ==
  ASSUME NEW p \in Project, body' = body, health'[p] = "ok" <=> health[p] = "ok",
         health[p] = "ok" => Base(p)' = Base(p) /\ Rest(p)' = Rest(p)
  PROVE  Outcome(p)' = Outcome(p)
BY OutcomeBy, OutcomeByNext DEF OutcomesAre

\* The safe revisions are the first ones, as long as they are whole.
SafeOnes ==
    \A p \in Project :
        \E n \in 0..Len(index[p]) :
           /\ Safe(p) = SubSeq(index[p], 1, n)
           /\ \A i \in 1..n : file[index[p][i]] = "good"
           /\ n < Len(index[p]) => file[index[p][n + 1]] # "good"

\* What SafeOnes says follows from the invariant, ...
LEMMA SafeAreFirst == RInv => SafeOnes
BY Parts, SafeIs DEF ProjectOf, SafeOnes

\* ... after a step, too.
LEMMA SafeAreFirstNext == RInv' => SafeOnes'
BY SafeAreFirst, PTL

WholeOnes ==
    \A p \in Project :
        (\A i \in 1..Len(index[p]) : file[index[p][i]] = "good") => Safe(p) = index[p]

\* An index that is whole is safe, ...
LEMMA WholeAreSafe == RInv => WholeOnes
BY WholeIsSafe DEF WholeOnes

\* ... after a step, too.
LEMMA WholeAreSafeNext == RInv' => WholeOnes'
BY WholeAreSafe, PTL

\* The safe revisions are whole and indexed.
LEMMA SafeMembers ==
  ASSUME RInv, NEW p \in Project, NEW r \in ToSet(Safe(p))
  PROVE  r \in Revision /\ body[r].project = p /\ file[r] = "good" /\ r \in Indexed(p)
<1>1. PICK n \in 0..Len(index[p]) : /\ Safe(p) = SubSeq(index[p], 1, n)
                                    /\ \A i \in 1..n : file[index[p][i]] = "good"
  BY SafeAreFirst DEF SafeOnes
<1> DEFINE t == SubSeq(index[p], 1, n)
<1>2. t \in Seq(Revision) /\ Len(t) = n /\ \A i \in 1..n : t[i] = index[p][i]
  BY Lengths
<1>3. r \in ToSet(t)
  BY <1>1
<1> HIDE DEF t
<1>4. PICK i \in 1..n : r = index[p][i]
  BY <1>2, <1>3, Members
<1>5. i \in 1..Len(index[p])
  BY Lengths
<1>6. QED
  BY <1>1, <1>4, <1>5, IndexedIs, Parts DEF ProjectOf, Chain

\* What is safe depends on which of the indexed revisions are whole.
LEMMA SafeSame ==
  ASSUME RInv, RInv', NEW p \in Project, index'[p] = index[p],
         \A i \in 1..Len(index[p]) : file'[index[p][i]] = "good" => file[index[p][i]] = "good",
         \A r \in ToSet(Safe(p)) : file'[r] = "good"
  PROVE  Safe(p)' = Safe(p)
<1>1. PICK n \in 0..Len(index[p]) :
         /\ Safe(p) = SubSeq(index[p], 1, n)
         /\ \A i \in 1..n : file[index[p][i]] = "good"
         /\ n < Len(index[p]) => file[index[p][n + 1]] # "good"
  BY SafeAreFirst DEF SafeOnes
<1>2. PICK m \in 0..Len(index[p]) :
         /\ Safe(p)' = SubSeq(index[p], 1, m)
         /\ \A i \in 1..m : file'[index[p][i]] = "good"
         /\ m < Len(index[p]) => file'[index[p][m + 1]] # "good"
  BY SafeAreFirstNext DEF SafeOnes
<1>3. Len(index[p]) \in Nat /\ index[p] \in Seq(Revision)
  BY Lengths
<1>4. \A i \in 1..n : file'[index[p][i]] = "good"
  <2> DEFINE t == SubSeq(index[p], 1, n)
  <2>1. t \in Seq(Revision) /\ Len(t) = n /\ \A i \in 1..n : t[i] = index[p][i]
    BY <1>1, <1>3
  <2> HIDE DEF t
  <2>2. \A i \in 1..n : index[p][i] \in ToSet(t)
    BY <2>1, Members
  <2>3. QED
    BY <1>1, <2>2 DEF t
<1>5. n = m
  <2>1. n < m => n + 1 \in 1..m /\ n + 1 \in 1..Len(index[p]) /\ n < Len(index[p])
    BY <1>3
  <2>2. ~ (n < m)
    BY <1>1, <1>2, <2>1
  <2>3. m < n => m + 1 \in 1..n /\ m < Len(index[p])
    BY <1>3
  <2>4. ~ (m < n)
    BY <1>2, <1>4, <2>3
  <2>5. QED
    BY <2>2, <2>4
<1>6. QED
  BY <1>1, <1>2, <1>5

\* A step that writes no receipt and keeps the safe and the loose revisions.
LEMMA StartSame ==
  ASSUME NEW p \in Project, body' = body, receipt'[p] = receipt[p],
         Safe(p)' = Safe(p), Loose(p)' = Loose(p)
  PROVE  Base(p)' = Base(p) /\ Barred(p)' = Barred(p)
<1>1. LatestSafe(p)' = LatestSafe(p)
  BY DEF LatestSafe
<1>2. Added(p)' = Added(p)
  BY <1>1 DEF Added, Extends
<1>3. QED
  BY <1>2 DEF Base, Barred

\* A step that leaves the files of p alone, or those that are not whole.
LEMMA OutcomeSame ==
  ASSUME RInv, RInv', NEW p \in Project, body' = body,
         health'[p] = "ok" <=> health[p] = "ok",
         index'[p] = index[p], receipt'[p] = receipt[p], rejected'[p] = rejected[p],
         \A r \in RevisionsOf(p) : file'[r] = "good" <=> file[r] = "good"
  PROVE  Outcome(p)' = Outcome(p)
<1>1. \A i \in 1..Len(index[p]) : index[p][i] \in RevisionsOf(p)
  BY IndexedIs, Parts DEF ProjectOf, Chain, RevisionsOf
<1>2. \A r \in ToSet(Safe(p)) : r \in RevisionsOf(p) /\ file[r] = "good"
  BY SafeMembers DEF RevisionsOf
<1>3. Safe(p)' = Safe(p)
  BY <1>1, <1>2, SafeSame
<1>4. Loose(p)' = Loose(p)
  BY DEF Loose, RevisionsOf, Indexed
<1>5. Rest(p)' = Rest(p) /\ Base(p)' = Base(p)
  BY <1>3, <1>4, StartSame DEF Rest
<1>6. QED
  BY <1>5, OutcomeTold

\* Loose revisions are unindexed ones.
LEMMA LooseAre ==
  ASSUME RInv, NEW p \in Project
  PROVE  \A r : r \in Loose(p) <=> r \in Unindexed(p) /\ file[r] = "good"
BY DEF Loose, Unindexed, OnDisk

\* Once the indexed revisions are recovered the index is safe.
LEMMA PastIs ==
  ASSUME RInv, NEW p \in Project, op.cur = p, op.phase \in Past
  PROVE  /\ health[p] = "ok" /\ Safe(p) = index[p]
         /\ \A i \in 1..Len(index[p]) : file[index[p][i]] = "good"
         /\ \A r \in Indexed(p) : file[r] = "good"
         /\ index[p] \in Seq(Revision) /\ Len(index[p]) \in Nat
<1>1. op.phase \in Working \ {"manifest"}
  BY DEF Working, Past, Recovered, Settling, Writing
<1>2. health[p] = "ok" /\ \A i \in 1..Len(index[p]) : file[index[p][i]] = "good"
  BY <1>1 DEF RInv, Stage
<1>3. QED
  BY <1>2, WholeIsSafe, IndexedIs, Parts

\* The receipt adds its revision when that can be appended.
LEMMA AddedIs ==
  ASSUME RInv, NEW p \in Project, Safe(p) = index[p]
  PROVE  Added(p) = IF Confirmed(p) /\ receipt[p].rev \notin Indexed(p) /\ Appendable(p)
                    THEN <<receipt[p].rev>> ELSE <<>>
<1>1. LatestSafe(p) = Latest(p)
  BY DEF LatestSafe, Latest
<1>2. receipt[p].rev \in Loose(p) <=> Pending(p, "good") /\ receipt[p].rev \notin Indexed(p)
  BY LooseAre DEF Pending, Unindexed
<1>3. QED
  BY <1>1, <1>2 DEF Added, Confirmed, Appendable

\* What a receipt disqualifies is barred, and then it adds nothing.
LEMMA DisqualifiedAre ==
  ASSUME RInv, NEW p \in Project, Safe(p) = index[p]
  PROVE  /\ \A r \in Disqualified(p) : r \in Loose(p) => r \in Barred(p)
         /\ Disqualified(p) # {} => Added(p) = <<>>
<1>1. receipt[p].rev \in ToSet(Safe(p)) <=> receipt[p].rev \in Indexed(p)
  BY DEF Indexed
<1>2. receipt[p].state \in {"none", "ok", "unreadable", "invalid", "mismatched"}
  BY ReceiptIs DEF Receipts
<1>3. ASSUME NEW r \in Disqualified(p), r \in Loose(p) PROVE r \in Barred(p)
  BY <1>1, <1>2, <1>3 DEF Disqualified, Barred
<1>4. ASSUME Disqualified(p) # {} PROVE Added(p) = <<>>
  <2>1. ~ (Confirmed(p) /\ Appendable(p))
    BY <1>4 DEF Disqualified, Confirmed
  <2>2. QED
    BY <2>1, AddedIs
<1>5. QED
  BY <1>3, <1>4

\* A revision that is not safe, not whole or disqualified is moved away.
LEMMA QuarantineKeeps ==
  ASSUME RInv, RInv', NEW p \in Project, NEW r \in Revision, Quarantine(r),
         r \notin ToSet(Safe(p)),
         r \in Loose(p) => r \in rejected[p] \cup Barred(p) /\ Added(p) = <<>>
  PROVE  Outcome(p)' = Outcome(p)
<1>1. /\ file' = [file EXCEPT ![r] = "quarantined"] /\ file \in [Revision -> Files]
      /\ UNCHANGED <<health, index, rejected, body, receipt>>
  BY Parts DEF Quarantine, manifest, Types
<1>2. \A x \in Revision : /\ file'[x] = "good" <=> file[x] = "good" /\ x # r
  BY <1>1
<1>3. Safe(p)' = Safe(p)
  <2>1. \A i \in 1..Len(index[p]) : index[p][i] \in Revision
    BY IndexedIs, Parts
  <2>2. QED
    BY <1>1, <1>2, <2>1, SafeSame, SafeMembers
<1>4. Loose(p)' = Loose(p) \ {r}
  BY <1>1, <1>2 DEF Loose, RevisionsOf, Indexed
<1>5. CASE r \notin Loose(p)
  <2>1. Loose(p)' = Loose(p)
    BY <1>4, <1>5
  <2>2. Base(p)' = Base(p) /\ Rest(p)' = Rest(p)
    BY <1>1, <1>3, <2>1, StartSame DEF Rest
  <2>3. QED
    BY <1>1, <2>2, OutcomeTold
<1>6. CASE r \in Loose(p)
  <2>1. Added(p) = <<>> /\ Added(p)' = <<>>
    <3>1. LatestSafe(p)' = LatestSafe(p)
      BY <1>3 DEF LatestSafe
    <3>2. Added(p) # <<receipt[p].rev>>
      BY <1>6
    <3>3. QED
      BY <1>1, <1>3, <1>4, <1>6, <3>1, <3>2 DEF Added, Extends
  <2>2. \/ Barred(p)' = Barred(p)
        \/ Barred(p) = Loose(p) /\ Barred(p)' = Loose(p)'
    BY <1>1, <1>3 DEF Barred
  <2>3. Rest(p)' = Rest(p)
    BY <1>1, <1>4, <1>6, <2>2 DEF Rest
  <2>4. QED
    BY <1>1, <1>3, <2>1, <2>3, OutcomeTold DEF Base
<1>7. QED
  BY <1>5, <1>6

\* The receipt is dropped when it neither adds nor bars anything.
LEMMA DropKeeps ==
  ASSUME RInv, RInv', NEW p \in Project, Added(p) = <<>>, Loose(p) \cap Barred(p) = {},
         receipt'[p].state = "none",
         UNCHANGED <<health, index, rejected, file, body>>
  PROVE  Outcome(p)' = Outcome(p)
<1>1. Safe(p)' = Safe(p)
  <2>1. \A i \in 1..Len(index[p]) : index[p][i] \in Revision
    BY IndexedIs, Parts
  <2>2. QED
    BY <2>1, SafeSame, SafeMembers
<1>2. Loose(p)' = Loose(p)
  BY DEF Loose, RevisionsOf, Indexed
<1>3. Added(p)' = <<>> /\ Barred(p)' = {}
  BY DEF Added, Barred
<1>4. Base(p)' = Base(p) /\ Rest(p)' = Rest(p)
  BY <1>1, <1>2, <1>3 DEF Base, Rest
<1>5. QED
  BY <1>4, OutcomeTold

\* The revision of the receipt is appended to a safe index.
LEMMA AppendKeeps ==
  ASSUME RInv, RInv', NEW p \in Project, op.cur = p, op.phase \in Past,
         Confirmed(p), Appendable(p), receipt[p].rev \notin Indexed(p),
         index'[p] = Append(index[p], receipt[p].rev), rejected'[p] = rejected[p],
         UNCHANGED <<health, receipt, file, body>>
  PROVE  Outcome(p)' = Outcome(p)
<1> DEFINE r == receipt[p].rev
<1>1. /\ Safe(p) = index[p] /\ index[p] \in Seq(Revision) /\ Len(index[p]) \in Nat
      /\ \A i \in 1..Len(index[p]) : file[index[p][i]] = "good"
  BY PastIs
<1>2. Added(p) = <<r>> /\ r \in Revision /\ file[r] = "good" /\ receipt[p].state = "ok"
  BY <1>1, AddedIs, ReceiptIs DEF Confirmed, Pending
<1>3. /\ index'[p] \in Seq(Revision) /\ Len(index'[p]) = Len(index[p]) + 1
      /\ \A i \in 1..Len(index[p]) : index'[p][i] = index[p][i]
      /\ index'[p][Len(index[p]) + 1] = r
  BY <1>1, <1>2
<1>4. \A i \in 1..Len(index'[p]) : file'[index'[p][i]] = "good"
  BY <1>1, <1>2, <1>3
<1>5. Safe(p)' = index'[p]
  BY <1>4, WholeAreSafeNext DEF WholeOnes
<1>6. Indexed(p)' = Indexed(p) \cup {r}
  <2>1. ASSUME NEW x PROVE x \in ToSet(index'[p]) <=> x \in ToSet(index[p]) \/ x = r
    <3>1. x \in ToSet(index[p]) <=> \E i \in 1..Len(index[p]) : index[p][i] = x
      BY <1>1, Members
    <3>2. x \in ToSet(index'[p]) <=> \E i \in 1..Len(index'[p]) : index'[p][i] = x
      BY <1>3, Members
    <3>3. x \in ToSet(index[p]) => x \in ToSet(index'[p])
      BY <1>1, <1>3, <3>1, <3>2
    <3>4. r \in ToSet(index'[p])
      <4>1. Len(index[p]) + 1 \in 1..Len(index'[p])
        BY <1>1, <1>3
      <4>2. QED
        BY <1>3, <4>1, Members
    <3>5. x \in ToSet(index'[p]) => x \in ToSet(index[p]) \/ x = r
      BY <1>1, <1>3, <3>1, <3>2
    <3>6. QED
      BY <3>3, <3>4, <3>5
  <2>2. QED
    BY <2>1 DEF Indexed
<1>7. Loose(p)' = Loose(p) \ {r}
  BY <1>6 DEF Loose, RevisionsOf
<1>8. Added(p)' = <<>>
  BY <1>7 DEF Added
<1>9. Barred(p) = {r} /\ Barred(p)' = {r}
  BY <1>2 DEF Barred
<1>10. Base(p)' = Base(p)
  <2>1. Base(p)' = index'[p]
    BY <1>3, <1>5, <1>8 DEF Base
  <2>2. Base(p) = Append(index[p], r)
    BY <1>1, <1>2 DEF Base
  <2>3. QED
    BY <2>1, <2>2
<1>11. Rest(p)' = Rest(p)
  BY <1>7, <1>9 DEF Rest
<1>12. QED
  BY <1>10, <1>11, OutcomeTold

\* A project that is created has no history.
LEMMA CreateKeeps ==
  ASSUME RInv, RInv', NEW p \in Project, CreateProject(p)
  PROVE  Outcome(p)' = Outcome(p)
<1>1. /\ health[p] = "none" /\ UNCHANGED <<index, rejected, file, body, receipt>>
      /\ health' = [health EXCEPT ![p] = "ok"]
  BY DEF CreateProject, revisions
<1>2. /\ index[p] = <<>> /\ receipt[p].state = "none"
      /\ \A r \in 1..made : body[r].project # p
  BY <1>1, Parts DEF ProjectOf
<1>3. \A r \in RevisionsOf(p) : FALSE
  BY <1>2, Parts, RepositoryAssumption DEF RevisionsOf, MadeOf, NoBody
<1>4. Loose(p) = {} /\ Loose(p)' = {}
  BY <1>1, <1>3 DEF Loose, RevisionsOf
<1>5. Safe(p)' = <<>>
  <2>1. Len(index'[p]) = 0
    BY <1>1, <1>2
  <2>2. \A i \in 1..Len(index'[p]) : file'[index'[p][i]] = "good"
    BY <2>1
  <2>3. QED
    BY <1>1, <1>2, <2>2, WholeAreSafeNext DEF WholeOnes
<1>6. Added(p)' = <<>>
  BY <1>4 DEF Added
<1>7. Base(p)' = <<>> /\ Rest(p)' = {}
  BY <1>4, <1>5, <1>6 DEF Base, Rest
<1>8. health'[p] = "ok" /\ Outcome(p) = <<>>
  BY <1>1, Parts, OutcomeBy DEF OutcomesAre, Types
<1>9. QED
  BY <1>7, <1>8, OutcomeByNext DEF OutcomesAre, AdoptedBy

\* An unsafe revision is moved away, then all of them are unlisted.
LEMMA RecoverKeeps ==
  ASSUME RInv, RInv', NEW p \in Project, RecoverIndexed(p)
  PROVE  Outcome(p)' = Outcome(p)
<1>1. CASE Nothing
  BY <1>1, OutcomeSame DEF Nothing, manifest, revisions
<1>2. ASSUME NEW r \in Indexed(p) \ ToSet(Safe(p)), Quarantine(r)
      PROVE  Outcome(p)' = Outcome(p)
  <2>1. r \in Revision /\ r \notin Loose(p)
    BY <1>2, IndexedIs, Parts DEF Loose
  <2>2. QED
    BY <1>2, <2>1, QuarantineKeeps
<1>3. ASSUME (Indexed(p) \ ToSet(Safe(p))) \cap OnDisk(p) = {},
             WriteManifest(p, Safe(p), rejected[p], 2 * made + 1)
      PROVE  Outcome(p)' = Outcome(p)
  <2>1. /\ index'[p] = Safe(p) /\ rejected'[p] = rejected[p]
        /\ UNCHANGED <<health, file, body, receipt>>
    BY <1>3, Parts DEF WriteManifest, revisions, Types
  <2>2. Safe(p)' = Safe(p)
    <3>1. \A i \in 1..Len(index'[p]) : file'[index'[p][i]] = "good"
      BY <2>1, SafeAre
    <3>2. QED
      BY <2>1, <3>1, WholeAreSafeNext DEF WholeOnes
  <2>3. Indexed(p)' = ToSet(Safe(p)) /\ ToSet(Safe(p)) \subseteq Indexed(p)
    BY <2>1, SafeMembers DEF Indexed
  <2>4. Loose(p)' = Loose(p)
    <3>1. Loose(p)' = {r \in RevisionsOf(p) \ ToSet(Safe(p)) : file[r] = "good"}
      BY <2>1, <2>3 DEF Loose, RevisionsOf
    <3>2. \A r \in RevisionsOf(p) : file[r] = "good" => r \in OnDisk(p)
      BY DEF OnDisk
    <3>3. QED
      BY <1>3, <2>3, <3>1, <3>2 DEF Loose
  <2>5. Base(p)' = Base(p) /\ Rest(p)' = Rest(p)
    BY <2>1, <2>2, <2>4, StartSame DEF Rest
  <2>6. QED
    BY <2>1, <2>5, OutcomeTold
<1>4. QED
  BY <1>1, <1>2, <1>3 DEF RecoverIndexed

\* A disqualified revision is recorded as rejected, then moved away.
LEMMA RejectKeeps ==
  ASSUME RInv, RInv', NEW p \in Project, RejectPending(p)
  PROVE  Outcome(p)' = Outcome(p)
<1>1. op.cur = p /\ op.phase \in Past
  BY DEF RejectPending, In, Past
<1>2. Safe(p) = index[p]
  BY <1>1, PastIs
<1>3. CASE WriteManifest(p, index[p], rejected[p] \cup Disqualified(p), updated[p])
  <2>1. /\ index'[p] = index[p] /\ rejected'[p] = rejected[p] \cup Disqualified(p)
        /\ UNCHANGED <<health, file, body, receipt>>
    BY <1>3, Parts DEF WriteManifest, revisions, Types
  <2>2. \A i \in 1..Len(index[p]) : index[p][i] \in Revision
    BY IndexedIs, Parts
  <2>3. Safe(p)' = Safe(p)
    BY <2>1, <2>2, SafeSame, SafeMembers
  <2>4. Loose(p)' = Loose(p)
    BY <2>1 DEF Loose, RevisionsOf, Indexed
  <2>5. Base(p)' = Base(p) /\ Barred(p)' = Barred(p)
    BY <2>1, <2>3, <2>4, StartSame
  <2>6. Rest(p)' = Rest(p)
    BY <1>2, <2>1, <2>4, <2>5, DisqualifiedAre DEF Rest
  <2>7. QED
    BY <2>1, <2>5, <2>6, OutcomeTold
<1>4. ASSUME NEW r \in Disqualified(p) \cap OnDisk(p), Quarantine(r)
      PROVE  Outcome(p)' = Outcome(p)
  <2>1. r \in Revision /\ r \notin Indexed(p)
    BY <1>4, ReceiptIs, Parts
  <2>2. r \notin ToSet(Safe(p))
    BY <1>2, <2>1 DEF Indexed
  <2>3. r \in Loose(p) => r \in Barred(p) /\ Added(p) = <<>>
    BY <1>2, <1>4, DisqualifiedAre
  <2>4. QED
    BY <1>4, <2>1, <2>2, <2>3, QuarantineKeeps
<1>5. QED
  BY <1>3, <1>4 DEF RejectPending

\* The revision of the receipt is moved away when it cannot be read.
LEMMA QuarantinePendingKeeps ==
  ASSUME RInv, RInv', NEW p \in Project, QuarantinePending(p)
  PROVE  Outcome(p)' = Outcome(p)
<1> DEFINE r == receipt[p].rev
<1>1. op.cur = p /\ op.phase \in Past /\ Quarantine(r) /\ r \in OnDisk(p) /\ file[r] = "bad"
  BY DEF QuarantinePending, In, Past, Pending
<1>2. r \in Revision /\ r \notin Loose(p) /\ r \notin ToSet(Safe(p))
  BY <1>1, ReceiptIs, Parts, SafeMembers DEF Loose
<1>3. QED
  BY <1>1, <1>2, QuarantineKeeps

\* A receipt that adds nothing, and whose revision is not on disk, goes.
LEMMA DropPendingKeeps ==
  ASSUME RInv, RInv', NEW p \in Project, DropPending(p)
  PROVE  Outcome(p)' = Outcome(p)
<1> DEFINE r == receipt[p].rev
<1>1. /\ op.cur = p /\ op.phase \in Past /\ ~ Confirmed(p)
      /\ Disqualified(p) \cap OnDisk(p) = {} /\ receipt[p].state # "none"
      /\ UNCHANGED <<health, index, rejected, file, body>> /\ receipt'[p].state = "none"
  BY Parts DEF DropPending, In, Past, DropReceipt, manifest, revisions, Types, NoReceipt
<1>2. Safe(p) = index[p]
  BY <1>1, PastIs
<1>3. Added(p) = <<>>
  BY <1>1, <1>2, AddedIs
<1>4. Loose(p) \cap Barred(p) = {}
  <2>1. \A x \in Loose(p) : /\ x \in Unindexed(p) /\ x \in OnDisk(p)
                           /\ x \notin Indexed(p) /\ file[x] = "good"
    BY LooseAre DEF Unindexed
  <2>2. receipt[p].state \in {"ok", "unreadable", "invalid", "mismatched"}
    BY <1>1, ReceiptIs DEF Receipts
  <2>3. r \in ToSet(Safe(p)) <=> r \in Indexed(p)
    BY <1>2 DEF Indexed
  <2>4. CASE receipt[p].state = "unreadable"
    BY <1>1, <2>1, <2>4 DEF Disqualified
  <2>5. CASE receipt[p].state = "invalid"
    BY <1>1, <2>1, <2>3, <2>5 DEF Disqualified, Barred
  <2>6. CASE receipt[p].state \in {"ok", "mismatched"}
    <3>1. Barred(p) = {r}
      BY <2>6 DEF Barred
    <3>2. r \notin Loose(p)
      BY <1>1, <2>1, <2>6 DEF Disqualified, Confirmed, Pending
    <3>3. QED
      BY <3>1, <3>2
  <2>7. QED
    BY <2>2, <2>4, <2>5, <2>6
<1>5. QED
  BY <1>1, <1>3, <1>4, DropKeeps

\* A revision that its receipt adds is indexed; once it is, the receipt may go.
LEMMA FinishKeeps ==
  ASSUME RInv, RInv', NEW p \in Project, FinishPending(p)
  PROVE  Outcome(p)' = Outcome(p)
<1> DEFINE r == receipt[p].rev
<1>1. op.cur = p /\ op.phase \in Past /\ Confirmed(p) /\ Disqualified(p) = {}
  BY DEF FinishPending, In, Past
<1>2. CASE r \notin Indexed(p) /\ WriteManifest(p, Append(index[p], r), rejected[p], 2 * r)
  <2>1. Appendable(p)
    BY <1>1, <1>2 DEF Disqualified, Confirmed
  <2>2. /\ index'[p] = Append(index[p], r) /\ rejected'[p] = rejected[p]
        /\ UNCHANGED <<health, receipt, file, body>>
    BY <1>2, Parts DEF WriteManifest, revisions, Types
  <2>3. QED
    BY <1>1, <1>2, <2>1, <2>2, AppendKeeps
<1>3. CASE Repair(p)
  BY <1>3, OutcomeSame DEF Repair, WritePointer, manifest, revisions
<1>4. CASE r \in Indexed(p) /\ DropReceipt(p)
  <2>1. /\ receipt'[p].state = "none" /\ UNCHANGED <<health, index, rejected, file, body>>
    BY <1>4, Parts DEF DropReceipt, manifest, revisions, Types, NoReceipt
  <2>2. r \notin Loose(p) /\ Barred(p) = {r}
    BY <1>1, <1>4 DEF Loose, Barred, Confirmed
  <2>3. Added(p) = <<>>
    BY <2>2 DEF Added
  <2>4. QED
    BY <2>1, <2>2, <2>3, DropKeeps
<1>5. QED
  BY <1>2, <1>3, <1>4 DEF FinishPending

\* Orphans that are unreadable or rejected are moved away; the others are adopted as
\* far as the next one is unique, and then nothing is left to adopt.
LEMMA OrphansKeep ==
  ASSUME RInv, RInv', NEW p \in Project, RecoverOrphans(p)
  PROVE  Outcome(p)' = Outcome(p)
<1> DEFINE ids == Adopted(index[p], Unindexed(p))
           left == Unindexed(p) \ ToSet(ids)
<1>1. /\ op.cur = p /\ op.phase \in Past /\ receipt[p].state = "none"
      /\ receipt'[p] = receipt[p] /\ health' = health /\ body' = body
  <2>1. op.phase = "orphans" /\ op.cur = p
    BY DEF RecoverOrphans, In
  <2>2. receipt[p].state = "none" /\ op.phase \in Past
    BY <2>1 DEF RInv, Stage, Recovered, Past
  <2>3. UNCHANGED <<receipt, health, body>>
    BY DEF RecoverOrphans, Quarantine, WriteManifest, Nothing, manifest, revisions
  <2>4. QED
    BY <2>1, <2>2, <2>3
<1>2. /\ Safe(p) = index[p] /\ index[p] \in Seq(Revision) /\ health[p] = "ok"
      /\ \A r \in Indexed(p) : file[r] = "good"
  BY <1>1, PastIs
<1>3. Added(p) = <<>> /\ Barred(p) = {}
  BY <1>1 DEF Added, Barred
<1>4. ASSUME NEW r \in Unindexed(p), r \in rejected[p] \/ file[r] = "bad", Quarantine(r)
      PROVE  Outcome(p)' = Outcome(p)
  <2>1. r \in Revision /\ r \notin Indexed(p)
    BY <1>4, UnindexedAre
  <2>2. r \notin ToSet(Safe(p)) /\ (r \in Loose(p) => r \in rejected[p])
    BY <1>2, <1>4, <2>1 DEF Indexed, Loose
  <2>3. QED
    BY <1>3, <1>4, <2>1, <2>2, QuarantineKeeps
<1>5. ASSUME \A r \in Unindexed(p) : r \notin rejected[p] /\ file[r] # "bad",
             NEW at, WriteManifest(p, ids, rejected[p] \cup left, at)
      PROVE  Outcome(p)' = Outcome(p)
  <2>1. /\ index'[p] = ids /\ rejected'[p] = rejected[p] \cup left /\ file' = file
    BY <1>5, Parts DEF WriteManifest, revisions, Types
  <2>2. \A r \in Unindexed(p) : file[r] = "good"
    BY <1>5, UnindexedAre
  <2>3. Loose(p) = Unindexed(p) /\ Rest(p) = Unindexed(p)
    <3>1. \A r : r \in Loose(p) <=> r \in Unindexed(p)
      BY <2>2, LooseAre
    <3>2. QED
      BY <1>3, <1>5, <3>1 DEF Rest
  <2>4. Base(p) = index[p]
    BY <1>2, <1>3 DEF Base
  <2>5. Outcome(p) = ids
    BY <1>2, <2>3, <2>4, OutcomeBy, AdoptedByIs DEF OutcomesAre
  <2>6. Grew(body, made, p, index[p], Unindexed(p), ids)
    <3>1. TypeOK /\ Chain(body, made, p, index[p])
      BY Parts DEF ProjectOf
    <3>2. Unindexed(p) \in SUBSET (1..made) /\ \A r \in Unindexed(p) : body[r].project = p
      BY UnindexedAre
    <3>3. QED
      BY <1>2, <3>1, <3>2, AdoptedIs
  <2> HIDE DEF ids
  <2>7. /\ ids \in Seq(Revision) /\ \A i \in 1..Len(ids) : file[ids[i]] = "good"
    <3>1. ids \in Seq(Revision)
      BY <2>6 DEF Grew
    <3>2. ASSUME NEW i \in 1..Len(ids) PROVE file[ids[i]] = "good"
      BY <1>2, <2>2, <2>6, <3>1, IndexedIs, Parts, Members DEF Grew
    <3>3. QED
      BY <3>1, <3>2
  <2>8. Safe(p)' = ids
    BY <2>1, <2>7, WholeAreSafeNext DEF WholeOnes
  <2>9. Added(p)' = <<>> /\ Barred(p)' = {}
    BY <1>1 DEF Added, Barred
  <2>10. Base(p)' = ids
    BY <2>7, <2>8, <2>9 DEF Base
  <2>11. Rest(p)' = {}
    <3>1. SUFFICES ASSUME NEW r \in Loose(p)', r \notin rejected'[p] PROVE FALSE
      BY DEF Rest
    <3>2. r \in RevisionsOf(p) /\ r \notin ToSet(ids) /\ file[r] = "good"
      BY <1>1, <2>1, <3>1 DEF Loose, RevisionsOf, Indexed
    <3>3. r \notin Unindexed(p)
      BY <2>1, <3>1, <3>2
    <3>4. r \in Indexed(p)
      BY <3>2, <3>3 DEF Unindexed, OnDisk
    <3>5. r \in ToSet(ids)
      BY <2>6, <2>7, <3>4, IndexedIs, Parts, Members DEF Grew
    <3>6. QED
      BY <3>2, <3>5
  <2>12. health'[p] = "ok"
    BY <1>1, <1>2
  <2>13. QED
    BY <2>5, <2>10, <2>11, <2>12, OutcomeByNext DEF OutcomesAre, AdoptedBy
<1>6. CASE Nothing
  BY <1>6, OutcomeSame DEF Nothing, manifest, revisions
<1>7. QED
  <2>1. \/ \E r \in Unindexed(p) : (r \in rejected[p] \/ file[r] = "bad") /\ Quarantine(r)
        \/ /\ \A r \in Unindexed(p) : r \notin rejected[p] /\ file[r] # "bad"
           /\ \E at : WriteManifest(p, ids, rejected[p] \cup left, at)
        \/ Nothing
    <3> HIDE DEF Nothing, Quarantine, WriteManifest
    <3>1. QED
      BY DEF RecoverOrphans
  <2>2. QED
    BY <1>4, <1>5, <1>6, <2>1

\* The receipt of a save is there before the revision: it adds nothing yet.
LEMMA WriteReceiptKeeps ==
  ASSUME RInv, RInv', NEW p \in Project, WriteReceipt(p)
  PROVE  Outcome(p)' = Outcome(p)
<1>1. /\ op.phase = "receipt" /\ op.cur = p /\ UNCHANGED <<health, index, rejected, file, body>>
      /\ receipt'[p].state = "ok" /\ receipt'[p].rev = op.rev
  BY Parts DEF WriteReceipt, In, manifest, revisions, Types
<1>2. receipt[p].state = "none" /\ file[op.rev] = "none" /\ op.phase \in Past
  BY <1>1 DEF RInv, Stage, Saving, Recovered, Past, Writing
<1>3. Safe(p)' = Safe(p)
  <2>1. \A i \in 1..Len(index[p]) : index[p][i] \in Revision
    BY IndexedIs, Parts
  <2>2. QED
    BY <1>1, <2>1, SafeSame, SafeMembers
<1>4. Loose(p)' = Loose(p) /\ op.rev \notin Loose(p)
  BY <1>1, <1>2 DEF Loose, RevisionsOf, Indexed
<1>5. Added(p) = <<>> /\ Barred(p) = {}
  BY <1>2 DEF Added, Barred
<1>6. Added(p)' = <<>>
  BY <1>1, <1>4 DEF Added
<1>7. Barred(p)' = {op.rev}
  BY <1>1 DEF Barred
<1>8. Base(p)' = Base(p) /\ Rest(p)' = Rest(p)
  BY <1>1, <1>3, <1>4, <1>5, <1>6, <1>7 DEF Base, Rest
<1>9. QED
  BY <1>1, <1>8, OutcomeTold

\* The index gets the revision that the receipt adds already.
LEMMA WriteIndexKeeps ==
  ASSUME RInv, RInv', NEW p \in Project, WriteIndex(p)
  PROVE  Outcome(p)' = Outcome(p)
<1> DEFINE r == op.rev
           n == Len(index[p])
<1>1. /\ op.phase = "index" /\ op.cur = p /\ index'[p] = Append(index[p], r)
      /\ rejected'[p] = rejected[p] /\ UNCHANGED <<health, receipt, file, body>>
  BY Parts DEF WriteIndex, In, WriteManifest, revisions, Types
<1>2. /\ receipt[p].state = "ok" /\ receipt[p].rev = r /\ r \in 1..made /\ file[r] = "good"
      /\ body[r].project = p /\ body[r].ordinal = n + 1
      /\ body[r].parent = 0 => index[p] = <<>>
      /\ body[r].parent # 0 => \E j \in 1..n : index[p][j] = body[r].parent
  BY <1>1 DEF RInv, Saving, Writing
<1>3. op.phase \in Past
  BY <1>1 DEF Past, Writing
<1>4. index[p] \in Seq(Revision) /\ n \in Nat /\ r \in Revision
  BY <1>2, Lengths, Parts
<1>5. r \notin Indexed(p)
  <2>1. \A j \in 1..n : body[index[p][j]].ordinal = j
    BY Parts DEF ProjectOf, Chain
  <2>2. QED
    BY <1>2, <1>4, <2>1, IndexedIs, Parts
<1>6. receipt[p].count = n /\ receipt[p].latest = Latest(p)
  <2>1. receipt[p].count \in Nat /\ body[r].ordinal = receipt[p].count + 1
    BY <1>2, ReceiptIs, Parts, Numbers DEF Receipts, ReceiptOf
  <2>2. receipt[p].count = n
    BY <1>2, <1>4, <2>1
  <2>3. n >= receipt[p].count
    BY <1>4, <2>2
  <2>4. /\ receipt[p].count = 0 => receipt[p].latest = 0
        /\ receipt[p].count # 0 => receipt[p].latest = index[p][receipt[p].count]
    BY <1>2, <2>3, Parts DEF ReceiptOf
  <2>5. QED
    BY <1>4, <2>2, <2>4, IndexedIs, Parts
<1>7. Extends(index[p], r)
  BY <1>2, <1>4, IndexedIs, Parts DEF Extends, Indexed
<1>8. Appendable(p)
  BY <1>2, <1>6, <1>7 DEF Appendable
<1>9. Confirmed(p)
  BY <1>2, <1>4 DEF Confirmed, Pending, OnDisk, RevisionsOf
<1>10. QED
  BY <1>1, <1>2, <1>3, <1>5, <1>8, <1>9, AppendKeeps

\* The receipt of a save goes when its revision is indexed.
LEMMA CommitKeeps ==
  ASSUME RInv, RInv', NEW p \in Project, Commit(p)
  PROVE  Outcome(p)' = Outcome(p)
<1> DEFINE r == op.rev
<1>1. /\ op.phase = "commit" /\ op.cur = p
      /\ receipt'[p].state = "none" /\ UNCHANGED <<health, index, rejected, file, body>>
  BY Parts DEF Commit, In, manifest, revisions, Types, NoReceipt
<1>2. /\ receipt[p].state = "ok" /\ receipt[p].rev = r
      /\ Len(index[p]) = body[r].ordinal /\ index[p][Len(index[p])] = r /\ r \in 1..made
  BY <1>1 DEF RInv, Saving, Writing
<1>3. r \in Indexed(p)
  <2>1. body[r].ordinal # 0
    BY <1>2, ReceiptIs, Parts, Numbers DEF Receipts, ReceiptOf
  <2>2. Len(index[p]) \in 1..Len(index[p])
    BY <1>2, <2>1, Lengths
  <2>3. QED
    BY <1>2, <2>2, IndexedIs, Parts
<1>4. r \notin Loose(p) /\ Barred(p) = {r}
  BY <1>2, <1>3 DEF Loose, Barred
<1>5. Added(p) = <<>>
  BY <1>2, <1>4 DEF Added
<1>6. QED
  BY <1>1, <1>4, <1>5, DropKeeps

\* A step of a method keeps what a read would show of the project it works on, ...
LEMMA HereKeeps ==
  ASSUME RInv, RInv', NEW p \in Project,
         \/ ReadManifest(p) \/ RecoverIndexed(p) \/ RejectPending(p) \/ QuarantinePending(p)
         \/ DropPending(p) \/ FinishPending(p) \/ RecoverOrphans(p) \/ WriteReceipt(p)
         \/ WriteIndex(p) \/ Commit(p) \/ CreateProject(p)
  PROVE  Outcome(p)' = Outcome(p)
<1>1. CASE ReadManifest(p)
  <2>1. health'[p] = "ok" <=> health[p] = "ok"
    BY <1>1, Parts DEF ReadManifest, Types
  <2>2. QED
    BY <1>1, <2>1, OutcomeSame DEF ReadManifest, revisions
<1>2. QED
  BY <1>1, CreateKeeps, RecoverKeeps, RejectKeeps, QuarantinePendingKeeps, DropPendingKeeps,
     FinishKeeps, OrphansKeep, WriteReceiptKeeps, WriteIndexKeeps, CommitKeeps

\* ... and what it would show of the others.
LEMMA ThereKeeps ==
  ASSUME RInv, RInv', NEW p \in Project, NEW q \in Project, q # p,
         \/ ReadManifest(q) \/ RecoverIndexed(q) \/ RejectPending(q) \/ QuarantinePending(q)
         \/ DropPending(q) \/ FinishPending(q) \/ RecoverOrphans(q) \/ WriteReceipt(q)
         \/ WriteIndex(q) \/ Commit(q) \/ CreateProject(q)
  PROVE  Outcome(p)' = Outcome(p)
<1>0. Types /\ p \in DOMAIN index
  BY Parts, Lengths DEF Types
<1>1. ASSUME NEW r \in Revision, Quarantine(r), body[r].project = q
      PROVE  Outcome(p)' = Outcome(p)
  <2>1. /\ UNCHANGED <<health, index, rejected, body, receipt>>
        /\ file' = [file EXCEPT ![r] = "quarantined"]
    BY <1>1 DEF Quarantine, manifest
  <2>2. \A x \in RevisionsOf(p) : file'[x] = file[x]
    BY <1>0, <1>1, <2>1 DEF RevisionsOf, Types
  <2>3. QED
    BY <2>1, <2>2, OutcomeSame
<1>2. ASSUME NEW ids, NEW rej, NEW at, WriteManifest(q, ids, rej, at)
      PROVE  Outcome(p)' = Outcome(p)
  <2>1. /\ UNCHANGED <<health, file, body, receipt>>
        /\ index'[p] = index[p] /\ rejected'[p] = rejected[p]
    BY <1>0, <1>2 DEF WriteManifest, revisions, Types
  <2>2. QED
    BY <2>1, OutcomeSame
<1>3. ASSUME UNCHANGED <<health, index, rejected, file, body>>, NEW t,
             receipt' = [receipt EXCEPT ![q] = t]
      PROVE  Outcome(p)' = Outcome(p)
  <2>1. receipt'[p] = receipt[p]
    BY <1>0, <1>3 DEF Types
  <2>2. QED
    BY <1>3, <2>1, OutcomeSame
<1>4. ASSUME UNCHANGED <<index, rejected, file, body, receipt>>, NEW h,
             health' = [health EXCEPT ![q] = h]
      PROVE  Outcome(p)' = Outcome(p)
  <2>1. health'[p] = health[p]
    BY <1>0, <1>4 DEF Types
  <2>2. QED
    BY <1>4, <2>1, OutcomeSame
<1>5. CASE Nothing
  BY <1>5, OutcomeSame DEF Nothing, manifest, revisions
<1>6. CASE ReadManifest(q) \/ CreateProject(q)
  <2>1. /\ UNCHANGED <<index, rejected, file, body, receipt>>
        /\ \E h : health' = [health EXCEPT ![q] = h]
    BY <1>6 DEF ReadManifest, CreateProject, revisions
  <2>2. QED
    BY <1>4, <2>1
<1>7. CASE DropPending(q) \/ WriteReceipt(q) \/ Commit(q)
  <2>1. /\ UNCHANGED <<health, index, rejected, file, body>>
        /\ \E t : receipt' = [receipt EXCEPT ![q] = t]
    BY <1>7 DEF DropPending, WriteReceipt, Commit, DropReceipt, manifest, revisions
  <2>2. QED
    BY <1>3, <2>1
<1>8. CASE RecoverIndexed(q)
  <2>1. \A r \in Indexed(q) : r \in Revision /\ body[r].project = q
    BY IndexedIs, Parts DEF ProjectOf, Chain
  <2>2. \/ \E r \in Indexed(q) : Quarantine(r)
        \/ \E ids, rej, at : WriteManifest(q, ids, rej, at)
        \/ Nothing
    <3> HIDE DEF Nothing, Quarantine, WriteManifest
    <3>1. QED
      BY <1>8 DEF RecoverIndexed
  <2>3. QED
    BY <1>1, <1>2, <1>5, <2>1, <2>2
<1>9. CASE RejectPending(q) \/ QuarantinePending(q) \/ RecoverOrphans(q)
  <2>1. \A r \in OnDisk(q) : r \in Revision /\ body[r].project = q
    BY DEF OnDisk, RevisionsOf
  <2>2. \/ \E r \in OnDisk(q) : Quarantine(r)
        \/ \E ids, rej, at : WriteManifest(q, ids, rej, at)
        \/ Nothing
    <3> HIDE DEF Nothing, Quarantine, WriteManifest
    <3>1. CASE RejectPending(q)
      BY <3>1 DEF RejectPending
    <3>2. CASE QuarantinePending(q)
      BY <3>2 DEF QuarantinePending, Pending
    <3>3. CASE RecoverOrphans(q)
      BY <3>3 DEF RecoverOrphans, Unindexed
    <3>4. QED
      BY <1>9, <3>1, <3>2, <3>3
  <2>3. QED
    BY <1>1, <1>2, <1>5, <2>1, <2>2
<1>10. CASE FinishPending(q)
  <2>1. CASE \E ids, rej, at : WriteManifest(q, ids, rej, at)
    BY <1>2, <2>1
  <2>2. CASE Repair(q)
    BY <2>2, OutcomeSame DEF Repair, WritePointer, manifest, revisions
  <2>3. CASE DropReceipt(q)
    <3>1. /\ UNCHANGED <<health, index, rejected, file, body>>
          /\ \E t : receipt' = [receipt EXCEPT ![q] = t]
      BY <2>3 DEF DropReceipt, manifest, revisions
    <3>2. QED
      BY <1>3, <3>1
  <2>4. QED
    BY <1>10, <2>1, <2>2, <2>3 DEF FinishPending
<1>11. CASE WriteIndex(q)
  BY <1>2, <1>11 DEF WriteIndex
<1>12. QED
  BY <1>6, <1>7, <1>8, <1>9, <1>10, <1>11

\* Every other step of a method writes nothing but the pointer.
LEMMA OtherStep ==
  ASSUME RInv, Next, made' = made, damage' = damage, op.phase # "revision",
         ~ \E q \in Project :
             \/ ReadManifest(q) \/ RecoverIndexed(q) \/ RejectPending(q) \/ QuarantinePending(q)
             \/ DropPending(q) \/ FinishPending(q) \/ RecoverOrphans(q) \/ WriteReceipt(q)
             \/ WriteIndex(q) \/ Commit(q) \/ CreateProject(q)
  PROVE  UNCHANGED <<health, index, rejected, file, body, receipt>>
<1>0. made \in Nat /\ damage \in Nat
  BY Parts, Numbers DEF Types
<1>1. \A q \in Project : /\ ~ SpoilManifest(q) /\ ~ RestoreManifest(q) /\ ~ SpoilReceipt(q)
                         /\ ~ LoseReceipt(q) /\ ~ ForeignRevision(q)
  BY <1>0 DEF SpoilManifest, RestoreManifest, SpoilReceipt, LoseReceipt, ForeignRevision, Harm
<1>2. \A x \in Revision : ~ SpoilRevision(x)
  BY <1>0 DEF SpoilRevision, Harm
<1>3. \A q \in Project : ~ WriteRevision(q)
  BY DEF WriteRevision, In
<1>4. \A q \in Project : Prepare(q) => UNCHANGED <<health, index, rejected, file, body, receipt>>
  BY <1>0 DEF Prepare, Nothing, manifest, revisions
<1>5. QED
  BY <1>1, <1>2, <1>3, <1>4, Frames
     DEF HealthMoves, IndexMoves, ManifestMoves, FileMoves, RevisionMoves, ReceiptMoves

\* Every step but the write of a revision file keeps what a read would show.
LEMMA KeepsStep ==
  ASSUME RInv, RInv', Next, made' = made, damage' = damage, op.phase # "revision",
         NEW p \in Project
  PROVE  Outcome(p)' = Outcome(p)
<1> DEFINE Moves(q) ==
             \/ ReadManifest(q) \/ RecoverIndexed(q) \/ RejectPending(q) \/ QuarantinePending(q)
             \/ DropPending(q) \/ FinishPending(q) \/ RecoverOrphans(q) \/ WriteReceipt(q)
             \/ WriteIndex(q) \/ Commit(q) \/ CreateProject(q)
<1>1. ASSUME NEW q \in Project, Moves(q) PROVE Outcome(p)' = Outcome(p)
  BY <1>1, HereKeeps, ThereKeeps
<1>2. ASSUME ~ \E q \in Project : Moves(q) PROVE Outcome(p)' = Outcome(p)
  <2>1. UNCHANGED <<health, index, rejected, file, body, receipt>>
    BY <1>2, OtherStep
  <2>2. QED
    BY <2>1, OutcomeSame
<1>3. QED
  BY <1>1, <1>2

------------------------------------------------------------------------------
(* History, when only receipts and the pointer are damaged *)

\* No revision and no manifest is damaged, and no revision comes from elsewhere.
SlightOnly == Damages \cap {"revision", "manifest", "restore", "foreign"} = {}

\* At most one revision is outside the index: that of the last save, which follows it.
Strays(p) ==
    /\ \A r \in Loose(p) : Extends(index[p], r) /\ \A s \in Loose(p) : r = s
    /\ receipt[p].state # "none" => Loose(p) \subseteq {receipt[p].rev}
    /\ op.cur = p /\ op.phase \in Writing \ {"index"} => Loose(p) = {}

HInv ==
    /\ \A r \in Revision : file[r] # "bad"
    /\ \A p \in Project : health[p] \in {"none", "ok"}
    /\ hit = {}
    /\ \A p \in Project : \A i \in 1..Len(index[p]) : file[index[p][i]] = "good"
    /\ \A p \in Project : Strays(p)

\* What SlightOnly excludes.
LEMMA NoneHarmed ==
  ASSUME SlightOnly
  PROVE  /\ \A q \in Project : ~ RestoreManifest(q) /\ ~ SpoilManifest(q) /\ ~ ForeignRevision(q)
         /\ \A x \in Revision : ~ SpoilRevision(x)
BY DEF SlightOnly, RestoreManifest, SpoilManifest, ForeignRevision, SpoilRevision, Harm

\* A single orphan that follows is adopted.
LEMMA AdoptedOne ==
  ASSUME NEW s \in Seq(Revision), NEW r \in Revision, r \notin ToSet(s), Extends(s, r)
  PROVE  Adopted(s, {r}) = Append(s, r)
<1>1. Cardinality({r}) = 1
  BY FS_Singleton
<1>2. PICK g : Growth(body, s, {r}, g, 1) /\ Adopted(s, {r}) = g[1]
  BY <1>1, AdoptedGrows
<1>3. g[0] = s /\ g[1] = Grown(body, g[0], {r})
  BY <1>2 DEF Growth
<1>4. Candidates(body, s, {r}) = {r}
  BY DEF Candidates, Extends
<1>5. Grown(body, s, {r}) = Append(s, r)
  BY <1>1, <1>4 DEF Grown
<1>6. QED
  BY <1>2, <1>3, <1>5

\* When nothing is damaged and no stray is there, what is safe is the index.
LEMMA LooseIs ==
  ASSUME RInv, HInv, NEW p \in Project
  PROVE  /\ Safe(p) = index[p] /\ Loose(p) = Unindexed(p)
         /\ Loose(p) \subseteq Revision /\ Loose(p) \cap Indexed(p) = {}
<1>1. Safe(p) = index[p]
  BY WholeIsSafe DEF HInv
<1>2. \A r : r \in Loose(p) <=> r \in Unindexed(p)
  BY DEF Loose, Unindexed, OnDisk, HInv, RevisionsOf
<1>3. QED
  BY <1>1, <1>2 DEF Loose, RevisionsOf

\* The parts of HInv about single variables.
LEMMA HarmlessStep ==
  ASSUME RInv, HInv, SlightOnly, Next
  PROVE  /\ \A r \in Revision : file'[r] # "bad"
         /\ \A p \in Project : health'[p] \in {"none", "ok"}
         /\ hit' = {}
<1>1. hit' = hit
  BY NoneHarmed, Frames DEF HitMoves
<1>2. ASSUME NEW r \in Revision PROVE file'[r] # "bad"
  BY <1>1, FileSteps DEF FileStep, Quarantined, HInv
<1>3. ASSUME NEW p \in Project PROVE health'[p] \in {"none", "ok"}
  <2>1. health' = health \/ \E q \in Project : ReadManifest(q) \/ CreateProject(q)
    BY NoneHarmed, Frames DEF HealthMoves
  <2>2. ASSUME NEW q \in Project, ReadManifest(q) PROVE health'[p] = health[p]
    BY <2>2, Parts DEF ReadManifest, HInv, Types
  <2>3. ASSUME NEW q \in Project, CreateProject(q) PROVE health'[p] \in {health[p], "ok"}
    BY <2>3, Parts DEF CreateProject, Types
  <2>4. QED
    BY <2>1, <2>2, <2>3 DEF HInv
<1>4. QED
  BY <1>1, <1>2, <1>3 DEF HInv

\* An index loses nothing, and grows by loose revisions.
LEMMA GrowStep ==
  ASSUME RInv, HInv, SlightOnly, Next, NEW p \in Project
  PROVE  \/ index'[p] = index[p]
         \/ /\ UNCHANGED <<body, made, file, receipt>> /\ index'[p] \in Seq(Revision)
            /\ Len(index[p]) <= Len(index'[p])
            /\ \A i \in 1..Len(index[p]) : index'[p][i] = index[p][i]
            /\ \A i \in (Len(index[p]) + 1)..Len(index'[p]) : index'[p][i] \in Loose(p)
            /\ op.cur = p /\ op.phase \in {"pending", "orphans", "index"}
            /\ Len(index'[p]) # Len(index[p])
<1>0. /\ TypeOK /\ Len(index[p]) \in Nat /\ index[p] \in Seq(Revision)
      /\ index' \in [Project -> Seq(Revision)]
  BY Parts, Lengths, ManifestStep
<1>1. ASSUME Restored(p) PROVE index'[p] = index[p]
  <2>1. hit' = {}
    BY HarmlessStep
  <2>2. Len(index'[p]) = Len(index[p])
    BY <1>0, <1>1, <2>1 DEF Restored, Shorter
  <2>3. QED
    BY <1>0, <1>1, <2>2 DEF Restored, Shorter
<1>2. ASSUME Recovering(p) PROVE index'[p] = index[p]
  <2>1. Len(index'[p]) = Len(index[p])
    BY <1>0, <1>2 DEF Recovering, Shorter, HInv
  <2>2. QED
    BY <1>0, <1>2, <2>1 DEF Recovering, Shorter
<1>3. ASSUME NEW o, o \subseteq Loose(p), UNCHANGED <<body, made, file, receipt>>,
             Grew(body, made, p, index[p], o, index'[p]),
             op.cur = p /\ op.phase \in {"pending", "orphans", "index"}
      PROVE  \/ index'[p] = index[p]
             \/ /\ UNCHANGED <<body, made, file, receipt>> /\ index'[p] \in Seq(Revision)
                /\ Len(index[p]) <= Len(index'[p])
                /\ \A i \in 1..Len(index[p]) : index'[p][i] = index[p][i]
                /\ \A i \in (Len(index[p]) + 1)..Len(index'[p]) : index'[p][i] \in Loose(p)
                /\ op.cur = p /\ op.phase \in {"pending", "orphans", "index"}
                /\ Len(index'[p]) # Len(index[p])
  <2>1. CASE Len(index'[p]) = Len(index[p])
    <3>1. index'[p] = index[p]
      BY <1>0, <1>3, <2>1 DEF Grew
    <3>2. QED
      BY <3>1
  <2>2. CASE Len(index'[p]) # Len(index[p])
    BY <1>3, <2>2 DEF Grew
  <2>3. QED
    BY <2>1, <2>2
<1>4. ASSUME Finished(p) PROVE {receipt[p].rev} \subseteq Loose(p)
  BY <1>4 DEF Finished, Confirmed, Pending, OnDisk, Loose
<1>5. ASSUME Saved(p) PROVE {op.rev} \subseteq Loose(p)
  <2>1. op.rev \in 1..made /\ body[op.rev].project = p /\ file[op.rev] = "good"
        /\ body[op.rev].ordinal = Len(index[p]) + 1
    BY <1>5 DEF Saved, RInv, Saving, Writing
  <2>2. \A j \in 1..Len(index[p]) : body[index[p][j]].ordinal = j
    BY Parts DEF ProjectOf, Chain
  <2>3. op.rev \notin Indexed(p)
    BY <1>0, <2>1, <2>2, IndexedIs
  <2>4. QED
    BY <2>1, <2>3, Parts DEF Loose, RevisionsOf
<1>6. QED
  <2>1. \/ index'[p] = index[p]
        \/ /\ body' = body /\ made' = made
           /\ \/ Restored(p) \/ Recovering(p) \/ Finished(p) \/ Saved(p) \/ Adopting(p)
    BY IndexStep
  <2>2. ASSUME Finished(p), body' = body, made' = made
        PROVE  /\ UNCHANGED <<body, made, file, receipt>> /\ op.cur = p /\ op.phase = "pending"
               /\ Grew(body, made, p, index[p], {receipt[p].rev}, index'[p])
    BY <2>2 DEF Finished
  <2>3. ASSUME Saved(p), body' = body, made' = made
        PROVE  /\ UNCHANGED <<body, made, file, receipt>> /\ op.cur = p /\ op.phase = "index"
               /\ Grew(body, made, p, index[p], {op.rev}, index'[p])
    BY <2>3 DEF Saved
  <2>4. ASSUME Adopting(p), body' = body, made' = made
        PROVE  /\ UNCHANGED <<body, made, file, receipt>> /\ op.cur = p /\ op.phase = "orphans"
               /\ Grew(body, made, p, index[p], Loose(p), index'[p])
    BY <2>4, LooseIs DEF Adopting
  <2> HIDE DEF Finished, Saved, Adopting
  <2>5. CASE index'[p] = index[p]
    BY <2>5
  <2>6. CASE Finished(p) /\ body' = body /\ made' = made
    BY <1>3, <1>4, <2>2, <2>6
  <2>7. CASE Saved(p) /\ body' = body /\ made' = made
    BY <1>3, <1>5, <2>3, <2>7
  <2>8. CASE Adopting(p) /\ body' = body /\ made' = made
    BY <1>3, <2>4, <2>8
  <2>9. QED
    BY <1>1, <1>2, <2>1, <2>5, <2>6, <2>7, <2>8

\* Only a save adds a loose revision.
LEMMA LooseStep ==
  ASSUME RInv, HInv, SlightOnly, Next, NEW p \in Project, NEW r \in Loose(p)'
  PROVE  /\ r \in Revision /\ body'[r] = body[r]
         /\ \/ r \in Loose(p)
            \/ op.phase = "revision" /\ op.cur = p /\ r = op.rev
<1>0. /\ r \in Revision /\ body'[r].project = p /\ file'[r] = "good" /\ r \notin ToSet(index'[p])
      /\ made \in Nat
  BY Parts DEF Loose, RevisionsOf, Indexed
<1>1. made' = made \/ op.kind = "save"
  BY NoneHarmed, Frames DEF RevisionMoves, Prepare
<1>2. \/ file[r] = "good"
      \/ op.phase = "revision" /\ r = op.rev
  BY <1>0, <1>1, FileSteps DEF FileStep, Quarantined, Idle
<1>3. r \in 1..made
  BY <1>0, <1>2, Parts DEF MadeOf, RInv, Saving, Writing
<1>4. body'[r] = body[r]
  BY <1>3, MadeStep
<1>5. r \notin Indexed(p)
  <2>1. SUFFICES ASSUME r \in Indexed(p) PROVE FALSE
    OBVIOUS
  <2>2. PICK i \in 1..Len(index[p]) : index[p][i] = r
    BY <2>1, IndexedIs, Parts
  <2>3. i \in 1..Len(index'[p]) /\ index'[p][i] = r /\ index'[p] \in Seq(Revision)
    BY <2>2, GrowStep, Lengths, ManifestStep
  <2>4. QED
    BY <1>0, <2>3, Members
<1>6. CASE file[r] = "good"
  <2>1. r \in RevisionsOf(p)
    BY <1>0, <1>4 DEF RevisionsOf
  <2>2. r \in Loose(p)
    BY <1>5, <1>6, <2>1 DEF Loose
  <2>3. QED
    BY <1>0, <1>4, <2>2
<1>7. CASE op.phase = "revision" /\ r = op.rev
  BY <1>0, <1>4, <1>7 DEF RInv, Saving, Writing
<1>8. QED
  BY <1>0, <1>2, <1>4, <1>6, <1>7

\* A revision that was loose and is indexed leaves none.
LEMMA NoneLeft ==
  ASSUME RInv, HInv, SlightOnly, Next, NEW p \in Project, index'[p] # index[p]
  PROVE  Loose(p)' = {}
<1>1. /\ index'[p] \in Seq(Revision) /\ Len(index[p]) + 1 \in 1..Len(index'[p])
      /\ index'[p][Len(index[p]) + 1] \in Loose(p) /\ op.phase # "revision"
  <2>1. /\ index'[p] \in Seq(Revision) /\ Len(index[p]) <= Len(index'[p])
        /\ \A i \in (Len(index[p]) + 1)..Len(index'[p]) : index'[p][i] \in Loose(p)
        /\ op.phase \in {"pending", "orphans", "index"} /\ Len(index'[p]) # Len(index[p])
    BY GrowStep
  <2>2. Len(index[p]) \in Nat /\ Len(index'[p]) \in Nat
    BY <2>1, Lengths
  <2>3. Len(index[p]) + 1 \in 1..Len(index'[p])
        /\ Len(index[p]) + 1 \in (Len(index[p]) + 1)..Len(index'[p])
    BY <2>1, <2>2
  <2>4. QED
    BY <2>1, <2>3
<1>2. SUFFICES ASSUME NEW r \in Loose(p)' PROVE FALSE
  OBVIOUS
<1>3. r \in Loose(p) /\ r \notin ToSet(index'[p])
  BY <1>1, <1>2, LooseStep DEF Loose, Indexed
<1>4. r = index'[p][Len(index[p]) + 1]
  BY <1>1, <1>3 DEF HInv, Strays
<1>5. QED
  BY <1>1, <1>3, <1>4, Members

\* Every step leaves at most the revision of the last save outside the index.
LEMMA StraysStep ==
  ASSUME RInv, HInv, SlightOnly, Next, NEW p \in Project
  PROVE  Strays(p)'
<1>0. Strays(p) /\ Stage /\ Saving
  BY DEF HInv, RInv
<1>a. ASSUME op.phase = "revision", op.cur = p
      PROVE  /\ Loose(p) = {} /\ index'[p] = index[p] /\ Extends(index[p], op.rev)
             /\ receipt[p].rev = op.rev /\ receipt[p].state = "ok"
  <2>1. Loose(p) = {}
    BY <1>0, <1>a DEF Strays, Writing
  <2>2. index'[p] = index[p]
    BY <1>a, GrowStep
  <2>3. Extends(index[p], op.rev)
    BY <1>0, <1>a, IndexedIs, Parts DEF Saving, Writing, Extends, Indexed
  <2>4. QED
    BY <1>0, <1>a, <2>1, <2>2, <2>3 DEF Saving, Writing
<1>1. ASSUME NEW r \in Loose(p)' PROVE Extends(index[p], r)' /\ \A s \in Loose(p)' : r = s
  <2>1. index'[p] = index[p]
    BY <1>1, NoneLeft
  <2>2. Extends(index[p], r)
    BY <1>0, <1>1, <1>a, LooseStep DEF Strays
  <2>3. Extends(index[p], r)'
    BY <1>1, <2>1, <2>2, LooseStep DEF Extends
  <2>4. ASSUME NEW s \in Loose(p)' PROVE r = s
    BY <1>0, <1>1, <1>a, <2>4, LooseStep DEF Strays
  <2>5. QED
    BY <2>3, <2>4
<1>2. ASSUME receipt'[p].state # "none", NEW r \in Loose(p)' PROVE r = receipt'[p].rev
  <2>1. CASE receipt'[p] = receipt[p]
    BY <1>0, <1>2, <1>a, <2>1, LooseStep DEF Strays
  <2>2. CASE op.phase = "receipt" /\ op.cur = p
    <3>1. Loose(p) = {}
      BY <1>0, <2>2 DEF Strays, Writing
    <3>2. QED
      BY <1>2, <2>2, <3>1, LooseStep
  <2>3. CASE op = Idle /\ receipt[p].state # "none" /\ receipt'[p].rev = receipt[p].rev
    <3>1. op.phase # "revision"
      BY <2>3 DEF Idle
    <3>2. QED
      BY <1>0, <1>2, <2>3, <3>1, LooseStep DEF Strays
  <2>4. QED
    BY <1>2, <2>1, <2>2, <2>3, ReceiptStep
<1>3. ASSUME op'.cur = p, op'.phase \in Writing \ {"index"} PROVE Loose(p)' = {}
  <2>1. op.cur = p /\ PhaseMoves(p)
    BY <1>3, PhaseStep DEF Between, Writing
  <2>2. CASE op.phase = "read"
    <3>1. Loose(p) = {}
      BY <1>0, <2>1, <2>2, LooseIs DEF Stage, Settling
    <3>2. QED
      BY <2>2, <3>1, LooseStep
  <2>3. CASE op.phase = "receipt" \/ op.phase = "select"
    <3>1. Loose(p) = {}
      BY <1>0, <2>1, <2>3 DEF Strays, Writing
    <3>2. QED
      BY <2>3, <3>1, LooseStep
  <2>4. CASE op.phase = "index" /\ WriteIndex(p)
    <3>1. index'[p] = Append(index[p], op.rev)
      BY <2>4, Parts DEF WriteIndex, WriteManifest, Types
    <3>2. index'[p] # index[p]
      BY <3>1, Lengths, Parts DEF RInv
    <3>3. QED
      BY <3>2, NoneLeft
  <2>5. QED
    BY <1>3, <2>1, <2>2, <2>3, <2>4 DEF PhaseMoves, Writing, Settling
<1>4. QED
  BY <1>1, <1>2, <1>3 DEF Strays

\* Every step keeps HInv, ...
LEMMA HistoryStep ==
  ASSUME RInv, HInv, SlightOnly, Next
  PROVE  HInv'
<1>1. ASSUME NEW p \in Project, NEW i \in 1..Len(index'[p]) PROVE file'[index'[p][i]] = "good"
  <2>1. CASE i \in 1..Len(index[p]) /\ index'[p][i] = index[p][i]
    <3>1. hit' = {} /\ file[index[p][i]] = "good"
      BY <2>1, HarmlessStep DEF HInv
    <3>2. \A j \in 1..i : file[index[p][j]] = "good"
      BY <2>1, LooseIs, Lengths DEF HInv
    <3>3. QED
      BY <2>1, <3>1, <3>2, WholeStep, Lengths DEF HInv
  <2>2. CASE file' = file /\ index'[p][i] \in Loose(p)
    BY <2>2 DEF Loose
  <2>3. QED
    BY <1>1, <2>1, <2>2, GrowStep, Lengths
<1>2. QED
  BY <1>1, HarmlessStep, StraysStep DEF HInv

\* ... which is inductive.
LEMMA HistoryInv ==
  /\ Init => HInv
  /\ RInv /\ HInv /\ SlightOnly /\ [Next]_vars => HInv'
<1>1. Init => HInv
  BY RepositoryAssumption DEF Init, HInv, Strays, Loose, RevisionsOf, NoBody, NoReceipt, Writing, Idle
<1>2. ASSUME RInv, HInv, UNCHANGED vars PROVE HInv'
  BY <1>2 DEF HInv, Strays, Loose, RevisionsOf, Indexed, Extends, vars
<1>3. QED
  BY <1>1, <1>2, HistoryStep

\* The revision of an interrupted save that a read would still add.
Open(p) == {r \in Loose(p) \ rejected[p] : receipt[p].state \in {"none", "ok"}}

\* What a read would show is the index, and this revision.
ShownOnes ==
    \A p \in Project : /\ Open(p) = {} => Outcome(p) = index[p]
                       /\ \A r \in Open(p) : Outcome(p) = Append(index[p], r)

\* What ShownOnes says follows from the invariants, ...
LEMMA ShownAre == RInv /\ HInv => ShownOnes
<1> SUFFICES ASSUME RInv, HInv, NEW p \in Project
             PROVE  /\ Open(p) = {} => Outcome(p) = index[p]
                    /\ \A r \in Open(p) : Outcome(p) = Append(index[p], r)
  BY DEF ShownOnes
<1>0. /\ Safe(p) = index[p] /\ Loose(p) \subseteq Revision /\ Loose(p) \cap Indexed(p) = {}
      /\ index[p] \in Seq(Revision) /\ Len(index[p]) \in Nat /\ Strays(p)
      /\ receipt[p].state \in {"none", "ok", "unreadable", "invalid", "mismatched"}
  BY LooseIs, Lengths, ReceiptIs DEF HInv, Receipts
<1>1. CASE health[p] = "none"
  <2>1. index[p] = <<>> /\ \A r \in 1..made : body[r].project # p
    BY <1>1, Parts DEF ProjectOf
  <2>2. Loose(p) = {}
    BY <2>1, Parts, RepositoryAssumption DEF Loose, RevisionsOf, MadeOf, NoBody
  <2>3. QED
    BY <1>1, <2>1, <2>2, OutcomeIs DEF Open
<1>2. CASE health[p] = "ok"
  <2>1. Outcome(p) = Adopted(index[p] \o Added(p), Rest(p))
    BY <1>0, <1>2, OutcomeIs DEF Rest
  <2>2. \A s : Adopted(s, {}) = s
    BY DEF Adopted
  <2>3. ASSUME Open(p) = {} PROVE Outcome(p) = index[p]
    <3>1. Added(p) = <<>>
      <4>1. SUFFICES ASSUME Added(p) # <<>> PROVE FALSE
        OBVIOUS
      <4>2. receipt[p].state = "ok" /\ receipt[p].rev \in Loose(p) /\ receipt[p].count = Len(index[p])
        BY <1>0, <4>1 DEF Added
      <4>3. receipt[p].rev \in rejected[p]
        BY <2>3, <4>2 DEF Open
      <4>4. Len(index[p]) < receipt[p].count
        BY <4>2, <4>3, Parts DEF ReceiptOf
      <4>5. QED
        BY <1>0, <4>2, <4>4
    <3>2. Rest(p) = {}
      <4>1. SUFFICES ASSUME NEW r \in Loose(p), r \notin rejected[p] PROVE r \in Barred(p)
        BY DEF Rest
      <4>2. receipt[p].state \in {"unreadable", "invalid", "mismatched"}
        BY <1>0, <2>3, <4>1 DEF Open
      <4>3. r = receipt[p].rev
        BY <1>0, <4>1, <4>2 DEF Strays
      <4>4. QED
        BY <4>1, <4>2, <4>3 DEF Barred
    <3>3. QED
      BY <1>0, <2>1, <2>2, <3>1, <3>2
  <2>4. ASSUME NEW r \in Open(p) PROVE Outcome(p) = Append(index[p], r)
    <3>1. /\ r \in Loose(p) /\ r \notin rejected[p] /\ r \in Revision /\ r \notin Indexed(p)
          /\ Extends(index[p], r) /\ \A s \in Loose(p) : s = r
      BY <1>0, <2>4 DEF Open, Strays
    <3>2. CASE receipt[p].state = "none"
      <4>1. Added(p) = <<>> /\ Barred(p) = {}
        BY <3>2 DEF Added, Barred
      <4>2. Rest(p) = {r}
        BY <3>1, <4>1 DEF Rest
      <4>3. index[p] \o Added(p) = index[p]
        BY <1>0, <4>1
      <4>4. QED
        BY <1>0, <2>1, <3>1, <4>2, <4>3, AdoptedOne DEF Indexed
    <3>3. CASE receipt[p].state = "ok"
      <4>1. receipt[p].rev = r /\ body[r].ordinal = Len(index[p]) + 1
        BY <1>0, <3>1, <3>3 DEF Strays, Extends
      <4>2. receipt[p].count \in Nat /\ body[r].ordinal = receipt[p].count + 1
        BY <3>3, <4>1, ReceiptIs, Parts, Numbers DEF Receipts, ReceiptOf
      <4>3. receipt[p].count = Len(index[p]) /\ Len(index[p]) >= receipt[p].count
        BY <1>0, <4>1, <4>2
      <4>4. /\ receipt[p].count = 0 => receipt[p].latest = 0
            /\ receipt[p].count # 0 => receipt[p].latest = index[p][receipt[p].count]
        BY <3>3, <4>3, Parts DEF ReceiptOf
      <4>5. receipt[p].latest = Latest(p)
        BY <1>0, <4>3, <4>4, IndexedIs, Parts
      <4>6. Appendable(p)
        BY <3>1, <4>1, <4>3, <4>5 DEF Appendable
      <4>7. Confirmed(p)
        BY <3>1, <3>3, <4>1 DEF Confirmed, Pending, OnDisk, Loose
      <4>8. Added(p) = <<r>>
        BY <1>0, <3>1, <4>1, <4>6, <4>7, AddedIs
      <4>9. Rest(p) = {}
        BY <3>1, <3>3, <4>1 DEF Rest, Barred
      <4>10. index[p] \o <<r>> = Append(index[p], r)
        BY <1>0, <3>1
      <4>11. QED
        BY <2>1, <2>2, <4>8, <4>9, <4>10
    <3>4. QED
      BY <2>4, <3>2, <3>3 DEF Open
  <2>5. QED
    BY <2>3, <2>4
<1>3. QED
  BY <1>1, <1>2 DEF HInv

\* ... after a step, too.
LEMMA ShownAreNext == RInv' /\ HInv' => ShownOnes'
BY ShownAre, PTL

\* At most one revision is open.
LEMMA OpenIs ==
  ASSUME RInv, HInv, NEW p \in Project, NEW r \in Open(p)
  PROVE  /\ Open(p) = {r} /\ r \in Revision /\ r \notin Indexed(p) /\ body[r].project = p
         /\ r \in Loose(p) /\ index[p] \in Seq(Revision) /\ Len(index[p]) \in Nat
<1>1. r \in Loose(p) /\ r \in Revision /\ r \notin Indexed(p) /\ body[r].project = p
  BY DEF Open, Loose, RevisionsOf
<1>2. \A s \in Open(p) : s = r
  BY <1>1 DEF Open, HInv, Strays
<1>3. QED
  BY <1>1, <1>2, Lengths

\* A step that keeps the index and the open revision shows the same.
LEMMA ShownSame ==
  ASSUME RInv, HInv, RInv', HInv', NEW p \in Project,
         index'[p] = index[p], Open(p)' = Open(p)
  PROVE  Outcome(p)' = Outcome(p)
<1>1. ShownOnes /\ ShownOnes'
  BY ShownAre, ShownAreNext
<1>2. CASE Open(p) = {}
  BY <1>1, <1>2 DEF ShownOnes
<1>3. ASSUME NEW r \in Open(p) PROVE Outcome(p)' = Outcome(p)
  BY <1>1, <1>3 DEF ShownOnes
<1>4. QED
  BY <1>2, <1>3

\* What a save has returned is indexed.
LEMMA AckedAre ==
  ASSUME RInv, HInv, NEW r \in acked
  PROVE  r \in Indexed(body[r].project) /\ body[r].project \in Project
<1>1. r \in 1..made /\ (Hit(r) \/ Kept(body[r].project, r))
  BY DEF RInv, AckedOf
<1>2. body[r].project \in Project
  BY <1>1, Parts DEF MadeOf
<1>3. Kept(body[r].project, r)
  BY <1>1 DEF Hit, HInv
<1>4. QED
  BY <1>2, <1>3, IndexedIs, Parts DEF Kept

Shows == [p \in Project |-> Outcome(p)]

\* What the refinement shows of a project is its index and the open revision.
LEMMA ListedAre ==
  ASSUME RInv, HInv, NEW r \in Revision, r \in History!Listed
  PROVE  \E p \in Project : r \in Indexed(p) \/ r \in Open(p)
<1>1. PICK p \in Project : \E i \in 1..Len(Outcome(p)) : Outcome(p)[i] = r
  BY DEF History!Listed
<1>2. ShownOnes /\ index[p] \in Seq(Revision) /\ Len(index[p]) \in Nat
  BY ShownAre, Lengths
<1>3. CASE Open(p) = {}
  BY <1>1, <1>2, <1>3, IndexedIs, Parts DEF ShownOnes
<1>4. ASSUME NEW s \in Open(p) PROVE r \in Indexed(p) \/ r = s
  <2>1. Outcome(p) = Append(index[p], s) /\ s \in Revision
    BY <1>2, <1>4, OpenIs DEF ShownOnes
  <2>2. PICK i \in 1..(Len(index[p]) + 1) : Append(index[p], s)[i] = r
    BY <1>1, <1>2, <2>1
  <2>3. i \in 1..Len(index[p]) => index[p][i] = r
    BY <1>2, <2>1, <2>2
  <2>4. i = Len(index[p]) + 1 => s = r
    BY <1>2, <2>1, <2>2
  <2>5. QED
    BY <1>2, <2>2, <2>3, <2>4, IndexedIs, Parts
<1>5. QED
  BY <1>3, <1>4

\* A revision that becomes open is published.
LEMMA PublishStep ==
  ASSUME RInv, HInv, RInv', HInv', NEW q \in Project, NEW r \in Open(q)',
         Open(q) = {}, index' = index, body'[r] = body[r], acked' = acked,
         \A p \in Project : p # q => Open(p)' = Open(p)
  PROVE  History!Publish(q)
<1>1. /\ r \in Revision /\ body[r].project = q /\ r \notin Indexed(q)
      /\ index[q] \in Seq(Revision) /\ Len(index[q]) \in Nat
  <2>1. r \in Revision /\ body'[r].project = q /\ r \notin Indexed(q)'
    BY DEF Open, Loose, RevisionsOf
  <2>2. QED
    BY <2>1, Lengths DEF Indexed
<1>2. r \notin History!Listed
  <2>1. SUFFICES ASSUME NEW p \in Project, r \in Indexed(p) \/ r \in Open(p) PROVE FALSE
    BY <1>1, ListedAre
  <2>2. body[r].project = p
    BY <2>1, IndexedIs, OpenIs, Parts DEF ProjectOf, Chain
  <2>3. QED
    BY <1>1, <2>1, <2>2
<1>3. Outcome(q) = index[q] /\ Outcome(q)' = Append(index[q], r)
  BY ShownAre, ShownAreNext DEF ShownOnes
<1>4. \A p \in Project : p # q => Outcome(p)' = Outcome(p)
  BY ShownSame
<1>5. Shows' = [Shows EXCEPT ![q] = Append(@, r)]
  BY <1>3, <1>4 DEF Shows
<1>6. Len(Outcome(q)') > Len(Outcome(q))
  BY <1>1, <1>3
<1>7. QED
  BY <1>1, <1>2, <1>5, <1>6 DEF History!Publish, Shows

\* A save returns.
LEMMA CommitHistory ==
  ASSUME RInv, HInv, NEW q \in Project, Commit(q),
         \A p \in Project : Outcome(p)' = Outcome(p)
  PROVE  [History!Next]_<<Shows, acked>>
<1>1. Shows' = Shows
  BY DEF Shows
<1>2. /\ op.phase = "commit" /\ op.cur = q /\ acked' = acked \cup {op.rev}
  BY DEF Commit, In
<1>3. Open(q) = {}
  BY <1>2 DEF HInv, Strays, Writing, Open
<1>4. Outcome(q) = index[q]
  BY <1>3, ShownAre DEF ShownOnes
<1>5. index[q][Len(index[q])] = op.rev /\ Len(index[q]) = body[op.rev].ordinal
  BY <1>2 DEF RInv, Saving, Writing
<1>6. index[q] # <<>>
  <2>1. receipt[q].state = "ok" /\ receipt[q].rev = op.rev
    BY <1>2 DEF RInv, Saving, Writing
  <2>2. body[op.rev].ordinal # 0
    BY <2>1, ReceiptIs, Parts, Numbers DEF Receipts, ReceiptOf
  <2>3. QED
    BY <1>5, <2>2, Lengths
<1>7. CASE acked' = acked
  BY <1>1, <1>7
<1>8. CASE acked' # acked
  <2>1. History!Acknowledge(q)
    BY <1>1, <1>2, <1>4, <1>5, <1>6, <1>8 DEF History!Acknowledge, Shows
  <2>2. QED
    BY <2>1 DEF History!Next
<1>9. QED
  BY <1>7, <1>8

\* A receipt is damaged: the interrupted save is withdrawn.
LEMMA SpoilReceiptHistory ==
  ASSUME RInv, HInv, RInv', HInv', NEW q \in Project, SpoilReceipt(q)
  PROVE  [History!Next]_<<Shows, acked>>
<1>1. /\ UNCHANGED <<index, rejected, file, body, acked>>
      /\ receipt'[q].state \in {"unreadable", "invalid", "mismatched"}
      /\ \A p \in Project : p # q => receipt'[p] = receipt[p]
  BY Parts DEF SpoilReceipt, Harm, manifest, revisions, Types, Receipts
<1>2. \A p \in Project : Loose(p)' = Loose(p)
  BY <1>1 DEF Loose, RevisionsOf, Indexed
<1>3. Open(q)' = {} /\ \A p \in Project : p # q => Open(p)' = Open(p)
  BY <1>1, <1>2 DEF Open
<1>4. \A p \in Project : p # q => Outcome(p)' = Outcome(p)
  BY <1>1, <1>3, ShownSame
<1>5. CASE Open(q) = {}
  <2>1. Outcome(q)' = Outcome(q)
    BY <1>1, <1>3, <1>5, ShownSame
  <2>2. Shows' = Shows
    BY <1>4, <2>1 DEF Shows
  <2>3. QED
    BY <1>1, <2>2
<1>6. ASSUME NEW r \in Open(q) PROVE History!Withdraw(q)
  <2>1. /\ index[q] \in Seq(Revision) /\ Len(index[q]) \in Nat /\ r \in Revision
        /\ r \notin Indexed(q) /\ body[r].project = q
    BY <1>6, OpenIs
  <2>2. Outcome(q) = Append(index[q], r) /\ Outcome(q)' = index[q]
    BY <1>1, <1>3, <1>6, ShownAre, ShownAreNext DEF ShownOnes
  <2>3. r \notin acked
    BY <2>1, AckedAre
  <2>4. /\ Outcome(q) # <<>> /\ Outcome(q)[Len(Outcome(q))] = r
        /\ SubSeq(Outcome(q), 1, Len(Outcome(q)) - 1) = index[q]
    BY <2>1, <2>2
  <2>5. Shows' = [Shows EXCEPT ![q] = SubSeq(@, 1, Len(@) - 1)]
    BY <1>4, <2>2, <2>4 DEF Shows
  <2>6. QED
    BY <1>1, <2>3, <2>4, <2>5 DEF History!Withdraw, Shows
<1>7. QED
  BY <1>5, <1>6 DEF History!Next

\* A receipt is lost: what it barred is added again.
LEMMA LoseReceiptHistory ==
  ASSUME RInv, HInv, RInv', HInv', NEW q \in Project, LoseReceipt(q)
  PROVE  [History!Next]_<<Shows, acked>>
<1>1. /\ UNCHANGED <<index, rejected, file, body, acked>>
      /\ receipt'[q].state = "none"
      /\ \A p \in Project : p # q => receipt'[p] = receipt[p]
  BY Parts DEF LoseReceipt, Harm, manifest, revisions, Types, NoReceipt
<1>2. \A p \in Project : Loose(p)' = Loose(p)
  BY <1>1 DEF Loose, RevisionsOf, Indexed
<1>3. /\ Open(q)' = Loose(q) \ rejected[q] /\ Open(q) \subseteq Open(q)'
      /\ \A p \in Project : p # q => Open(p)' = Open(p)
  BY <1>1, <1>2 DEF Open
<1>4. CASE Open(q)' = Open(q)
  <2>1. \A p \in Project : Outcome(p)' = Outcome(p)
    BY <1>1, <1>3, <1>4, ShownSame
  <2>2. Shows' = Shows
    BY <2>1 DEF Shows
  <2>3. QED
    BY <1>1, <2>2
<1>5. ASSUME NEW r \in Open(q)', r \notin Open(q) PROVE History!Publish(q)
  <2>1. r \in Loose(q) /\ \A s \in Open(q) : s \in Loose(q)
    BY <1>3, <1>5 DEF Open
  <2>2. Open(q) = {}
    BY <1>5, <2>1 DEF HInv, Strays
  <2>3. QED
    BY <1>1, <1>3, <1>5, <2>2, PublishStep
<1>6. QED
  BY <1>3, <1>4, <1>5 DEF History!Next

\* The revision file of a save makes it complete.
LEMMA WriteRevisionHistory ==
  ASSUME RInv, HInv, RInv', HInv', NEW q \in Project, WriteRevision(q)
  PROVE  History!Publish(q)
<1> DEFINE r == op.rev
<1>1. /\ op.phase = "revision" /\ op.cur = q /\ file' = [file EXCEPT ![r] = "good"]
      /\ UNCHANGED <<index, rejected, body, receipt, acked>>
  BY DEF WriteRevision, In, manifest, ghosts
<1>2. /\ r \in 1..made /\ r \notin rejected[q] /\ body[r].project = q /\ file[r] = "none"
      /\ receipt[q].state = "ok"
  BY <1>1 DEF RInv, Saving, Writing
<1>3. r \in Revision /\ \A x \in Revision : file'[x] = "good" <=> file[x] = "good" \/ x = r
  BY <1>1, <1>2, Parts DEF Types
<1>4. r \notin Indexed(q)
  BY <1>2, IndexedIs, Parts DEF HInv
<1>5. Open(q) = {}
  BY <1>1 DEF HInv, Strays, Writing, Open
<1>6. r \in Open(q)'
  BY <1>1, <1>2, <1>3, <1>4 DEF Open, Loose, RevisionsOf, Indexed
<1>7. \A p \in Project : p # q => Open(p)' = Open(p)
  BY <1>1, <1>2, <1>3 DEF Open, Loose, RevisionsOf, Indexed
<1>8. QED
  BY <1>1, <1>5, <1>6, <1>7, PublishStep

\* A new revision that is not on disk yet shows nothing.
LEMMA PrepareHistory ==
  ASSUME RInv, HInv, RInv', HInv', NEW q \in Project, Prepare(q)
  PROVE  UNCHANGED <<Shows, acked>>
<1>1. /\ UNCHANGED <<index, rejected, file, receipt, acked>>
      /\ body' = body \/ \E v : body' = [body EXCEPT ![made + 1] = v]
  BY DEF Prepare, Nothing, manifest, revisions, ghosts
<1>2. \A x \in Revision : file[x] = "good" => body'[x] = body[x]
  <2>1. \A x \in Revision : file[x] = "good" => x \in 1..made
    BY Parts DEF MadeOf
  <2>2. made + 1 \notin 1..made
    BY Parts
  <2>3. QED
    BY <1>1, <2>1, <2>2, Parts DEF Types
<1>3. \A p \in Project : Loose(p)' = Loose(p)
  BY <1>1, <1>2 DEF Loose, RevisionsOf, Indexed
<1>4. \A p \in Project : Outcome(p)' = Outcome(p)
  BY <1>1, <1>3, ShownSame DEF Open
<1>5. QED
  BY <1>1, <1>4 DEF Shows

\* Every step publishes, acknowledges or withdraws a save, or shows nothing new.
LEMMA HistoryNext ==
  ASSUME RInv, HInv, RInv', HInv', SlightOnly, Next
  PROVE  [History!Next]_<<Shows, acked>>
<1> DEFINE Moves(q) ==
             \/ ReadManifest(q) \/ RecoverIndexed(q) \/ RejectPending(q) \/ QuarantinePending(q)
             \/ DropPending(q) \/ FinishPending(q) \/ RecoverOrphans(q) \/ WriteReceipt(q)
             \/ WriteIndex(q) \/ Commit(q) \/ CreateProject(q)
<1>1. ASSUME \A p \in Project : Outcome(p)' = Outcome(p)
      PROVE  [History!Next]_<<Shows, acked>>
  <2>1. CASE acked' = acked
    BY <1>1, <2>1 DEF Shows
  <2>2. CASE \E q \in Project : Commit(q)
    BY <1>1, <2>2, CommitHistory
  <2>3. QED
    BY <2>1, <2>2, Frames
<1>2. ASSUME NEW q \in Project, Moves(q) PROVE \A p \in Project : Outcome(p)' = Outcome(p)
  BY <1>2, HereKeeps, ThereKeeps
<1>3. CASE \E q \in Project : SpoilReceipt(q)
  BY <1>3, SpoilReceiptHistory
<1>4. CASE \E q \in Project : LoseReceipt(q)
  BY <1>4, LoseReceiptHistory
<1>5. CASE \E q \in Project : WriteRevision(q)
  BY <1>5, WriteRevisionHistory DEF History!Next
<1>6. CASE \E q \in Project : Prepare(q)
  BY <1>6, PrepareHistory
<1>7. ASSUME ~ \E q \in Project : Moves(q) \/ SpoilReceipt(q) \/ LoseReceipt(q)
                                  \/ WriteRevision(q) \/ Prepare(q)
      PROVE  \A p \in Project : Outcome(p)' = Outcome(p)
  <2>1. UNCHANGED <<health, index, rejected, file, body, receipt>>
    BY <1>7, NoneHarmed, Frames
       DEF HealthMoves, IndexMoves, ManifestMoves, FileMoves, RevisionMoves, ReceiptMoves
  <2>2. QED
    BY <2>1, OutcomeSame
<1> HIDE DEF Moves
<1>8. QED
  BY <1>1, <1>2, <1>3, <1>4, <1>5, <1>6, <1>7

------------------------------------------------------------------------------
(* The theorems *)

\* The variables keep their types.
THEOREM TypeCorrect == Spec => []TypeOK
<1>1. RInv => TypeOK
  BY DEF RInv
<1>2. QED
  BY RepositoryInvariant, <1>1, PTL

\* A revision that a recovery rejected is never in the history of its project again,
\* whatever was damaged and wherever methods were interrupted.
THEOREM RejectedStay == Spec => []RejectedStaysOut
<1>1. RInv => RejectedStaysOut
  BY DEF RInv
<1>2. QED
  BY RepositoryInvariant, <1>1, PTL

\* A read of the current project that completes leaves the pointer at its latest revision.
THEOREM PointerIsLatest == Spec => []PointerFollows
<1>1. RInv => PointerFollows
  BY DEF RInv
<1>2. QED
  BY RepositoryInvariant, <1>1, PTL

\* A read that completes has brought the files to what Outcome says of them.
THEOREM ReadsSettle == Spec => []ReadSettles
BY RepositoryInvariant, ReadFollows, PTL

\* A revision whose save returned is in what a read would show, unless it or a revision
\* before it was itself damaged.
THEOREM AckedStay == Spec => []AckedSurvives
BY RepositoryInvariant, AckedFollows, PTL

\* As long as no revision file is damaged and no manifest replaced, neither a save, nor
\* a recovery, nor the fallback of current() takes the selection back to a project that
\* was saved before the selected revision.
THEOREM SelectionAdvances ==
  ASSUME NoRollback
  PROVE  Spec => SelectionNeverGoesBack
<1>1. RInv /\ SInv /\ [Next]_vars => SInv'
  BY SelectingInv
<1>2. RInv /\ SInv /\ [Next]_vars
      => [pointer.state = "ok" /\ pointer'.state = "ok" /\ pointer'.project # pointer.project
          => pointer'.rev > pointer.rev]_vars
  BY SelectionStep
<1>3. Init => SInv
  BY SelectingInv
<1>4. QED
  BY RepositoryInvariant, <1>1, <1>2, <1>3, PTL DEF Spec, SelectionNeverGoesBack

\* Every write of a recovery, and every write of a save but that of the revision file,
\* keeps what a complete read would make of the files.
THEOREM RecoveryKeeps == Spec => RecoveryKeepsOutcome
<1>1. RInv /\ RInv' /\ [Next]_vars
      => [made' = made /\ damage' = damage /\ op.phase # "revision"
          => \A p \in Project : Outcome(p)' = Outcome(p)]_vars
  BY KeepsStep
<1>2. QED
  BY RepositoryInvariant, <1>1, PTL DEF Spec, RecoveryKeepsOutcome

\* As long as no revision and no manifest is damaged, and no revision comes from
\* elsewhere, what a read would show is a history that grows by whole saves, keeps every
\* one that returned, and withdraws no other than the last.
THEOREM HistoryImplemented ==
  ASSUME SlightOnly
  PROVE  Spec => ImplementsHistory
<1>1. Init => History!Init
  BY OutcomeBy DEF Init, History!Init, OutcomesAre
<1>2. RInv /\ HInv /\ [Next]_vars => HInv'
  BY HistoryInv
<1>3. RInv /\ RInv' /\ HInv /\ HInv' /\ [Next]_vars => [History!Next]_<<Shows, acked>>
  <2>1. ASSUME UNCHANGED vars PROVE UNCHANGED <<Shows, acked>>
    <3>1. \A p \in Project : Outcome(p)' = Outcome(p)
      BY <2>1 DEF vars, Outcome, Safe, RevisionsOf, Indexed, Extends, Adopted, Follows
    <3>2. QED
      BY <2>1, <3>1 DEF Shows, vars
  <2>2. QED
    BY <2>1, HistoryNext
<1>4. Init => HInv
  BY HistoryInv
<1>5. QED
  BY RepositoryInvariant, <1>1, <1>2, <1>3, <1>4, PTL DEF Spec, ImplementsHistory, History!Spec, Shows
=============================================================================

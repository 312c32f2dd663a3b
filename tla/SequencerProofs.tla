-------------------------- MODULE SequencerProofs --------------------------
(***************************************************************************)
(* What Sequencer promises, for any number of writers, replicas, rows and  *)
(* any batch size.  The argument in one paragraph: the rows in the feed    *)
(* carry the numbers 1 .. n, each once (Numbering).  Only the one replica  *)
(* that holds the advisory lock can change that (LockExclusive), so what   *)
(* it planned from MAX(feed_seq) = n is still right when it commits: rows  *)
(* that had no number get n+1 .. n+k, each once (PlanFits).                *)
(***************************************************************************)
EXTENDS Sequencer, FiniteSetTheorems, SequenceTheorems, TLAPS

-----------------------------------------------------------------------------
(* The inductive invariant.                                                *)

\* q numbers some files 1 .. n, without gap or duplicate; 0 is no number.
Numbering(q, n) ==
  /\ \A f \in FileIds : q[f] \in 0 .. n
  /\ \A i \in 1 .. n : \E f \in FileIds : q[f] = i
  /\ \A f, g \in FileIds : (q[f] = q[g] /\ q[f] # 0) => f = g

\* q numbers some files n+1 .. n+k, without gap or duplicate.
Extension(q, n, k) ==
  /\ \A f \in FileIds : q[f] \in {0} \cup (n + 1) .. (n + k)
  /\ \A i \in (n + 1) .. (n + k) : \E f \in FileIds : q[f] = i
  /\ \A f, g \in FileIds : (q[f] = q[g] /\ q[f] # 0) => f = g

\* r has the numbers of q, and those of e for files that q gave none.
Merges(r, q, e) ==
  \A f \in FileIds : /\ e[f] # 0 => q[f] = 0
                     /\ r[f] = IF e[f] # 0 THEN e[f] ELSE q[f]

RowHasId == \A w \in Writers : wpc[w] = "inserted" => wid[w] \in FileIds

LockExclusive ==
  \A s, r \in Sequencers : (spc[s] \in HasLock /\ spc[r] \in HasLock) => s = r

OnlyCommitted == \A f \in FileIds : feedSeq[f] # 0 => f \in committed

Numbered == \E n \in Nat : Numbering(feedSeq, n)

PlanFits(s) ==
  /\ spc[s] # "commit" => plan[s] = NoPlan
  /\ Planned(s) \subseteq Unsequenced
  /\ \A n \in Nat : Numbering(feedSeq, n) =>
       \E k \in Nat : Extension(plan[s], n, k)

IInv ==
  /\ TypeOK
  /\ RowHasId
  /\ LockExclusive
  /\ OnlyCommitted
  /\ Numbered
  /\ \A s \in Sequencers : PlanFits(s)

-----------------------------------------------------------------------------
(* The numbers: what MAX, ROW_NUMBER and the update of a batch do to them.  *)

\* COALESCE(MAX(feed_seq), 0), of any column q; it is the n of the numbering.
MaxOf(q) ==
  CHOOSE m \in {0} \cup {q[f] : f \in FileIds} : \A f \in FileIds : q[f] <= m

LEMMA MaxOfNumbering ==
  ASSUME NEW q, NEW n \in Nat, Numbering(q, n)
  PROVE  MaxOf(q) = n
<1> DEFINE Seen == {0} \cup {q[f] : f \in FileIds}
           IsMax(m) == \A f \in FileIds : q[f] <= m
<1>1. n \in Seen /\ IsMax(n)
  <2>1. IsMax(n)
    BY DEF Numbering
  <2>2. CASE n = 0
    BY <2>1, <2>2
  <2>3. CASE n # 0
    <3>1. PICK f \in FileIds : q[f] = n
      BY <2>3 DEF Numbering
    <3> QED BY <2>1, <3>1
  <2> QED BY <2>2, <2>3
<1>2. ASSUME NEW m \in Seen, IsMax(m)
      PROVE  m = n
  <2>1. m \in 0 .. n
    BY DEF Numbering
  <2>2. CASE n = 0
    BY <2>1, <2>2
  <2>3. CASE n # 0
    <3>1. PICK f \in FileIds : q[f] = n
      BY <2>3 DEF Numbering
    <3> QED BY <1>2, <2>1, <3>1
  <2> QED BY <2>2, <2>3
<1>3. MaxOf(q) \in Seen /\ IsMax(MaxOf(q))
  BY <1>1 DEF MaxOf
<1> QED BY <1>2, <1>3

\* Numbers n+1 .. n+k given to files that had none continue the numbering.
LEMMA ExtendNumbering ==
  ASSUME NEW q, NEW e, NEW n \in Nat, NEW k \in Nat,
         Numbering(q, n), Extension(e, n, k),
         NEW r, Merges(r, q, e)
  PROVE  Numbering(r, n + k)
<1> USE DEF Merges
<1>1. \A f \in FileIds : r[f] \in 0 .. (n + k)
  BY DEF Numbering, Extension
<1>2. ASSUME NEW i \in 1 .. (n + k)
      PROVE  \E f \in FileIds : r[f] = i
  <2>1. CASE i <= n
    <3>1. PICK f \in FileIds : q[f] = i
      BY <2>1 DEF Numbering
    <3>2. e[f] = 0
      BY <3>1
    <3> QED BY <3>1, <3>2
  <2>2. CASE i > n
    <3>1. PICK f \in FileIds : e[f] = i
      BY <2>2 DEF Extension
    <3> QED BY <3>1
  <2> QED BY <2>1, <2>2
<1>3. ASSUME NEW f \in FileIds, NEW g \in FileIds, r[f] = r[g], r[f] # 0
      PROVE  f = g
  <2>1. CASE e[f] # 0 /\ e[g] # 0
    BY <1>3, <2>1 DEF Extension
  <2>2. CASE e[f] = 0 /\ e[g] = 0
    BY <1>3, <2>2 DEF Numbering
  <2>3. CASE e[f] # 0 /\ e[g] = 0
    <3>1. r[f] \in (n + 1) .. (n + k) /\ r[g] \in 0 .. n
      BY <2>3 DEF Numbering, Extension
    <3> QED BY <1>3, <3>1
  <2>4. CASE e[f] = 0 /\ e[g] # 0
    <3>1. r[g] \in (n + 1) .. (n + k) /\ r[f] \in 0 .. n
      BY <2>4 DEF Numbering, Extension
    <3> QED BY <1>3, <3>1
  <2> QED BY <2>1, <2>2, <2>3, <2>4
<1> QED BY <1>1, <1>2, <1>3 DEF Numbering

\* No plan at all is the extension by none.
LEMMA NoPlanExtends ==
  ASSUME NEW n \in Nat
  PROVE  Extension(NoPlan, n, 0)
BY DEF Extension, NoPlan

LEMMA FileIdsFinite == IsFiniteSet(FileIds)
BY SequencerAssumption, FS_Interval DEF FileIds

\* MAX(feed_seq) + ROW_NUMBER() over a batch numbers it n+1 .. n+k.
LEMMA BatchExtends ==
  ASSUME TypeOK, NEW n \in Nat,
         NEW B \in Batches, NEW rn \in RowNumbers(B)
  PROVE  /\ Cardinality(B) \in Nat
         /\ Extension([f \in FileIds |-> IF f \in B THEN n + rn[f] ELSE 0],
                      n, Cardinality(B))
<1> DEFINE e == [f \in FileIds |-> IF f \in B THEN n + rn[f] ELSE 0]
           k == Cardinality(B)
<1>1. B \subseteq FileIds
  BY DEF Batches, Unsequenced, TypeOK
<1>2. k \in Nat
  BY <1>1, FileIdsFinite, FS_Subset, FS_CardinalityType
<1>3. \A f \in B : rn[f] \in 1 .. k
  BY DEF RowNumbers
<1> HIDE DEF k
<1>4. \A f \in FileIds : e[f] \in {0} \cup (n + 1) .. (n + k)
  BY <1>2, <1>3
<1>5. ASSUME NEW i \in (n + 1) .. (n + k)
      PROVE  \E f \in FileIds : e[f] = i
  <2>1. i - n \in 1 .. k
    BY <1>2
  <2>2. PICK f \in B : rn[f] = i - n
    BY <2>1 DEF RowNumbers, k
  <2> QED BY <1>1, <2>2
<1>6. ASSUME NEW f \in FileIds, NEW g \in FileIds, e[f] = e[g], e[f] # 0
      PROVE  f = g
  <2>1. f \in B /\ g \in B
    BY <1>6
  <2>2. rn[f] = rn[g]
    BY <1>2, <1>3, <1>6, <2>1
  <2>3. ASSUME f # g
        PROVE  Before(f, g) \/ Before(g, f)
    <3>1. writtenAt[f] \in Int /\ writtenAt[g] \in Int /\ f \in Int /\ g \in Int
      BY DEF TypeOK, FileIds, Times
    <3> QED BY <2>3, <3>1 DEF Before
  <2>4. Before(f, g) => rn[f] < rn[g]
    BY <2>1 DEF RowNumbers
  <2>5. Before(g, f) => rn[g] < rn[f]
    BY <2>1 DEF RowNumbers
  <2>6. rn[f] \in Int
    BY <1>2, <1>3, <2>1
  <2> QED BY <2>2, <2>3, <2>4, <2>5, <2>6
<1> HIDE DEF e
<1>7. Extension(e, n, k)
  BY <1>4, <1>5, <1>6 DEF Extension
<1> QED BY <1>2, <1>7 DEF e, k

-----------------------------------------------------------------------------
(* The invariant is inductive.                                             *)

LEMMA InitIInv == Init => IInv
<1> SUFFICES ASSUME Init PROVE IInv
  OBVIOUS
<1> USE SequencerAssumption
<1>1. TypeOK
  BY DEF Init, TypeOK, FileIds, Times, Phases, NoPlan
<1>2. RowHasId /\ LockExclusive /\ OnlyCommitted
  BY DEF Init, RowHasId, LockExclusive, HasLock, OnlyCommitted
<1>3. Numbering(feedSeq, 0)
  BY DEF Init, Numbering
<1>4. ASSUME NEW s \in Sequencers
      PROVE  PlanFits(s)
  <2>1. plan[s] = NoPlan /\ Planned(s) = {}
    BY DEF Init, NoPlan, Planned
  <2> QED BY <2>1, NoPlanExtends DEF PlanFits
<1> QED BY <1>1, <1>2, <1>3, <1>4 DEF IInv, Numbered

\* A step that leaves a plan and the feed alone, and takes no row from the
\* table, leaves the plan fitting.
LEMMA PlanKept ==
  ASSUME NEW s \in Sequencers, PlanFits(s),
         plan'[s] = plan[s], feedSeq' = feedSeq, committed \subseteq committed',
         spc'[s] # "commit" => plan[s] = NoPlan
  PROVE  PlanFits(s)'
<1>1. \A n : Numbering(feedSeq', n) <=> Numbering(feedSeq, n)
  OBVIOUS
<1>2. Planned(s)' = Planned(s)
  BY DEF Planned
<1>3. Unsequenced \subseteq Unsequenced'
  BY DEF Unsequenced
<1> QED BY <1>1, <1>2, <1>3 DEF PlanFits

\* A replica without a plan fits any feed.
LEMMA NoPlanFits ==
  ASSUME NEW s \in Sequencers, plan'[s] = NoPlan
  PROVE  PlanFits(s)'
<1>1. Planned(s)' = {}
  BY DEF Planned, NoPlan
<1>2. \A n \in Nat : Extension(plan'[s], n, 0)
  BY NoPlanExtends
<1> QED BY <1>1, <1>2 DEF PlanFits

\* What the clock and the writers do: they touch neither feed nor replicas.
LEMMA WriterIInv ==
  ASSUME IInv,
         Tick \/ \E w \in Writers : WriterStep(w)
  PROVE  IInv'
<1> USE SequencerAssumption
<1>1. UNCHANGED <<feedVars, sequencerVars>>
  BY DEF Tick, WriterStep, WriterBegin, WriterInsert, WriterCommit, WriterRollback
<1>2. TypeOK' /\ RowHasId' /\ committed \subseteq committed'
  <2>1. CASE Tick
    BY <2>1 DEF IInv, TypeOK, RowHasId, Tick, feedVars, sequencerVars, Times
  <2>2. ASSUME NEW w \in Writers, WriterBegin(w)
        PROVE  TypeOK' /\ RowHasId' /\ committed \subseteq committed'
    BY <2>2 DEF IInv, TypeOK, RowHasId, WriterBegin, feedVars, sequencerVars
  <2>3. ASSUME NEW w \in Writers, WriterInsert(w)
        PROVE  TypeOK' /\ RowHasId' /\ committed \subseteq committed'
    BY <2>3 DEF IInv, TypeOK, RowHasId, WriterInsert, feedVars, sequencerVars, FileIds
  <2>4. ASSUME NEW w \in Writers, WriterCommit(w)
        PROVE  TypeOK' /\ RowHasId' /\ committed \subseteq committed'
    BY <2>4 DEF IInv, TypeOK, RowHasId, WriterCommit, WriterEnds,
                feedVars, sequencerVars, Times
  <2>5. ASSUME NEW w \in Writers, WriterRollback(w)
        PROVE  TypeOK' /\ RowHasId' /\ committed \subseteq committed'
    BY <2>5 DEF IInv, TypeOK, RowHasId, WriterRollback, WriterEnds,
                feedVars, sequencerVars, Times
  <2> QED BY <2>1, <2>2, <2>3, <2>4, <2>5 DEF WriterStep
<1>3. LockExclusive' /\ OnlyCommitted' /\ Numbered'
  BY <1>1, <1>2 DEF IInv, LockExclusive, OnlyCommitted, Numbered, Numbering,
                    feedVars, sequencerVars
<1>4. ASSUME NEW s \in Sequencers
      PROVE  PlanFits(s)'
  <2>1. PlanFits(s) /\ (spc'[s] # "commit" => plan[s] = NoPlan)
    BY <1>1 DEF IInv, PlanFits, sequencerVars
  <2> QED BY <1>1, <1>2, <2>1, PlanKept DEF feedVars, sequencerVars
<1> QED BY <1>2, <1>3, <1>4 DEF IInv

\* A replica's step that leaves the feed alone, in which only its own plan can
\* change, and that takes the lock only from nobody.
LEMMA QuietIInv ==
  ASSUME IInv, NEW s \in Sequencers,
         UNCHANGED <<writerVars, feedVars>>,
         TypeOK',
         \A r \in Sequencers \ {s} : spc'[r] = spc[r] /\ plan'[r] = plan[r],
         \/ spc'[s] \notin HasLock
         \/ spc[s] \in HasLock
         \/ \A r \in Sequencers : spc[r] \notin HasLock,
         \/ plan'[s] = NoPlan
         \/ PlanFits(s)'
  PROVE  IInv'
<1>1. RowHasId' /\ OnlyCommitted' /\ Numbered'
  BY DEF IInv, RowHasId, OnlyCommitted, Numbered, Numbering, writerVars, feedVars
<1>2. LockExclusive'
  BY DEF IInv, LockExclusive
<1>3. ASSUME NEW r \in Sequencers
      PROVE  PlanFits(r)'
  <2>1. CASE r = s
    BY <2>1, NoPlanFits
  <2>2. CASE r # s
    <3>1. PlanFits(r) /\ (spc'[r] # "commit" => plan[r] = NoPlan)
      BY <2>2 DEF IInv, PlanFits
    <3> QED BY <2>2, <3>1, PlanKept DEF feedVars, writerVars
  <2> QED BY <2>1, <2>2
<1> QED BY <1>1, <1>2, <1>3 DEF IInv

LEMMA AssignIInv ==
  ASSUME IInv, NEW s \in Sequencers, Assign(s)
  PROVE  IInv'
<1>1. PICK n \in Nat : Numbering(feedSeq, n)
  BY DEF IInv, Numbered
<1>2. MaxSeq = n
  BY <1>1, MaxOfNumbering DEF MaxOf, MaxSeq
<1> DEFINE Numbers(B, rn) ==
             [f \in FileIds |-> IF f \in B THEN MaxSeq + rn[f] ELSE 0]
<1>3. PICK B \in Batches : \E rn \in RowNumbers(B) :
        plan' = [plan EXCEPT ![s] = Numbers(B, rn)]
  BY DEF Assign
<1>4. PICK rn \in RowNumbers(B) : plan' = [plan EXCEPT ![s] = Numbers(B, rn)]
  BY <1>3
<1> DEFINE e == Numbers(B, rn)
           k == Cardinality(B)
<1>5. k \in Nat /\ Extension(e, n, k)
  BY <1>2, <1>4, BatchExtends DEF IInv
<1>6. plan'[s] = e /\ \A r \in Sequencers \ {s} : plan'[r] = plan[r]
  BY <1>4 DEF IInv, TypeOK
<1>7. e \in [FileIds -> Nat]
  BY <1>5 DEF Extension
<1>8. B \subseteq Unsequenced
  BY <1>3 DEF Batches
<1>9. Planned(s)' \subseteq Unsequenced
  BY <1>6, <1>8 DEF Planned
<1> HIDE DEF e, k
<1>10. UNCHANGED <<writerVars, feedVars>> /\ spc[s] = "assign" /\ spc'[s] = "commit"
      /\ \A r \in Sequencers \ {s} : spc'[r] = spc[r]
  BY DEF Assign, Move, IInv, TypeOK
<1>11. TypeOK'
  BY <1>4, <1>7 DEF Assign, Move, IInv, TypeOK, writerVars, feedVars, Phases, InTx, HasLock, e
<1>12. PlanFits(s)'
  <2>1. ASSUME NEW m \in Nat, Numbering(feedSeq, m)
        PROVE  Extension(plan'[s], m, k)
    BY <1>2, <1>5, <1>6, <2>1, MaxOfNumbering DEF MaxOf, MaxSeq
  <2>2. Unsequenced' = Unsequenced
    BY <1>10 DEF Unsequenced, writerVars, feedVars
  <2>3. \A m : Numbering(feedSeq', m) <=> Numbering(feedSeq, m)
    BY <1>10 DEF feedVars
  <2> QED BY <1>5, <1>9, <1>10, <2>1, <2>2, <2>3 DEF PlanFits
<1> QED BY <1>6, <1>10, <1>11, <1>12, QuietIInv DEF HasLock
\* What a COMMIT makes visible, and to whom it leaves the lock.
LEMMA CommitIInv ==
  ASSUME IInv, NEW s \in Sequencers, spc[s] = "commit", CommitEffect(s),
         TypeOK', spc'[s] \notin HasLock,
         \A r \in Sequencers \ {s} : spc'[r] = spc[r]
  PROVE  IInv'
<1>1. PICK n \in Nat : Numbering(feedSeq, n)
  BY DEF IInv, Numbered
<1>2. PICK k \in Nat : Extension(plan[s], n, k)
  BY <1>1 DEF IInv, PlanFits
<1>3. \A f \in FileIds : plan[s][f] # 0 => f \in committed /\ feedSeq[f] = 0
  BY DEF IInv, PlanFits, Planned, Unsequenced
<1>4. feedSeq' = [f \in FileIds |-> IF plan[s][f] # 0 THEN plan[s][f] ELSE feedSeq[f]]
  BY DEF CommitEffect, Planned
<1>5. Numbered'
  <2>1. Numbering(feedSeq', n + k)
    <3>1. Merges(feedSeq', feedSeq, plan[s])
      BY <1>3, <1>4 DEF Merges
    <3> QED BY <1>1, <1>2, <3>1, ExtendNumbering
  <2> QED BY <2>1 DEF Numbered
<1>6. OnlyCommitted' /\ RowHasId'
  BY <1>3, <1>4 DEF IInv, OnlyCommitted, RowHasId, CommitEffect, writerVars
<1>7. LockExclusive'
  BY DEF IInv, LockExclusive
<1>8. ASSUME NEW r \in Sequencers
      PROVE  PlanFits(r)'
  <2>1. CASE r = s
    BY <2>1, NoPlanFits DEF CommitEffect, Forget, IInv, TypeOK
  <2>2. CASE r # s
    <3>1. spc[r] # "commit"
      BY <2>2 DEF IInv, LockExclusive, HasLock
    <3>2. plan'[r] = NoPlan
      BY <2>2, <3>1 DEF IInv, PlanFits, CommitEffect, Forget, TypeOK
    <3> QED BY <3>2, NoPlanFits
  <2> QED BY <2>1, <2>2
<1> QED BY <1>5, <1>6, <1>7, <1>8 DEF IInv

\* The transaction is over, or none was open: no lock, no plan.
LEMMA ForgetIInv ==
  ASSUME IInv, NEW s \in Sequencers, Forget(s),
         UNCHANGED <<writerVars, feedVars>>, TypeOK', spc'[s] \notin HasLock,
         \A r \in Sequencers \ {s} : spc'[r] = spc[r]
  PROVE  IInv'
<1>1. plan'[s] = NoPlan /\ \A r \in Sequencers \ {s} : plan'[r] = plan[r]
  BY DEF Forget, IInv, TypeOK
<1> QED BY <1>1, QuietIInv

LEMMA ForgetType ==
  ASSUME TypeOK, NEW s \in Sequencers, Forget(s)
  PROVE  /\ sstart' \in [Sequencers -> Times]
         /\ plan' \in [Sequencers -> [FileIds -> Nat]]
BY SequencerAssumption DEF TypeOK, Forget, NoPlan, Times

LEMMA CommitEffectType ==
  ASSUME TypeOK, NEW s \in Sequencers, CommitEffect(s),
         spc' \in [Sequencers -> Phases], draining' \in [Sequencers -> BOOLEAN]
  PROVE  TypeOK'
<1>1. feedSeq' \in [FileIds -> Nat] /\ feedSeqAt' \in [FileIds -> Times]
  BY DEF TypeOK, CommitEffect
<1>2. sstart' \in [Sequencers -> Times] /\ plan' \in [Sequencers -> [FileIds -> Nat]]
  BY ForgetType DEF CommitEffect
<1> QED BY <1>1, <1>2 DEF TypeOK, CommitEffect, writerVars

LEMMA AfterErrorFacts ==
  ASSUME TypeOK, NEW s \in Sequencers, AfterError(s)
  PROVE  /\ spc' \in [Sequencers -> Phases]
         /\ draining' \in [Sequencers -> BOOLEAN]
         /\ spc'[s] \notin HasLock
         /\ \A r \in Sequencers \ {s} : spc'[r] = spc[r]
BY DEF TypeOK, AfterError, Phases, HasLock

LEMMA SequencerIInv ==
  ASSUME IInv, NEW s \in Sequencers, SequencerStep(s)
  PROVE  IInv'
<1> USE DEF IInv
<1>1. CASE BeginTx(s) \/ StartRun(s) \/ Wake(s)
  <2>1. TypeOK' /\ UNCHANGED <<writerVars, feedVars>>
    <3>1. UNCHANGED <<writerVars, feedVars>>
      BY <1>1 DEF BeginTx, StartRun, Wake, writerVars, feedVars
    <3>2. /\ spc' \in [Sequencers -> Phases] /\ sstart' \in [Sequencers -> Times]
          /\ plan' = plan /\ draining' \in [Sequencers -> BOOLEAN]
      BY <1>1 DEF TypeOK, BeginTx, StartRun, Wake, Move, Phases, InTx, HasLock
    <3> QED BY <3>1, <3>2 DEF TypeOK, writerVars, feedVars
  <2>2. /\ plan' = plan /\ spc[s] # "commit" /\ spc'[s] \notin HasLock
        /\ \A r \in Sequencers \ {s} : spc'[r] = spc[r]
    BY <1>1 DEF TypeOK, BeginTx, StartRun, Wake, Move, HasLock
  <2>3. plan'[s] = NoPlan
    BY <2>2 DEF PlanFits
  <2> QED BY <2>1, <2>2, <2>3, QuietIInv
<1>2. CASE AcquireLock(s)
  <2>1. TypeOK' /\ UNCHANGED <<writerVars, feedVars>>
    BY <1>2 DEF TypeOK, AcquireLock, Move, writerVars, feedVars, Phases, InTx, HasLock
  <2>2. /\ plan' = plan /\ spc[s] # "commit"
        /\ \A r \in Sequencers : spc[r] \notin HasLock
        /\ \A r \in Sequencers \ {s} : spc'[r] = spc[r]
    BY <1>2 DEF TypeOK, AcquireLock, Move
  <2>3. plan'[s] = NoPlan
    BY <2>2 DEF PlanFits
  <2> QED BY <2>1, <2>2, <2>3, QuietIInv
<1>3. CASE Assign(s)
  BY <1>3, AssignIInv
<1>4. CASE Commit(s)
  <2>1. /\ spc' \in [Sequencers -> Phases] /\ draining' \in [Sequencers -> BOOLEAN]
        /\ spc[s] = "commit" /\ spc'[s] \notin HasLock
        /\ \A r \in Sequencers \ {s} : spc'[r] = spc[r]
    BY <1>4 DEF TypeOK, Commit, Move, Phases, HasLock
  <2>2. CommitEffect(s)
    BY <1>4 DEF Commit
  <2> QED BY <2>1, <2>2, CommitEffectType, CommitIInv
<1>5. CASE CommitUnknown(s)
  BY <1>5, AfterErrorFacts, CommitEffectType, CommitIInv DEF CommitUnknown
<1>6. CASE FailPass(s)
  <2>1. TypeOK'
    BY <1>6, ForgetType, AfterErrorFacts DEF TypeOK, FailPass, writerVars, feedVars
  <2> QED BY <1>6, <2>1, AfterErrorFacts, ForgetIInv DEF FailPass
<1>7. CASE Crash(s)
  <2>1. /\ spc' \in [Sequencers -> Phases] /\ draining' \in [Sequencers -> BOOLEAN]
        /\ spc'[s] \notin HasLock /\ \A r \in Sequencers \ {s} : spc'[r] = spc[r]
    BY <1>7 DEF TypeOK, Crash, Phases, HasLock
  <2>2. TypeOK'
    BY <1>7, <2>1, ForgetType DEF TypeOK, Crash, writerVars, feedVars
  <2> QED BY <1>7, <2>1, <2>2, ForgetIInv DEF Crash
<1> QED BY <1>1, <1>2, <1>3, <1>4, <1>5, <1>6, <1>7 DEF SequencerStep

LEMMA StutterIInv ==
  ASSUME IInv, UNCHANGED vars
  PROVE  IInv'
<1>1. TypeOK' /\ RowHasId' /\ LockExclusive' /\ OnlyCommitted' /\ Numbered'
  BY DEF vars, writerVars, feedVars, sequencerVars, IInv, TypeOK, RowHasId,
         LockExclusive, OnlyCommitted, Numbered, Numbering
<1>2. ASSUME NEW s \in Sequencers
      PROVE  PlanFits(s)'
  <2>1. PlanFits(s) /\ (spc'[s] # "commit" => plan[s] = NoPlan)
    BY DEF IInv, PlanFits, vars, sequencerVars
  <2> QED BY <2>1, PlanKept DEF vars, writerVars, feedVars, sequencerVars
<1> QED BY <1>1, <1>2 DEF IInv

\* The sequencers and their environment keep the invariant.
THEOREM Invariant == Spec => []IInv
<1>1. IInv /\ [Next]_vars => IInv'
  <2> SUFFICES ASSUME IInv, [Next]_vars PROVE IInv'
    OBVIOUS
  <2>1. CASE Tick \/ \E w \in Writers : WriterStep(w)
    BY <2>1, WriterIInv
  <2>2. CASE \E s \in Sequencers : SequencerStep(s)
    BY <2>2, SequencerIInv
  <2>3. CASE UNCHANGED vars
    BY <2>3, StutterIInv
  <2> QED BY <2>1, <2>2, <2>3 DEF Next
<1> QED BY InitIInv, <1>1, PTL DEF Spec

-----------------------------------------------------------------------------
(* What follows from it.                                                   *)

\* The variables stay in their types.
THEOREM TypeCorrect == Spec => []TypeOK
<1>1. IInv => TypeOK
  BY DEF IInv
<1> QED BY <1>1, Invariant, PTL

\* The offsets are 1 .. n, each once.
THEOREM FeedIsGapFree == Spec => []GapFree
<1>1. IInv => GapFree
  <2> SUFFICES ASSUME NEW n \in Nat, Numbering(feedSeq, n)
               PROVE  GapFree
    BY DEF IInv, Numbered
  <2>1. ASSUME NEW f \in FileIds, NEW i \in 1 .. feedSeq[f]
        PROVE  \E g \in FileIds : feedSeq[g] = i
    <3>1. i \in 1 .. n
      BY DEF Numbering
    <3> QED BY <3>1 DEF Numbering
  <2> QED BY <2>1 DEF GapFree, Numbering
<1> QED BY <1>1, Invariant, PTL

\* Readers miss nothing: rows enter the feed above every offset in use, and keep
\* the offset they got.
THEOREM ReadersMissNothing == Spec => NothingBehindReaders
<1> DEFINE Above ==
      \A f \in FileIds :
        feedSeq'[f] # feedSeq[f] =>
          feedSeq[f] = 0 /\ \A g \in FileIds : feedSeq'[f] > feedSeq[g]
<1>1. IInv /\ [Next]_vars => [Above]_feedSeq
  <2> SUFFICES ASSUME IInv, Next, feedSeq' # feedSeq
               PROVE  Above
    BY DEF vars, feedVars
  <2>1. PICK s \in Sequencers : spc[s] = "commit" /\ CommitEffect(s)
    BY DEF Next, WriterStep, WriterBegin, WriterInsert, WriterCommit, WriterRollback,
           Tick, SequencerStep, BeginTx, AcquireLock, Assign, Commit, Move, StartRun,
           Wake, CommitUnknown, FailPass, Crash, feedVars
  <2>2. PICK n \in Nat : Numbering(feedSeq, n)
    BY DEF IInv, Numbered
  <2>3. PICK k \in Nat : Extension(plan[s], n, k)
    BY <2>2 DEF IInv, PlanFits
  <2>4. ASSUME NEW f \in FileIds, feedSeq'[f] # feedSeq[f]
        PROVE  feedSeq[f] = 0 /\ \A g \in FileIds : feedSeq'[f] > feedSeq[g]
    <3>1. f \in Planned(s) /\ feedSeq'[f] = plan[s][f]
      BY <2>1, <2>4 DEF CommitEffect, IInv, TypeOK
    <3>2. feedSeq[f] = 0
      BY <3>1 DEF IInv, PlanFits, Unsequenced
    <3>3. plan[s][f] > n
      BY <2>3, <3>1 DEF Extension, Planned
    <3>4. \A g \in FileIds : feedSeq[g] \in 0 .. n
      BY <2>2 DEF Numbering
    <3>5. plan[s][f] \in Nat
      BY DEF IInv, TypeOK
    <3> QED BY <3>1, <3>2, <3>3, <3>4, <3>5
  <2> QED BY <2>4
<1> QED BY <1>1, Invariant, PTL DEF Spec, NothingBehindReaders

-----------------------------------------------------------------------------
(* The sequencers implement Feed: seen through committed and LogNow, every *)
(* step of Sequencer publishes a file, extends the log at its end, or      *)
(* changes nothing.  The commit of a batch is the one step that matters:   *)
(* the files it numbers n+1 .. n+k are the batch that Extend appends.      *)

\* The file with number i.
FileAt(q, i) == CHOOSE f \in FileIds : q[f] = i

LogOf(q, n) == [i \in 1 .. n |-> FileAt(q, i)]

LEMMA FileAtUnique ==
  ASSUME NEW q, NEW f \in FileIds, q[f] # 0,
         \A g, h \in FileIds : (q[g] = q[h] /\ q[g] # 0) => g = h
  PROVE  FileAt(q, q[f]) = f
BY DEF FileAt

LEMMA LogNowIs ==
  ASSUME NEW n \in Nat, Numbering(feedSeq, n)
  PROVE  LogNow = LogOf(feedSeq, n)
<1>1. MaxSeq = n
  BY MaxOfNumbering DEF MaxOf, MaxSeq
<1> QED BY <1>1 DEF LogNow, LogOf, FileAt

LEMMA LogNowPrimeIs ==
  ASSUME NEW n \in Nat, Numbering(feedSeq', n)
  PROVE  LogNow' = LogOf(feedSeq', n)
<1>1. MaxSeq' = n
  BY MaxOfNumbering DEF MaxOf, MaxSeq
<1> QED BY <1>1 DEF LogNow, LogOf, FileAt

LEMMA LogOfEntries ==
  ASSUME NEW q, NEW n \in Nat, Numbering(q, n)
  PROVE  /\ LogOf(q, n) \in Seq(FileIds)
         /\ Len(LogOf(q, n)) = n
         /\ \A i \in 1 .. n : LogOf(q, n)[i] \in FileIds /\ q[LogOf(q, n)[i]] = i
<1>1. \A i \in 1 .. n : FileAt(q, i) \in FileIds /\ q[FileAt(q, i)] = i
  BY DEF Numbering, FileAt
<1> QED BY <1>1 DEF LogOf

\* The files a batch numbers, in order.
BatchOf(e, n, k) == [i \in 1 .. k |-> FileAt(e, n + i)]

LEMMA BatchEntries ==
  ASSUME NEW e, NEW n \in Nat, NEW k \in Nat, Extension(e, n, k)
  PROVE  /\ BatchOf(e, n, k) \in Seq(FileIds)
         /\ Len(BatchOf(e, n, k)) = k
         /\ \A i \in 1 .. k : /\ BatchOf(e, n, k)[i] \in FileIds
                              /\ e[BatchOf(e, n, k)[i]] = n + i
<1>1. \A i \in 1 .. k : FileAt(e, n + i) \in FileIds /\ e[FileAt(e, n + i)] = n + i
  BY DEF Extension, FileAt
<1> QED BY <1>1 DEF BatchOf

LEMMA ConcatAt ==
  ASSUME NEW S, NEW a \in Seq(S), NEW b \in Seq(S), NEW n, NEW k, Len(a) = n, Len(b) = k
  PROVE  /\ a \o b \in Seq(S) /\ Len(a \o b) = n + k
         /\ \A i \in 1 .. (n + k) : (a \o b)[i] = IF i <= n THEN a[i] ELSE b[i - n]
BY ConcatProperties

\* The log of q with a batch behind it.
LongerLog(q, e, n, k) == LogOf(q, n) \o BatchOf(e, n, k)

\* The log after a batch is the log before it, then the batch.
LEMMA LogExtended ==
  ASSUME NEW q, NEW e, NEW n \in Nat, NEW k \in Nat,
         Numbering(q, n), Extension(e, n, k),
         NEW r, Merges(r, q, e)
  PROVE  LogOf(r, n + k) = LongerLog(q, e, n, k)
<1> DEFINE cat == LogOf(q, n) \o BatchOf(e, n, k)
<1>1. Numbering(r, n + k)
  BY ExtendNumbering
<1>2. /\ cat \in Seq(FileIds) /\ Len(cat) = n + k
      /\ \A i \in 1 .. (n + k) :
           cat[i] = IF i <= n THEN LogOf(q, n)[i] ELSE BatchOf(e, n, k)[i - n]
  <2>1. /\ LogOf(q, n) \in Seq(FileIds) /\ Len(LogOf(q, n)) = n
        /\ BatchOf(e, n, k) \in Seq(FileIds) /\ Len(BatchOf(e, n, k)) = k
    BY LogOfEntries, BatchEntries
  <2> QED BY <2>1, ConcatAt
<1>3. \A f \in FileIds : /\ e[f] # 0 => r[f] = e[f] /\ q[f] = 0
                         /\ e[f] = 0 => r[f] = q[f]
  BY DEF Merges
<1> HIDE DEF cat
<1>4. ASSUME NEW i \in 1 .. (n + k)
      PROVE  LogOf(r, n + k)[i] = cat[i]
  <2>1. cat[i] \in FileIds /\ r[cat[i]] = i
    <3>1. CASE i <= n
      <4>1. cat[i] \in FileIds /\ q[cat[i]] = i
        BY <1>2, <3>1, LogOfEntries
      <4> QED BY <1>3, <4>1
    <3>2. CASE i > n
      <4>1. i - n \in 1 .. k /\ n + (i - n) = i
        BY <3>2
      <4>2. cat[i] = BatchOf(e, n, k)[i - n]
        BY <1>2, <3>2
      <4>3. cat[i] \in FileIds /\ e[cat[i]] = i
        BY <4>1, <4>2, BatchEntries
      <4> QED BY <1>3, <4>3
    <3> QED BY <3>1, <3>2
  <2>2. FileAt(r, r[cat[i]]) = cat[i]
    BY <1>1, <2>1, FileAtUnique DEF Numbering
  <2> QED BY <2>1, <2>2 DEF LogOf
<1>5. LogOf(r, n + k) \in Seq(FileIds) /\ Len(LogOf(r, n + k)) = n + k
  BY <1>1, LogOfEntries
<1>6. LogOf(r, n + k) = cat
  BY <1>2, <1>4, <1>5
<1> QED BY <1>6 DEF cat, LongerLog

-----------------------------------------------------------------------------
(* The steps.                                                              *)

LEMMA InitImplements == Init => AbstractFeed!Init
<1> SUFFICES ASSUME Init PROVE AbstractFeed!Init
  OBVIOUS
<1>1. Numbering(feedSeq, 0)
  BY DEF Init, Numbering
<1>2. LogNow = LogOf(feedSeq, 0)
  BY <1>1, LogNowIs
<1>3. LogOf(feedSeq, 0) = << >>
  BY DEF LogOf
<1> QED BY <1>2, <1>3 DEF Init, AbstractFeed!Init

\* The files a reader of the log meets are the numbered ones.
LEMMA LoggedIsNumbered ==
  ASSUME NEW n \in Nat, Numbering(feedSeq, n), committed \subseteq FileIds
  PROVE  Unsequenced \subseteq committed \ AbstractFeed!Logged
<1>1. LogNow = LogOf(feedSeq, n)
  BY LogNowIs
<1>2. \A i \in 1 .. Len(LogNow) : feedSeq[LogNow[i]] = i /\ i # 0
  BY <1>1, LogOfEntries
<1> QED BY <1>2 DEF Unsequenced, AbstractFeed!Logged

\* A batch of k files without a number is among those Extend may append.
LEMMA CommitImplements ==
  ASSUME IInv, NEW s \in Sequencers, spc[s] = "commit", CommitEffect(s)
  PROVE  AbstractFeed!Extend \/ UNCHANGED <<committed, LogNow>>
<1>1. PICK n \in Nat : Numbering(feedSeq, n)
  BY DEF IInv, Numbered
<1>2. PICK k \in Nat : Extension(plan[s], n, k)
  BY <1>1 DEF IInv, PlanFits
<1>3. \A f \in FileIds : plan[s][f] # 0 => f \in Unsequenced /\ feedSeq[f] = 0
  BY DEF IInv, PlanFits, Planned, Unsequenced
<1>4. feedSeq' = [f \in FileIds |-> IF plan[s][f] # 0 THEN plan[s][f] ELSE feedSeq[f]]
  BY DEF CommitEffect, Planned
<1> DEFINE batch   == BatchOf(plan[s], n, k)
           waiting == committed \ AbstractFeed!Logged
<1>5. LogNow' = LogNow \o batch
  <2>0. Merges(feedSeq', feedSeq, plan[s])
    BY <1>3, <1>4 DEF Merges
  <2>1. LogNow = LogOf(feedSeq, n)
    BY <1>1, LogNowIs
  <2>2. LogNow' = LogOf(feedSeq', n + k)
    <3>1. Numbering(feedSeq', n + k)
      BY <1>1, <1>2, <2>0, ExtendNumbering
    <3> QED BY <3>1, LogNowPrimeIs
  <2>3. LogOf(feedSeq', n + k) = LongerLog(feedSeq, plan[s], n, k)
    BY <1>1, <1>2, <2>0, LogExtended
  <2> QED BY <2>1, <2>2, <2>3 DEF LongerLog
<1>6. committed' = committed
  BY DEF CommitEffect, writerVars
<1>7. CASE k = 0
  <2>1. \A f \in FileIds : plan[s][f] = 0
    BY <1>2, <1>7 DEF Extension
  <2>2. feedSeq' = feedSeq
    BY <1>4, <2>1 DEF IInv, TypeOK
  <2>3. LogNow' = LogNow
    BY <2>2 DEF LogNow, MaxSeq
  <2> QED BY <1>6, <2>3
<1>8. CASE k # 0
  <2>1. \A i \in 1 .. k : batch[i] \in FileIds /\ plan[s][batch[i]] = n + i
    BY <1>2, BatchEntries
  <2>2. \A i \in 1 .. k : batch[i] \in waiting
    <3>1. Unsequenced \subseteq waiting
      BY <1>1, LoggedIsNumbered DEF IInv, TypeOK
    <3>2. \A i \in 1 .. k : n + i # 0
      OBVIOUS
    <3> QED BY <1>3, <2>1, <3>1, <3>2
  <2>3. batch \in [1 .. k -> waiting]
    BY <2>2 DEF BatchOf
  <2>4. \A i, j \in 1 .. k : i # j => batch[i] # batch[j]
    BY <2>1
  <2>5. k \in 1 .. Cardinality(waiting)
    <3>1. IsFiniteSet(waiting)
      BY FileIdsFinite, FS_Subset DEF IInv, TypeOK
    <3>2. Cardinality(waiting) \in Nat
      BY <3>1, FS_CardinalityType
    <3>3. batch \in Injection(1 .. k, waiting)
      BY <2>3, <2>4 DEF Injection, IsInjective
    <3>4. Cardinality(1 .. k) <= Cardinality(waiting)
      BY <3>1, <3>3, FS_Injection
    <3>5. Cardinality(1 .. k) = k
      BY FS_Interval
    <3> QED BY <1>8, <3>2, <3>4, <3>5
  <2> HIDE DEF batch, waiting
  <2>6. /\ \A i, j \in 1 .. k : i # j => batch[i] # batch[j]
        /\ LogNow' = LogNow \o batch
        /\ committed' = committed
    BY <1>5, <1>6, <2>4
  <2>7. AbstractFeed!Cardinality(waiting) = Cardinality(waiting)
    BY DEF AbstractFeed!Cardinality, Cardinality
  <2> QED BY <2>3, <2>5, <2>6, <2>7 DEF AbstractFeed!Extend, waiting
<1> QED BY <1>7, <1>8

LEMMA NextImplements ==
  ASSUME IInv, [Next]_vars
  PROVE  [AbstractFeed!Next]_<<committed, LogNow>>
<1>1. ASSUME NEW w \in Writers, WriterCommit(w)
      PROVE  [AbstractFeed!Next]_<<committed, LogNow>>
  <2>1. LogNow' = LogNow
    BY <1>1 DEF WriterCommit, feedVars, LogNow, MaxSeq
  <2>2. wid[w] \in FileIds /\ committed' = committed \cup {wid[w]}
    BY <1>1 DEF WriterCommit, IInv, RowHasId
  <2>3. CASE wid[w] \in committed
    BY <2>1, <2>2, <2>3
  <2>4. CASE wid[w] \notin committed
    BY <2>1, <2>2, <2>4 DEF AbstractFeed!Next, AbstractFeed!Publish
  <2> QED BY <2>3, <2>4
<1>2. ASSUME NEW s \in Sequencers, spc[s] = "commit", CommitEffect(s)
      PROVE  [AbstractFeed!Next]_<<committed, LogNow>>
  BY <1>2, CommitImplements DEF AbstractFeed!Next
<1>3. CASE UNCHANGED <<committed, feedSeq>>
  BY <1>3 DEF LogNow, MaxSeq
<1>4. \/ \E w \in Writers : WriterCommit(w)
      \/ \E s \in Sequencers : spc[s] = "commit" /\ CommitEffect(s)
      \/ UNCHANGED <<committed, feedSeq>>
  BY DEF Next, WriterStep, WriterBegin, WriterInsert, WriterRollback, Tick,
         SequencerStep, BeginTx, AcquireLock, Assign, Commit, Move, StartRun, Wake,
         CommitUnknown, FailPass, Crash, vars, writerVars, feedVars
<1> QED BY <1>1, <1>2, <1>3, <1>4

\* Whatever replicas, crashes and unknown commits do, readers are shown one log
\* that grows at its end.
THEOREM SequencerImplementsFeed == Spec => FeedIsALog
<1>1. IInv /\ [Next]_vars => [AbstractFeed!Next]_<<committed, LogNow>>
  BY NextImplements
<1>2. IInv /\ [Next]_vars => [AbstractFeed!Next]_AbstractFeed!vars
  BY <1>1 DEF AbstractFeed!vars
<1> QED
  BY InitImplements, <1>2, Invariant, PTL DEF Spec, FeedIsALog, AbstractFeed!Spec
=============================================================================

----------------------------- MODULE Sequencer -----------------------------
(***************************************************************************)
(* The sequencer (sequencer/sequencer.go), which gives committed file rows *)
(* their place in the feed, with any number of replicas of it and beside   *)
(* the writers.  RunOnce is a READ COMMITTED transaction: BEGIN, the       *)
(* advisory lock, one UPDATE that numbers a batch of committed rows above  *)
(* MAX(feed_seq), COMMIT.  Run repeats it until a pass comes back short,   *)
(* then waits for a notification or for its ticker.                        *)
(*                                                                         *)
(* Of a writer only what a sequencer can notice is kept: the transaction   *)
(* begins (written_at is its now()), takes a file_id from the sequence     *)
(* when it inserts its row, and commits or rolls back.                     *)
(***************************************************************************)
EXTENDS Integers, FiniteSets

CONSTANTS
  Writers,      \* transactions that may be open at once
  Sequencers,   \* replicas of the sequencer process
  BatchSize,    \* Config.BatchSize
  MaxFiles,     \* bound: file ids taken from the sequence
  MaxTime       \* bound: readings of the clock

ASSUME SequencerAssumption ==
  /\ BatchSize \in Nat \ {0}
  /\ MaxFiles \in Nat
  /\ MaxTime \in Nat

VARIABLES
  now,          \* PostgreSQL's clock
  nextId,       \* the sequence behind file_id
  wpc,          \* each writer's transaction: none, open, or with its row
  wstart,       \* its now()
  wid,          \* its file_id
  committed,    \* file ids of the committed rows
  writtenAt,    \* their written_at
  feedSeq,      \* their feed_seq, 0 for NULL
  feedSeqAt,    \* their feed_seq_at
  spc,          \* what each sequencer does next
  draining,     \* it is in the initial drain, whose failure ends Run
  sstart,       \* now() of its transaction
  plan          \* the feed_seq its transaction has written, 0 for none

writerVars    == <<now, nextId, wpc, wstart, wid, committed, writtenAt>>
feedVars      == <<feedSeq, feedSeqAt>>
sequencerVars == <<spc, draining, sstart, plan>>
vars == <<writerVars, feedVars, sequencerVars>>

FileIds == 1 .. MaxFiles
Times   == 0 .. MaxTime

\* The advisory lock is held from its acquisition to the end of the transaction.
HasLock == {"assign", "commit"}
InTx    == {"lock"} \cup HasLock
Phases  == {"down", "begin", "wait"} \cup InTx

NoPlan == [f \in FileIds |-> 0]

TypeOK ==
  /\ now \in Times
  /\ nextId \in 1 .. MaxFiles + 1
  /\ wpc \in [Writers -> {"none", "open", "inserted"}]
  /\ wstart \in [Writers -> Times]
  /\ wid \in [Writers -> FileIds \cup {0}]
  /\ committed \subseteq FileIds
  /\ writtenAt \in [FileIds -> Times]
  /\ feedSeq \in [FileIds -> Nat]
  /\ feedSeqAt \in [FileIds -> Times]
  /\ spc \in [Sequencers -> Phases]
  /\ draining \in [Sequencers -> BOOLEAN]
  /\ sstart \in [Sequencers -> Times]
  /\ plan \in [Sequencers -> [FileIds -> Nat]]

Init ==
  /\ now = 0
  /\ nextId = 1
  /\ wpc = [w \in Writers |-> "none"]
  /\ wstart = [w \in Writers |-> 0]
  /\ wid = [w \in Writers |-> 0]
  /\ committed = {}
  /\ writtenAt = [f \in FileIds |-> 0]
  /\ feedSeq = [f \in FileIds |-> 0]
  /\ feedSeqAt = [f \in FileIds |-> 0]
  /\ spc = [s \in Sequencers |-> "down"]
  /\ draining = [s \in Sequencers |-> FALSE]
  /\ sstart = [s \in Sequencers |-> 0]
  /\ plan = [s \in Sequencers |-> NoPlan]

-----------------------------------------------------------------------------
(* The writers' transactions, and the clock.                               *)

WriterBegin(w) ==
  /\ wpc[w] = "none"
  /\ nextId <= MaxFiles
  /\ wpc' = [wpc EXCEPT ![w] = "open"]
  /\ wstart' = [wstart EXCEPT ![w] = now]
  /\ UNCHANGED <<now, nextId, wid, committed, writtenAt, feedVars, sequencerVars>>

WriterInsert(w) ==
  /\ wpc[w] = "open"
  /\ nextId <= MaxFiles
  /\ nextId' = nextId + 1
  /\ wpc' = [wpc EXCEPT ![w] = "inserted"]
  /\ wid' = [wid EXCEPT ![w] = nextId]
  /\ UNCHANGED <<now, wstart, committed, writtenAt, feedVars, sequencerVars>>

WriterEnds(w) ==
  /\ wpc' = [wpc EXCEPT ![w] = "none"]
  /\ wstart' = [wstart EXCEPT ![w] = 0]
  /\ wid' = [wid EXCEPT ![w] = 0]

WriterCommit(w) ==
  /\ wpc[w] = "inserted"
  /\ committed' = committed \cup {wid[w]}
  /\ writtenAt' = [writtenAt EXCEPT ![wid[w]] = wstart[w]]
  /\ WriterEnds(w)
  /\ UNCHANGED <<now, nextId, feedVars, sequencerVars>>

\* Also a row refused by the token's UNIQUE, whose file_id is spent.
WriterRollback(w) ==
  /\ wpc[w] # "none"
  /\ nextId' \in {nextId} \cup
       (IF wpc[w] = "open" /\ nextId <= MaxFiles THEN {nextId + 1} ELSE {})
  /\ WriterEnds(w)
  /\ UNCHANGED <<now, committed, writtenAt, feedVars, sequencerVars>>

Tick ==
  /\ now < MaxTime
  /\ now' = now + 1
  /\ UNCHANGED <<nextId, wpc, wstart, wid, committed, writtenAt, feedVars,
                 sequencerVars>>

WriterStep(w) ==
  WriterBegin(w) \/ WriterInsert(w) \/ WriterCommit(w) \/ WriterRollback(w)

-----------------------------------------------------------------------------
(* buildAssignSQL.                                                         *)

\* Faulty: rows are looked for above the last file_id that was sequenced.
UnsequencedAbove ==
  {f \in committed : feedSeq[f] = 0 /\ \A g \in FileIds : feedSeq[g] # 0 => g < f}

Unsequenced == {f \in committed : feedSeq[f] = 0}

\* COALESCE(MAX(feed_seq), 0)
MaxSeq ==
  CHOOSE m \in {0} \cup {feedSeq[f] : f \in FileIds} :
    \A f \in FileIds : feedSeq[f] <= m

\* ORDER BY written_at, file_id
Before(f, g) ==
  \/ writtenAt[f] < writtenAt[g]
  \/ writtenAt[f] = writtenAt[g] /\ f < g

\* ... LIMIT $1
Batches ==
  {B \in SUBSET Unsequenced :
     /\ Cardinality(B) <= BatchSize
     /\ B # Unsequenced => Cardinality(B) = BatchSize
     /\ \A f \in B, g \in Unsequenced \ B : Before(f, g)}

\* ROW_NUMBER() OVER (ORDER BY written_at, file_id)
RowNumbers(B) ==
  {rn \in [B -> 1 .. Cardinality(B)] :
     /\ \A i \in 1 .. Cardinality(B) : \E f \in B : rn[f] = i
     /\ \A f, g \in B : Before(f, g) => rn[f] < rn[g]}

-----------------------------------------------------------------------------
(* RunOnce.                                                                *)

Move(s, from, to) ==
  /\ spc[s] \in from
  /\ spc' = [spc EXCEPT ![s] = to]

BeginTx(s) ==
  /\ Move(s, {"begin"}, "lock")
  /\ sstart' = [sstart EXCEPT ![s] = now]
  /\ UNCHANGED <<writerVars, feedVars, draining, plan>>

\* Faulty: there is no lock.
AcquireNothing(s) ==
  /\ Move(s, {"lock"}, "assign")
  /\ UNCHANGED <<writerVars, feedVars, draining, sstart, plan>>

AcquireLock(s) ==
  /\ \A r \in Sequencers : spc[r] \notin HasLock
  /\ Move(s, {"lock"}, "assign")
  /\ UNCHANGED <<writerVars, feedVars, draining, sstart, plan>>

\* Faulty: the offset is the file_id.
AssignFileIds(s) ==
  /\ Move(s, {"assign"}, "commit")
  /\ \E B \in Batches :
       plan' = [plan EXCEPT ![s] = [f \in FileIds |-> IF f \in B THEN f ELSE 0]]
  /\ UNCHANGED <<writerVars, feedVars, draining, sstart>>

\* Faulty: rows are numbered downwards.
AssignDown(s) ==
  /\ Move(s, {"assign"}, "commit")
  /\ \E B \in Batches : \E rn \in RowNumbers(B) :
       plan' = [plan EXCEPT ![s] =
                  [f \in FileIds |-> IF f \in B THEN MaxSeq - rn[f] ELSE 0]]
  /\ UNCHANGED <<writerVars, feedVars, draining, sstart>>

\* The statement's snapshot is taken here, after the lock was granted.
Assign(s) ==
  /\ Move(s, {"assign"}, "commit")
  /\ \E B \in Batches : \E rn \in RowNumbers(B) :
       plan' = [plan EXCEPT ![s] =
                  [f \in FileIds |-> IF f \in B THEN MaxSeq + rn[f] ELSE 0]]
  /\ UNCHANGED <<writerVars, feedVars, draining, sstart>>

Planned(s) == {f \in FileIds : plan[s][f] # 0}

Forget(s) ==
  /\ plan' = [plan EXCEPT ![s] = NoPlan]
  /\ sstart' = [sstart EXCEPT ![s] = 0]

CommitEffect(s) ==
  /\ feedSeq' = [f \in FileIds |->
                   IF f \in Planned(s) THEN plan[s][f] ELSE feedSeq[f]]
  /\ feedSeqAt' = [f \in FileIds |->
                     IF f \in Planned(s) THEN sstart[s] ELSE feedSeqAt[f]]
  /\ Forget(s)
  /\ UNCHANGED writerVars

\* drainAll goes on as long as passes come back full.
Commit(s) ==
  /\ CommitEffect(s)
  /\ IF Cardinality(Planned(s)) < BatchSize
     THEN /\ Move(s, {"commit"}, "wait")
          /\ draining' = [draining EXCEPT ![s] = FALSE]
     ELSE /\ Move(s, {"commit"}, "begin")
          /\ UNCHANGED draining

-----------------------------------------------------------------------------
(* Run: the initial drain, the loop, and what goes wrong in them.          *)

StartRun(s) ==
  /\ Move(s, {"down"}, "begin")
  /\ draining' = [draining EXCEPT ![s] = TRUE]
  /\ UNCHANGED <<writerVars, feedVars, sstart, plan>>

\* The ticker, or a notification; both lead to a drain.
Wake(s) ==
  /\ Move(s, {"wait"}, "begin")
  /\ UNCHANGED <<writerVars, feedVars, draining, sstart, plan>>

\* An error ends the initial drain and Run with it, and later is only logged.
AfterError(s) ==
  /\ spc' = [spc EXCEPT ![s] = IF draining[s] THEN "down" ELSE "wait"]
  /\ draining' = [draining EXCEPT ![s] = FALSE]

CommitUnknown(s) ==
  /\ spc[s] = "commit"
  /\ CommitEffect(s)
  /\ AfterError(s)

FailPass(s) ==
  /\ spc[s] \in {"begin"} \cup InTx
  /\ Forget(s)
  /\ AfterError(s)
  /\ UNCHANGED <<writerVars, feedVars>>

\* The process ends; PostgreSQL rolls back what it had open.
Crash(s) ==
  /\ spc[s] # "down"
  /\ spc' = [spc EXCEPT ![s] = "down"]
  /\ draining' = [draining EXCEPT ![s] = FALSE]
  /\ Forget(s)
  /\ UNCHANGED <<writerVars, feedVars>>

SequencerStep(s) ==
  \/ BeginTx(s) \/ AcquireLock(s) \/ Assign(s) \/ Commit(s)
  \/ StartRun(s) \/ Wake(s)
  \/ CommitUnknown(s) \/ FailPass(s) \/ Crash(s)

-----------------------------------------------------------------------------
Next ==
  \/ \E w \in Writers : WriterStep(w)
  \/ \E s \in Sequencers : SequencerStep(s)
  \/ Tick

Spec == Init /\ [][Next]_vars

-----------------------------------------------------------------------------
(* Safety.                                                                 *)

\* The offsets in use are 1 .. n for some n and no two rows share one, whatever
\* the replicas, failures and unknown commits: a reader that walks the offsets
\* meets every one of them.
GapFree ==
  /\ \A f \in FileIds : \A i \in 1 .. feedSeq[f] : \E g \in FileIds : feedSeq[g] = i
  /\ \A f, g \in FileIds : (feedSeq[f] = feedSeq[g] /\ feedSeq[f] # 0) => f = g

-----------------------------------------------------------------------------
(* What a step may never do.                                               *)

\* An offset, once a reader can see it, belongs to its file for ever, and a row
\* enters the feed above every offset a reader may already have passed: a row
\* that committed late is never numbered behind a reader's cursor.
NothingBehindReaders ==
  [][\A f \in FileIds :
       feedSeq'[f] # feedSeq[f] =>
         feedSeq[f] = 0 /\ \A g \in FileIds : feedSeq'[f] > feedSeq[g]]_feedSeq

\* The sequenced rows, by offset, are the log of Feed.
LogNow ==
  [i \in 1 .. MaxSeq |-> CHOOSE f \in FileIds : feedSeq[f] = i]

AbstractFeed == INSTANCE Feed WITH ready <- committed, log <- LogNow

\* The sequencers together extend one append-only log.
FeedIsALog == AbstractFeed!Spec

-----------------------------------------------------------------------------
(* Liveness.  A process that ends is started again, the ticker ticks, the  *)
(* lock is granted in turn, and not every transaction fails.               *)

Fairness ==
  \A s \in Sequencers :
    /\ WF_vars(StartRun(s))
    /\ WF_vars(Wake(s))
    /\ SF_vars(BeginTx(s))
    /\ SF_vars(AcquireLock(s))
    /\ SF_vars(Assign(s))
    /\ SF_vars(Commit(s))

FairSpec == Spec /\ Fairness

\* Every committed row gets an offset, however late it commits and through lost
\* notifications, restarts and failed passes: with finitely many rows, there is
\* always a later moment at which none of them waits.
EventuallySequenced == []<>(\A f \in committed : feedSeq[f] # 0)

=============================================================================

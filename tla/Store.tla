------------------------------- MODULE Store -------------------------------
(***************************************************************************)
(* The processes of a deployment together on one catalog and one bucket:   *)
(* writers (WritePath), collectors (OrphanGC) and sequencers (Sequencer).  *)
(* The first two modules extend Catalog and share its variables.  The      *)
(* sequencer's module has an environment of its own, reduced to what a     *)
(* sequencer can notice of a writer; it is instantiated here with that     *)
(* view of the real writers, and the real writers are shown to behave as   *)
(* that environment does.                                                  *)
(***************************************************************************)
EXTENDS OrphanGC

CONSTANTS
  Sequencers,   \* replicas of the sequencer process
  SeqBatch      \* their Config.BatchSize

VARIABLES feedSeq, feedSeqAt, spc, draining, sstart, plan

seqVars   == <<feedSeq, feedSeqAt, spc, draining, sstart, plan>>
storeVars == <<allVars, seqVars>>

-----------------------------------------------------------------------------
(* What a sequencer can see of the writers.                                *)

\* Where Sequencer looks for file ids.  It begins no transaction at its bound, so
\* the bound is one more than there are ids to take.
FeedIds == 1 .. MaxKeys + 1

CommittedIds == {f.id : f \in files}

RowWithId(i) == CHOOSE f \in {g \in files : g.id = i} : TRUE

WrittenAt ==
  [i \in FeedIds |-> IF i \in CommittedIds THEN RowWithId(i).writtenAt ELSE 0]

\* A transaction has its row from the INSERT on, and none once it was aborted.
HasRow(w) == pc[w] \in (PrePut \ {"insert"}) \cup PutDone

WriterView ==
  [w \in Writers |->
     IF HasRow(w) THEN "inserted" ELSE IF pc[w] \in InTx THEN "open" ELSE "none"]

WriterStart == [w \in Writers |-> IF pc[w] \in InTx THEN tx[w].start ELSE 0]

WriterId == [w \in Writers |-> IF HasRow(w) THEN tx[w].fileId ELSE 0]

Sequencing == INSTANCE Sequencer WITH
  BatchSize <- SeqBatch,
  MaxFiles  <- MaxKeys + 1,
  nextId    <- nextFileId,
  wpc       <- WriterView,
  wstart    <- WriterStart,
  wid       <- WriterId,
  committed <- CommittedIds,
  writtenAt <- WrittenAt

ASSUME StoreAssumption == Sequencing!SequencerAssumption

-----------------------------------------------------------------------------
StoreInit ==
  /\ GcInit
  /\ feedSeq = [i \in FeedIds |-> 0]
  /\ feedSeqAt = [i \in FeedIds |-> 0]
  /\ spc = [s \in Sequencers |-> "down"]
  /\ draining = [s \in Sequencers |-> FALSE]
  /\ sstart = [s \in Sequencers |-> 0]
  /\ plan = [s \in Sequencers |-> Sequencing!NoPlan]

SequencerSteps == UNCHANGED allVars /\ \E s \in Sequencers : Sequencing!SequencerStep(s)

StoreNext ==
  \/ GcNext /\ UNCHANGED seqVars
  \/ SequencerSteps

StoreSpec == StoreInit /\ [][StoreNext]_storeVars

-----------------------------------------------------------------------------
(* Properties of the whole.                                                *)

\* The writers and the clock of Store behave as the environment that the
\* Sequencer module checks and proves its properties under.
RunsSequencer == Sequencing!Spec

\* Every place in the feed is a committed file's, and a reader who is handed its
\* key finds the object behind it, with sequencers numbering rows, the collector
\* sweeping and writers failing at any point.
FeedHasObjects ==
  \A i \in FileIds :
    feedSeq[i] # 0 => \E f \in files : f.id = i /\ f.key \in objects

=============================================================================

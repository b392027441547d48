---------------------------- MODULE TransferSync ----------------------------
(***************************************************************************)
(* The task sync_transfer_tx (task/ibc_sync_transfer_tx_task.go), for one  *)
(* chain: it pages through the transactions that the chain's syncer, a     *)
(* program of its own, has put into sync_<chain>_tx, stores every transfer *)
(* in ex_ibc_tx_latest and every new denom in ibc_denom, and keeps in      *)
(* ibc_task_record the height it has reached.  Two instances may be in the *)
(* middle of a run at the same time (see CronTaskLock).                    *)
(*                                                                         *)
(* A transaction holds one transfer message.  The collection is read from  *)
(* replicas that may be behind: a replica shows the blocks up to some      *)
(* moment of the clock, which counts the blocks the syncer has written.    *)
(***************************************************************************)
EXTENDS Integers, FiniteSets

CONSTANTS Run,         \* the runs of the task: one per instance
          Tx,          \* the transfers of the chain
          HeightOf,    \* the height of the block a transfer is in
          DenomOf,     \* the denom it moves
          Unregistered,\* failed transfers and those to an unknown chain (status Setting)
          PageLimit,   \* constant.DefaultLimit
          MaxParse,    \* SingleChainSyncTransferTxMax
          MaxHeight,   \* bound: the last block
          MaxLag,      \* bound: how many blocks a replica falls behind
          MaxReverts,  \* bound: how often the syncer falls behind
          MaxFaults    \* bound: failures, crashes, stale reads and overlaps

Height == 1 .. MaxHeight
Denom == {DenomOf[t] : t \in Tx}

ASSUME SyncAssumption ==
  /\ MaxHeight \in Nat /\ MaxLag \in Nat /\ MaxReverts \in Nat /\ MaxFaults \in Nat
  /\ PageLimit \in Nat \ {0} /\ MaxParse \in Nat
  /\ IsFiniteSet(Tx)
  /\ HeightOf \in [Tx -> Height]
  /\ Unregistered \subseteq Tx

VARIABLES
  \* the syncer, and the operator
  clock,       \* how many blocks the syncer has written
  replicated,  \* how many of them every replica has
  syncedAt,    \* the clock at which it wrote each block; 0 if it has not
  following,   \* the syncer's task is a following one: blocks come in order
  followedAt,  \* the clock when following began; 0 when it is not
  reverts,     \* how often it has gone back to catching up
  open,        \* neither the chain nor the task record is closed
  \* the collections of the backend
  recorded,    \* ibc_task_record: the height; 0 also when there is no record
  past,        \* history: every value of recorded
  stored,      \* ex_ibc_tx_latest: how many documents a transfer has
  denoms,      \* ibc_denom
  \* the runs: where each stands, and its local variables
  pc,
  mem,
  \* histories
  raced,       \* runs that saw the syncer follow the chain before it stopped to
  suspect,     \* heights a replica could not show a run that read past them
  faults       \* failures, crashes, stale reads and overlaps so far

syncer == <<clock, replicated, syncedAt, following, followedAt, reverts>>
collections == <<recorded, past, stored, denoms>>
vars == <<clock, replicated, syncedAt, following, followedAt, reverts, open,
          recorded, past, stored, denoms, pc, mem, raced, suspect, faults>>

\* What a run keeps between its steps: the height it goes on from, the denoms
\* it knows, the page it read and its last height, and the transfers so far.
Memory == [cursor : 0 .. MaxHeight, known : SUBSET Denom, page : SUBSET Tx,
           top : 0 .. MaxHeight, total : Nat]
Fresh == [cursor |-> 0, known |-> {}, page |-> {}, top |-> 0, total |-> 0]

\* Runs hold pages of transfers of the chain and heights it has reached.
TypeOK ==
  /\ clock \in Nat
  /\ replicated \in Nat
  /\ syncedAt \in [Height -> Nat]
  /\ following \in BOOLEAN
  /\ followedAt \in Nat
  /\ reverts \in 0 .. MaxReverts
  /\ open \in BOOLEAN
  /\ recorded \in 0 .. MaxHeight
  /\ past \subseteq 0 .. MaxHeight
  /\ stored \in [Tx -> Nat]
  /\ denoms \subseteq Denom
  /\ pc \in [Run -> {"idle", "load", "loadDenoms", "check", "fetch",
                     "insertDenoms", "insertTxs", "record"}]
  /\ mem \in [Run -> Memory]
  /\ raced \subseteq Run
  /\ suspect \subseteq Height
  /\ faults \in 0 .. MaxFaults

Init ==
  /\ clock = 0
  /\ replicated = 0
  /\ syncedAt = [h \in Height |-> 0]
  /\ following = FALSE
  /\ followedAt = 0
  /\ reverts = 0
  /\ open = TRUE
  /\ recorded = 0
  /\ past = {0}
  /\ stored = [t \in Tx |-> 0]
  /\ denoms = {}
  /\ pc = [r \in Run |-> "idle"]
  /\ mem = [r \in Run |-> Fresh]
  /\ raced = {}
  /\ suspect = {}
  /\ faults = 0

-----------------------------------------------------------------------------
(* The syncer: while it catches up, several workers write blocks in any     *)
(* order; while it follows the chain, one worker writes the next block.     *)

Synced(h) == syncedAt[h] > 0

\* What a replica that has seen the first k blocks shows.
Shows(k, h) == syncedAt[h] \in 1 .. k
View(k) == {t \in Tx : Shows(k, HeightOf[t])}

SyncBlock(h) ==
  /\ ~ Synced(h)
  /\ clock - replicated < MaxLag
  /\ following => \A lower \in Height : lower < h => Synced(lower)
  /\ clock' = clock + 1
  /\ syncedAt' = [syncedAt EXCEPT ![h] = clock + 1]
  /\ UNCHANGED <<replicated, following, followedAt, reverts, open, collections, pc, mem,
                 raced, suspect, faults>>

\* The last of the replicas catches up.
Replicate ==
  /\ replicated < clock
  /\ replicated' = clock
  /\ UNCHANGED <<clock, syncedAt, following, followedAt, reverts, open, collections, pc,
                 mem, raced, suspect, faults>>

StartFollowing ==
  /\ ~ following
  /\ \A h, lower \in Height : lower < h /\ Synced(h) => Synced(lower)
  /\ following' = TRUE
  /\ followedAt' = clock
  /\ UNCHANGED <<clock, replicated, syncedAt, reverts, open, collections, pc, mem,
                 raced, suspect, faults>>

\* The syncer has fallen behind the chain and catches up again.
FallBehind ==
  /\ following
  /\ reverts < MaxReverts
  /\ following' = FALSE
  /\ followedAt' = 0
  /\ reverts' = reverts + 1
  /\ raced' = raced \cup {r \in Run : pc[r] = "fetch"}
  /\ UNCHANGED <<clock, replicated, syncedAt, open, collections, pc, mem, suspect, faults>>

\* An operator closes or reopens the chain or its task record.
Switch ==
  /\ open' = ~ open
  /\ UNCHANGED <<syncer, collections, pc, mem, raced, suspect, faults>>

-----------------------------------------------------------------------------
(* A run of the task. *)

Active(r) == pc[r] # "idle"

\* The end of a run, after which its local variables are gone.
Ends(r) ==
  /\ pc' = [pc EXCEPT ![r] = "idle"]
  /\ mem' = [mem EXCEPT ![r] = Fresh]
  /\ raced' = raced \ {r}

GoesTo(r, step) ==
  /\ pc' = [pc EXCEPT ![r] = step]
  /\ raced' = raced \ {r}

\* Cron calls Run, and a worker takes the chain from the queue.  That another
\* run is still at it is possible only after it outlived its lock.
Start(r) ==
  /\ pc[r] = "idle"
  /\ open
  /\ IF \E s \in Run : Active(s)
       THEN faults < MaxFaults /\ faults' = faults + 1
       ELSE UNCHANGED faults
  /\ GoesTo(r, "load")
  /\ UNCHANGED <<syncer, open, collections, mem, suspect>>

\* checkTaskRecord: a record that is missing is created with height 0.
LoadRecord(r) ==
  /\ pc[r] = "load"
  /\ IF open THEN /\ GoesTo(r, "loadDenoms")
                  /\ mem' = [mem EXCEPT ![r].cursor = recorded]
             ELSE Ends(r)
  /\ UNCHANGED <<syncer, open, collections, suspect, faults>>

\* The same from a replica that shows an earlier value, or no record yet.
LoadStaleRecord(r) ==
  /\ pc[r] = "load"
  /\ faults < MaxFaults
  /\ faults' = faults + 1
  /\ \E h \in past \ {recorded} : mem' = [mem EXCEPT ![r].cursor = h]
  /\ GoesTo(r, "loadDenoms")
  /\ UNCHANGED <<syncer, open, collections, suspect>>

\* getChainDenomMap.
LoadDenoms(r) ==
  /\ pc[r] = "loadDenoms"
  /\ mem' = [mem EXCEPT ![r].known = denoms]
  /\ GoesTo(r, "check")
  /\ UNCHANGED <<syncer, open, collections, suspect, faults>>

\* A run that does not ask whether the syncer follows the chain.
SkipCheck(r) ==
  /\ pc[r] = "check"
  /\ GoesTo(r, "fetch")
  /\ UNCHANGED <<syncer, open, collections, mem, suspect, faults>>

\* checkFollowingStatus.
CheckFollowing(r) ==
  /\ pc[r] = "check"
  /\ IF following THEN GoesTo(r, "fetch") /\ UNCHANGED mem ELSE Ends(r)
  /\ UNCHANGED <<syncer, open, collections, suspect, faults>>

\* The moments of the clock a replica may be at.
Replicas == replicated .. clock

\* GetTransferTx: what a replica shows above the height reached so far.
Ahead(r, k) == {t \in View(k) : HeightOf[t] > mem[r].cursor}

\* The heights up to h that the replica does not show: a gap the run cannot
\* see, when the replica is from before the syncer followed the chain, or the
\* syncer no longer does.
Gap(r, k, h) ==
  IF r \in raced \/ k < followedAt
    THEN {g \in Height : mem[r].cursor < g /\ g <= h /\ ~ Shows(k, g)}
    ELSE {}

Reads(r, txs, h) == mem' = [mem EXCEPT ![r].page = txs, ![r].top = h]

\* getTxList finds nothing: the run is over.
FetchNothing(r) ==
  /\ pc[r] = "fetch"
  /\ \E k \in Replicas : Ahead(r, k) = {}
  /\ Ends(r)
  /\ UNCHANGED <<syncer, open, collections, suspect, faults>>

\* getTxList returns less than a full page.
FetchRest(r) ==
  /\ pc[r] = "fetch"
  /\ \E k \in Replicas, h \in Height :
       /\ Cardinality(Ahead(r, k)) < PageLimit
       /\ h \in {HeightOf[t] : t \in Ahead(r, k)}
       /\ \A t \in Ahead(r, k) : HeightOf[t] <= h
       /\ Reads(r, Ahead(r, k), h)
       /\ suspect' = suspect \cup Gap(r, k, h)
  /\ GoesTo(r, "insertDenoms")
  /\ UNCHANGED <<syncer, open, collections, faults>>

\* The first PageLimit transfers by height; equal heights come in any order.
FirstPages(txs) ==
  {P \in SUBSET txs : /\ Cardinality(P) = PageLimit
                      /\ \A t \in P, u \in txs \ P : HeightOf[t] <= HeightOf[u]}

\* A full page that is taken as it is.
FetchFullOnly(r) ==
  /\ pc[r] = "fetch"
  /\ \E k \in Replicas, h \in Height :
       \E P \in FirstPages(Ahead(r, k)) :
         /\ h \in {HeightOf[t] : t \in P}
         /\ \A t \in P : HeightOf[t] <= h
         /\ Reads(r, P, h)
         /\ suspect' = suspect \cup Gap(r, k, h)
  /\ GoesTo(r, "insertDenoms")
  /\ UNCHANGED <<syncer, open, collections, faults>>

\* getTxList returns a full page, completed with the transfers of its last
\* height by a second query, which may go to another replica.
FetchFull(r) ==
  /\ pc[r] = "fetch"
  /\ \E k, again \in Replicas, h \in Height :
       \E P \in FirstPages(Ahead(r, k)) :
         /\ h \in {HeightOf[t] : t \in P}
         /\ \A t \in P : HeightOf[t] <= h
         /\ Reads(r, P \cup {t \in View(again) : HeightOf[t] = h}, h)
         /\ suspect' = suspect \cup Gap(r, k, h) \cup {g \in {h} : ~ Shows(again, g)}
  /\ GoesTo(r, "insertDenoms")
  /\ UNCHANGED <<syncer, open, collections, faults>>

\* The denoms a page brings: those of its transfers in status Processing.
NewDenoms(r) == {DenomOf[t] : t \in mem[r].page \ Unregistered} \ mem[r].known

\* denomRepo.InsertBatch: a denom that is there already is left alone.
InsertDenoms(r) ==
  /\ pc[r] = "insertDenoms"
  /\ denoms' = denoms \cup NewDenoms(r)
  /\ mem' = [mem EXCEPT ![r].known = @ \cup NewDenoms(r)]
  /\ GoesTo(r, "insertTxs")
  /\ UNCHANGED <<syncer, open, recorded, past, stored, suspect, faults>>

\* The collection after one more copy of each of txs.
WithCopies(txs) == [t \in Tx |-> IF t \in txs THEN stored[t] + 1 ELSE stored[t]]

\* ibcTxRepo.InsertBatch: no unique index keeps a second copy out.
InsertTxs(r) ==
  /\ pc[r] = "insertTxs"
  /\ stored' = WithCopies(mem[r].page)
  /\ GoesTo(r, "record")
  /\ UNCHANGED <<syncer, open, recorded, past, denoms, mem, suspect, faults>>

\* A run that records the height after its page.
UpdateHeightPast(r) ==
  /\ pc[r] = "record"
  /\ recorded' = mem[r].top + 1
  /\ past' = past \cup {mem[r].top + 1}
  /\ Ends(r)
  /\ UNCHANGED <<syncer, open, stored, denoms, suspect, faults>>

\* A run that writes the new height and goes on from the old one.
UpdateHeightStay(r) ==
  /\ pc[r] = "record"
  /\ recorded' = mem[r].top
  /\ past' = past \cup {mem[r].top}
  /\ LET handled == mem[r].total + Cardinality(mem[r].page) IN
       IF Cardinality(mem[r].page) < PageLimit \/ handled >= MaxParse
         THEN Ends(r)
         ELSE /\ GoesTo(r, "check")
              /\ mem' = [mem EXCEPT ![r].total = handled]
  /\ UNCHANGED <<syncer, open, stored, denoms, suspect, faults>>

\* UpdateHeight, and the decision to go on: not after a short page, nor when
\* the run has handled enough.
UpdateHeight(r) ==
  /\ pc[r] = "record"
  /\ recorded' = mem[r].top
  /\ past' = past \cup {mem[r].top}
  /\ LET handled == mem[r].total + Cardinality(mem[r].page) IN
       IF Cardinality(mem[r].page) < PageLimit \/ handled >= MaxParse
         THEN Ends(r)
         ELSE /\ GoesTo(r, "check")
              /\ mem' = [mem EXCEPT ![r] =
                   [Fresh EXCEPT !.cursor = mem[r].top, !.known = mem[r].known,
                                 !.total = handled]]
  /\ UNCHANGED <<syncer, open, stored, denoms, suspect, faults>>

Fails(r) ==
  /\ faults < MaxFaults
  /\ faults' = faults + 1
  /\ Ends(r)

\* A read fails and the run is abandoned, or the process dies.
Abandon(r) ==
  /\ Active(r)
  /\ Fails(r)
  /\ UNCHANGED <<syncer, open, collections, suspect>>

\* A failure that is logged and then forgotten.
InsertDenomsForgets(r) ==
  /\ pc[r] = "insertDenoms"
  /\ \E some \in SUBSET NewDenoms(r) : denoms' = denoms \cup some
  /\ faults < MaxFaults
  /\ faults' = faults + 1
  /\ GoesTo(r, "insertTxs")
  /\ UNCHANGED <<syncer, open, recorded, past, stored, mem, suspect>>

\* A write fails half-way, or the process dies in it, or its reply is lost:
\* some of the documents are there, and the run is over.
InsertDenomsFails(r) ==
  /\ pc[r] = "insertDenoms"
  /\ \E some \in SUBSET NewDenoms(r) : denoms' = denoms \cup some
  /\ Fails(r)
  /\ UNCHANGED <<syncer, open, recorded, past, stored, suspect>>

InsertTxsFails(r) ==
  /\ pc[r] = "insertTxs"
  /\ \E some \in SUBSET mem[r].page : stored' = WithCopies(some)
  /\ Fails(r)
  /\ UNCHANGED <<syncer, open, recorded, past, denoms, suspect>>

UpdateHeightFails(r) ==
  /\ pc[r] = "record"
  /\ recorded' = mem[r].top
  /\ past' = past \cup {mem[r].top}
  /\ Fails(r)
  /\ UNCHANGED <<syncer, open, stored, denoms, suspect>>

Step(r) ==
  \/ LoadRecord(r)
  \/ LoadDenoms(r)
  \/ CheckFollowing(r)
  \/ FetchNothing(r)
  \/ FetchRest(r)
  \/ FetchFull(r)
  \/ InsertDenoms(r)
  \/ InsertTxs(r)
  \/ UpdateHeight(r)

Failure(r) ==
  \/ LoadStaleRecord(r)
  \/ Abandon(r)
  \/ InsertDenomsFails(r)
  \/ InsertTxsFails(r)
  \/ UpdateHeightFails(r)

Next ==
  \/ \E h \in Height : SyncBlock(h)
  \/ Replicate
  \/ StartFollowing
  \/ FallBehind
  \/ Switch
  \/ \E r \in Run : Start(r) \/ Step(r) \/ Failure(r)

\* Cron starts the task again and again, and a run that is not blocked by a
\* failure goes on; replicas catch up.  Nothing is promised of the syncer or
\* of the operator.
Fairness ==
  /\ WF_vars(Replicate)
  /\ WF_vars(\E r \in Run : Start(r))
  /\ \A r \in Run : WF_vars(Step(r))

Spec == Init /\ [][Next]_vars
FairSpec == Spec /\ Fairness

-----------------------------------------------------------------------------

\* Whatever fails and whoever overlaps, the recorded height never passes a
\* transfer that is not stored (ibc_sync_transfer_tx_task.go:352-385 and
\* 155-173), except at a height that a replica could not yet show.
NoTxLost ==
  \A t \in Tx : HeightOf[t] <= recorded /\ HeightOf[t] \notin suspect => stored[t] > 0

\* A stored transfer in status Processing always has its denom registered,
\* also between and after half-finished batches (lines 156-167).
DenomBeforeTx ==
  \A t \in Tx \ Unregistered : stored[t] > 0 => DenomOf[t] \in denoms

\* Every copy of a transfer beyond the first is the work of a fault: paging
\* never takes a transfer twice (line 170).
CopiesNeedFaults == \A t \in Tx : stored[t] <= 1 + faults

\* Once the syncer follows the chain for good and the task stays open, every
\* transfer that reaches the collection gets stored.
EveryTxStored ==
  <>[](following /\ open) =>
    \A t \in Tx : [](Synced(HeightOf[t]) =>
                       <>(stored[t] > 0 \/ HeightOf[t] \in suspect))

=============================================================================

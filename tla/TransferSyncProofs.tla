-------------------------- MODULE TransferSyncProofs --------------------------
(* What TransferSync guarantees for any transfers, any page size and any     *)
(* number of runs, faults and blocks.                                        *)
EXTENDS TransferSync, FiniteSetTheorems, TLAPS

USE DEF Height

Steps == {"idle", "load", "loadDenoms", "check", "fetch",
          "insertDenoms", "insertTxs", "record"}

LEMMA FreshTyped == Fresh \in Memory
BY SyncAssumption DEF SyncAssumption, Fresh, Memory

\* The local variables of a run keep their types when one of them is set.
LEMMA CursorTyped ==
  ASSUME NEW F \in [Run -> Memory], NEW r \in Run, NEW h \in 0 .. MaxHeight
  PROVE  [F EXCEPT ![r].cursor = h] \in [Run -> Memory]
BY DEF Memory

LEMMA KnownTyped ==
  ASSUME NEW F \in [Run -> Memory], NEW r \in Run, NEW D \in SUBSET Denom
  PROVE  [F EXCEPT ![r].known = D] \in [Run -> Memory]
BY DEF Memory

LEMMA PageTyped ==
  ASSUME NEW F \in [Run -> Memory], NEW r \in Run,
         NEW P \in SUBSET Tx, NEW h \in 0 .. MaxHeight
  PROVE  [F EXCEPT ![r].page = P, ![r].top = h] \in [Run -> Memory]
BY DEF Memory

LEMMA MemoryTyped ==
  ASSUME TypeOK, NEW r \in Run
  PROVE  /\ mem \in [Run -> Memory]
         /\ mem[r].cursor \in 0 .. MaxHeight
         /\ mem[r].known \in SUBSET Denom
         /\ mem[r].page \in SUBSET Tx
         /\ mem[r].top \in 0 .. MaxHeight
         /\ mem[r].total \in Nat
         /\ NewDenoms(r) \in SUBSET Denom
BY DEF TypeOK, Memory, NewDenoms, Denom

LEMMA GapTyped == \A r, k, h : Gap(r, k, h) \subseteq Height
BY DEF Gap

LEMMA PageCardinality ==
  ASSUME TypeOK, NEW r \in Run
  PROVE  mem[r].total + Cardinality(mem[r].page) \in Nat
<1>1. IsFiniteSet(mem[r].page)
  BY MemoryTyped, FS_Subset, SyncAssumption DEF SyncAssumption
<1>2. Cardinality(mem[r].page) \in Nat
  BY <1>1, FS_CardinalityType
<1> QED
  BY <1>2, MemoryTyped

LEMMA EndsTyped ==
  ASSUME TypeOK, NEW r \in Run, Ends(r)
  PROVE  /\ pc' \in [Run -> Steps]
         /\ mem' \in [Run -> Memory]
         /\ raced' \in SUBSET Run
BY FreshTyped DEF TypeOK, Ends, Steps

LEMMA GoesToTyped ==
  ASSUME TypeOK, NEW r \in Run, NEW step \in Steps, GoesTo(r, step)
  PROVE  /\ pc' \in [Run -> Steps]
         /\ raced' \in SUBSET Run
BY DEF TypeOK, GoesTo, Steps

LEMMA InitTyped == Init => TypeOK
<1> SUFFICES ASSUME Init
             PROVE  TypeOK
  OBVIOUS
<1>1. clock \in Nat /\ replicated \in Nat /\ followedAt \in Nat
  BY DEF Init
<1>2. following \in BOOLEAN /\ open \in BOOLEAN
  BY DEF Init
<1>3. syncedAt \in [Height -> Nat] /\ stored \in [Tx -> Nat]
  BY DEF Init
<1>4. /\ reverts \in 0 .. MaxReverts
      /\ recorded \in 0 .. MaxHeight
      /\ past \subseteq 0 .. MaxHeight
      /\ faults \in 0 .. MaxFaults
  BY SyncAssumption DEF SyncAssumption, Init
<1>5. mem \in [Run -> Memory] /\ pc \in [Run -> Steps]
  BY FreshTyped DEF Init, Steps
<1>6. denoms \subseteq Denom /\ raced \subseteq Run /\ suspect \subseteq Height
  BY DEF Init
<1> QED
  BY <1>1, <1>2, <1>3, <1>4, <1>5, <1>6, Zenon DEF TypeOK, Steps

LEMMA TypeInductive ==
  ASSUME TypeOK, [Next]_vars
  PROVE  TypeOK'
<1> USE SyncAssumption DEF SyncAssumption
<1>1. ASSUME NEW h \in Height, SyncBlock(h)
      PROVE  TypeOK'
  BY <1>1 DEF TypeOK, SyncBlock, collections
<1>2. CASE Replicate \/ StartFollowing \/ Switch
  BY <1>2 DEF TypeOK, Replicate, StartFollowing, Switch, collections, syncer
<1>3. CASE FallBehind
  <2>1. raced' \subseteq Run /\ reverts' \in 0 .. MaxReverts /\ followedAt' \in Nat
    BY <1>3 DEF TypeOK, FallBehind
  <2>2. following' \in BOOLEAN
    BY <1>3 DEF FallBehind
  <2>3. UNCHANGED <<clock, replicated, syncedAt, open, recorded, past, stored, denoms, pc, mem,
                    suspect, faults>>
    BY <1>3 DEF FallBehind, collections
  <2> QED
    BY <2>1, <2>2, <2>3 DEF TypeOK
<1>4. ASSUME NEW r \in Run, Start(r)
      PROVE  TypeOK'
  <2>1. pc' \in [Run -> Steps] /\ raced' \in SUBSET Run
    BY <1>4, GoesToTyped DEF Start, Steps
  <2>2. faults' \in 0 .. MaxFaults
    BY <1>4 DEF TypeOK, Start
  <2>3. UNCHANGED <<syncer, open, collections, mem, suspect>>
    BY <1>4 DEF Start
  <2> QED
    BY <2>1, <2>2, <2>3 DEF TypeOK, Steps, collections, syncer
<1>5. ASSUME NEW r \in Run, LoadRecord(r) \/ LoadStaleRecord(r) \/ LoadDenoms(r)
                            \/ CheckFollowing(r) \/ FetchNothing(r)
      PROVE  TypeOK'
  <2>1. mem' \in [Run -> Memory]
    <3>1. CASE LoadRecord(r) \/ LoadStaleRecord(r)
      <4>1. recorded \in 0 .. MaxHeight /\ past \subseteq 0 .. MaxHeight
        BY DEF TypeOK
      <4>2. ASSUME NEW h \in 0 .. MaxHeight, mem' = [mem EXCEPT ![r].cursor = h]
            PROVE  mem' \in [Run -> Memory]
        BY <4>2, CursorTyped, MemoryTyped
      <4> QED
        BY <3>1, <4>1, <4>2, EndsTyped DEF LoadRecord, LoadStaleRecord
    <3>2. CASE LoadDenoms(r)
      BY <3>2, KnownTyped, MemoryTyped DEF TypeOK, LoadDenoms
    <3>3. CASE CheckFollowing(r) \/ FetchNothing(r)
      BY <3>3, EndsTyped, MemoryTyped DEF CheckFollowing, FetchNothing
    <3> QED
      BY <1>5, <3>1, <3>2, <3>3
  <2>2. pc' \in [Run -> Steps] /\ raced' \in SUBSET Run
    BY <1>5, EndsTyped, GoesToTyped
    DEF LoadRecord, LoadStaleRecord, LoadDenoms, CheckFollowing, FetchNothing, Steps
  <2>3. faults' \in 0 .. MaxFaults
    BY <1>5 DEF TypeOK, LoadRecord, LoadStaleRecord, LoadDenoms, CheckFollowing, FetchNothing
  <2>4. UNCHANGED <<syncer, open, collections, suspect>>
    BY <1>5 DEF LoadRecord, LoadStaleRecord, LoadDenoms, CheckFollowing, FetchNothing
  <2> QED
    BY <2>1, <2>2, <2>3, <2>4 DEF TypeOK, Steps, collections, syncer
<1>6. ASSUME NEW r \in Run, FetchRest(r) \/ FetchFull(r)
      PROVE  TypeOK'
  <2>1. mem' \in [Run -> Memory] /\ suspect' \subseteq Height
    <3>1. CASE FetchRest(r)
      <4>1. PICK k \in Replicas, h \in Height :
              /\ Reads(r, Ahead(r, k), h)
              /\ suspect' = suspect \cup Gap(r, k, h)
        BY <3>1 DEF FetchRest
      <4>2. Ahead(r, k) \in SUBSET Tx
        BY DEF Ahead, View
      <4>3. mem' \in [Run -> Memory]
        <5>1. mem' = [mem EXCEPT ![r].page = Ahead(r, k), ![r].top = h]
          BY <4>1 DEF Reads
        <5>2. h \in 0 .. MaxHeight
          OBVIOUS
        <5> QED
          BY <4>2, <5>1, <5>2, PageTyped, MemoryTyped
      <4> QED
        BY <4>1, <4>3, GapTyped DEF TypeOK
    <3>2. CASE FetchFull(r)
      <4>1. PICK k \in Replicas, again \in Replicas, h \in Height :
              \E P \in FirstPages(Ahead(r, k)) :
                /\ Reads(r, P \cup {t \in View(again) : HeightOf[t] = h}, h)
                /\ suspect' = suspect \cup Gap(r, k, h) \cup {g \in {h} : ~ Shows(again, g)}
        BY <3>2 DEF FetchFull
      <4>2. PICK P \in FirstPages(Ahead(r, k)) :
              /\ Reads(r, P \cup {t \in View(again) : HeightOf[t] = h}, h)
              /\ suspect' = suspect \cup Gap(r, k, h) \cup {g \in {h} : ~ Shows(again, g)}
        BY <4>1
      <4>3. P \cup {t \in View(again) : HeightOf[t] = h} \in SUBSET Tx
        BY DEF FirstPages, Ahead, View
      <4>4. mem' \in [Run -> Memory]
        <5> DEFINE Q == P \cup {t \in View(again) : HeightOf[t] = h}
        <5>1. mem' = [mem EXCEPT ![r].page = Q, ![r].top = h]
          BY <4>2 DEF Reads
        <5>2. h \in 0 .. MaxHeight /\ Q \in SUBSET Tx
          BY <4>3
        <5> HIDE DEF Q
        <5> QED
          BY <5>1, <5>2, PageTyped, MemoryTyped
      <4> QED
        BY <4>2, <4>4, GapTyped DEF TypeOK
    <3> QED
      BY <1>6, <3>1, <3>2
  <2>2. pc' \in [Run -> Steps] /\ raced' \in SUBSET Run
    BY <1>6, GoesToTyped DEF FetchRest, FetchFull, Steps
  <2>3. UNCHANGED <<syncer, open, collections, faults>>
    BY <1>6 DEF FetchRest, FetchFull
  <2> QED
    BY <2>1, <2>2, <2>3 DEF TypeOK, Steps, collections, syncer
<1>7. ASSUME NEW r \in Run, InsertDenoms(r)
      PROVE  TypeOK'
  <2>1. mem' \in [Run -> Memory]
    <3>1. mem[r].known \cup NewDenoms(r) \in SUBSET Denom
      BY MemoryTyped
    <3>2. mem' = [mem EXCEPT ![r].known = mem[r].known \cup NewDenoms(r)]
      BY <1>7 DEF InsertDenoms
    <3> QED
      BY <3>1, <3>2, KnownTyped, MemoryTyped
  <2>2. denoms' \subseteq Denom
    BY <1>7, MemoryTyped DEF TypeOK, InsertDenoms
  <2>3. pc' \in [Run -> Steps] /\ raced' \in SUBSET Run
    BY <1>7, GoesToTyped DEF InsertDenoms, Steps
  <2> QED
    BY <1>7, <2>1, <2>2, <2>3 DEF TypeOK, Steps, InsertDenoms, syncer
<1>8. ASSUME NEW r \in Run, InsertTxs(r)
      PROVE  TypeOK'
  BY <1>8 DEF TypeOK, InsertTxs, WithCopies, GoesTo, syncer
<1>9. ASSUME NEW r \in Run, UpdateHeight(r)
      PROVE  TypeOK'
  <2>1. mem' \in [Run -> Memory]
    <3>1. CASE Ends(r)
      BY <3>1, EndsTyped
    <3>2. CASE mem' = [mem EXCEPT ![r] =
                 [Fresh EXCEPT !.cursor = mem[r].top, !.known = mem[r].known,
                               !.total = mem[r].total + Cardinality(mem[r].page)]]
      <4>1. [Fresh EXCEPT !.cursor = mem[r].top, !.known = mem[r].known,
                          !.total = mem[r].total + Cardinality(mem[r].page)] \in Memory
        BY PageCardinality, FreshTyped, MemoryTyped DEF Memory
      <4> QED
        BY <3>2, <4>1, MemoryTyped
    <3> QED
      BY <1>9, <3>1, <3>2 DEF UpdateHeight
  <2>2. pc' \in [Run -> Steps] /\ raced' \in SUBSET Run
    BY <1>9, EndsTyped, GoesToTyped DEF UpdateHeight, Steps
  <2>3. recorded' \in 0 .. MaxHeight /\ past' \subseteq 0 .. MaxHeight
    BY <1>9, MemoryTyped DEF TypeOK, UpdateHeight
  <2> QED
    BY <1>9, <2>1, <2>2, <2>3 DEF TypeOK, Steps, UpdateHeight, syncer
<1>10. ASSUME NEW r \in Run, Failure(r), ~ LoadStaleRecord(r)
       PROVE  TypeOK'
  <2>1. Fails(r)
    BY <1>10 DEF Failure, Abandon, InsertDenomsFails, InsertTxsFails, UpdateHeightFails
  <2>2. mem' \in [Run -> Memory] /\ pc' \in [Run -> Steps] /\ raced' \in SUBSET Run
    BY <2>1, EndsTyped DEF Fails
  <2>3. faults' \in 0 .. MaxFaults
    BY <2>1 DEF TypeOK, Fails
  <2>4. CASE Abandon(r)
    BY <2>4, <2>2, <2>3 DEF TypeOK, Steps, Abandon, collections, syncer
  <2>5. CASE InsertDenomsFails(r)
    BY <2>5, <2>2, <2>3, MemoryTyped DEF TypeOK, Steps, InsertDenomsFails, syncer
  <2>6. CASE InsertTxsFails(r)
    BY <2>6, <2>2, <2>3 DEF TypeOK, Steps, InsertTxsFails, WithCopies, syncer
  <2>7. CASE UpdateHeightFails(r)
    BY <2>7, <2>2, <2>3, MemoryTyped DEF TypeOK, Steps, UpdateHeightFails, syncer
  <2> QED
    BY <1>10, <2>4, <2>5, <2>6, <2>7 DEF Failure
<1>11. CASE UNCHANGED vars
  BY <1>11 DEF TypeOK, vars
<1> QED
  BY <1>1, <1>2, <1>3, <1>4, <1>5, <1>6, <1>7, <1>8, <1>9, <1>10, <1>11
  DEF Next, Step, Failure

\* The state of the task and of the collections it shares stays well typed.
THEOREM SyncTypeCorrect == Spec => []TypeOK
BY InitTyped, TypeInductive, PTL DEF Spec

-----------------------------------------------------------------------------
(* Denoms before transfers. *)

\* A run only knows denoms that are registered, and when it stores a page the
\* denoms of the page are.
RunDenoms(r) ==
  /\ mem[r].known \subseteq denoms
  /\ pc[r] = "insertTxs" =>
       \A t \in mem[r].page \ Unregistered : DenomOf[t] \in denoms

DenomInv == DenomBeforeTx /\ \A r \in Run : RunDenoms(r)

\* An action that leaves denoms, the transfers and the local variables of r
\* alone keeps what is known of r, provided r is not about to store a page.
LEMMA OtherRunDenoms ==
  ASSUME NEW r \in Run, RunDenoms(r), denoms \subseteq denoms',
         mem'[r] = mem[r], pc'[r] = pc[r] \/ pc'[r] # "insertTxs"
  PROVE  RunDenoms(r)'
BY DEF RunDenoms

LEMMA FreshRunDenoms ==
  ASSUME NEW r \in Run, mem'[r] = Fresh, pc'[r] # "insertTxs"
  PROVE  RunDenoms(r)'
BY DEF RunDenoms, Fresh

LEMMA DenomInductive ==
  ASSUME TypeOK, DenomInv, [Next]_vars
  PROVE  DenomInv'
<1> USE DEF DenomInv
<1> mem \in [Run -> Memory] /\ pc \in [Run -> Steps]
  BY DEF TypeOK, Steps
<1>1. ASSUME NEW h \in Height, SyncBlock(h)
      PROVE  DenomInv'
  BY <1>1 DEF SyncBlock, collections, DenomBeforeTx, RunDenoms
<1>2. CASE Replicate \/ StartFollowing \/ Switch \/ FallBehind
  BY <1>2 DEF Replicate, StartFollowing, Switch, FallBehind, collections, DenomBeforeTx, RunDenoms
<1>3. ASSUME NEW r \in Run, Start(r) \/ LoadRecord(r) \/ LoadStaleRecord(r)
                            \/ LoadDenoms(r) \/ CheckFollowing(r) \/ FetchNothing(r)
                            \/ FetchRest(r) \/ FetchFull(r) \/ UpdateHeight(r)
                            \/ Abandon(r) \/ UpdateHeightFails(r)
      PROVE  DenomInv'
  <2>1. denoms' = denoms /\ stored' = stored
    BY <1>3 DEF Start, LoadRecord, LoadStaleRecord, LoadDenoms, CheckFollowing, FetchNothing,
      FetchRest, FetchFull, UpdateHeight, Abandon, UpdateHeightFails, collections
  <2>2. ASSUME NEW s \in Run, s # r
        PROVE  mem'[s] = mem[s] /\ pc'[s] = pc[s]
    BY <1>3, <2>2 DEF Start, LoadRecord, LoadStaleRecord, LoadDenoms, CheckFollowing,
      FetchNothing, FetchRest, FetchFull, UpdateHeight, Abandon, UpdateHeightFails, Fails,
      Ends, GoesTo, Reads, Steps
  <2>3. mem'[r].known \subseteq denoms /\ pc'[r] # "insertTxs"
    <3>1. CASE Start(r) \/ LoadDenoms(r) \/ LoadStaleRecord(r)
      BY <3>1 DEF Start, LoadStaleRecord, LoadDenoms, GoesTo, Memory, RunDenoms
    <3>5. CASE FetchRest(r) \/ FetchFull(r)
      <4>1. PICK Q, h : mem' = [mem EXCEPT ![r].page = Q, ![r].top = h]
        BY <3>5 DEF FetchRest, FetchFull, Reads
      <4>2. mem'[r].known = mem[r].known
        BY <4>1 DEF Memory
      <4>3. pc'[r] = "insertDenoms"
        BY <3>5 DEF FetchRest, FetchFull, GoesTo
      <4> QED
        BY <4>2, <4>3 DEF RunDenoms
    <3>2. CASE Ends(r)
      BY <3>2 DEF Ends, Fresh
    <3>3. CASE LoadRecord(r) \/ CheckFollowing(r)
      BY <3>2, <3>3 DEF LoadRecord, CheckFollowing, GoesTo, Memory, RunDenoms
    <3>4. CASE UpdateHeight(r)
      BY <3>2, <3>4 DEF UpdateHeight, GoesTo, Fresh, RunDenoms
    <3> QED
      BY <1>3, <3>1, <3>2, <3>3, <3>4, <3>5 DEF FetchNothing, Abandon, UpdateHeightFails, Fails
  <2>4. RunDenoms(r)'
    BY <2>1, <2>3 DEF RunDenoms
  <2> QED
    BY <2>1, <2>2, <2>4, OtherRunDenoms DEF DenomBeforeTx
<1>4. ASSUME NEW r \in Run, InsertDenoms(r)
      PROVE  DenomInv'
  <2>1. DenomBeforeTx'
    BY <1>4 DEF InsertDenoms, DenomBeforeTx
  <2>2. RunDenoms(r)'
    BY <1>4 DEF InsertDenoms, GoesTo, NewDenoms, RunDenoms, Memory
  <2>3. ASSUME NEW s \in Run, s # r
        PROVE  RunDenoms(s)'
    BY <1>4, <2>3, OtherRunDenoms DEF InsertDenoms, GoesTo
  <2> QED
    BY <2>1, <2>2, <2>3
<1>5. ASSUME NEW r \in Run, InsertTxs(r) \/ InsertTxsFails(r)
      PROVE  DenomInv'
  <2>1. denoms' = denoms
    BY <1>5 DEF InsertTxs, InsertTxsFails
  <2>2. PICK some \in SUBSET mem[r].page : stored' = WithCopies(some)
    BY <1>5 DEF InsertTxs, InsertTxsFails
  <2>3. pc[r] = "insertTxs"
    BY <1>5 DEF InsertTxs, InsertTxsFails
  <2>4. DenomBeforeTx'
    BY <2>1, <2>2, <2>3 DEF DenomBeforeTx, WithCopies, RunDenoms
  <2>5. ASSUME NEW s \in Run
        PROVE  RunDenoms(s)'
    BY <1>5, <2>1, OtherRunDenoms, FreshRunDenoms
    DEF InsertTxs, InsertTxsFails, Fails, Ends, GoesTo, Steps
  <2> QED
    BY <2>4, <2>5
<1>6. ASSUME NEW r \in Run, InsertDenomsFails(r)
      PROVE  DenomInv'
  <2>1. denoms \subseteq denoms' /\ stored' = stored
    BY <1>6 DEF InsertDenomsFails
  <2>2. DenomBeforeTx'
    BY <2>1 DEF DenomBeforeTx
  <2>3. ASSUME NEW s \in Run
        PROVE  RunDenoms(s)'
    BY <1>6, <2>1, OtherRunDenoms, FreshRunDenoms DEF InsertDenomsFails, Fails, Ends, Steps
  <2> QED
    BY <2>2, <2>3
<1>7. CASE UNCHANGED vars
  BY <1>7 DEF vars, DenomBeforeTx, RunDenoms
<1> QED
  BY <1>1, <1>2, <1>3, <1>4, <1>5, <1>6, <1>7 DEF Next, Step, Failure

\* However runs overlap, fail or die between the batches, a stored transfer in
\* status Processing has its denom in ibc_denom.
THEOREM DenomBeforeTxThm == Spec => []DenomBeforeTx
<1>1. Init => DenomInv
  BY DEF Init, DenomInv, DenomBeforeTx, RunDenoms, Fresh
<1>2. TypeOK /\ DenomInv /\ [Next]_vars => DenomInv'
  BY DenomInductive
<1>3. DenomInv => DenomBeforeTx
  BY DEF DenomInv
<1> QED
  BY <1>1, <1>2, <1>3, SyncTypeCorrect, PTL DEF Spec

-----------------------------------------------------------------------------
(* No transfer is lost. *)

\* The transfers up to a height are stored, suspect heights apart.
Kept(h) == \A t \in Tx : HeightOf[t] <= h /\ HeightOf[t] \notin suspect => stored[t] > 0

\* While the syncer follows the chain, what a replica from that time on shows
\* has no gaps.
FollowInv ==
  /\ followedAt <= clock
  /\ \A h \in Height : syncedAt[h] <= clock
  /\ following =>
       \A k \in followedAt .. clock, h, lower \in Height :
         lower < h /\ Shows(k, h) => Shows(k, lower)

RecordInv == recorded \in past /\ \A h \in past : Kept(h)

\* The page a run is about to store completes what is below its last height.
PageKept(r) ==
  \A t \in Tx : HeightOf[t] <= mem[r].top /\ HeightOf[t] \notin suspect =>
    stored[t] > 0 \/ t \in mem[r].page

RunKept(r) ==
  /\ Kept(mem[r].cursor)
  /\ pc[r] \in {"insertDenoms", "insertTxs"} => PageKept(r)
  /\ pc[r] = "record" => Kept(mem[r].top)
  /\ pc[r] = "fetch" => following \/ r \in raced

KeptInv == FollowInv /\ RecordInv /\ \A r \in Run : RunKept(r)

LEMMA KeptMonotone ==
  ASSUME TypeOK, TypeOK', suspect \subseteq suspect',
         \A t \in Tx : stored[t] <= stored'[t],
         NEW h, Kept(h)
  PROVE  Kept(h)'
<1> SUFFICES ASSUME NEW t \in Tx, HeightOf[t] <= h, HeightOf[t] \notin suspect'
             PROVE  stored'[t] > 0
  BY DEF Kept
<1>1. stored[t] \in Nat /\ stored'[t] \in Nat
  BY DEF TypeOK
<1>2. stored[t] > 0
  BY DEF Kept
<1> QED
  BY <1>1, <1>2

LEMMA NothingBelowZero == Kept(0)
BY SyncAssumption DEF SyncAssumption, Kept

\* A run that an action does not touch.
LEMMA OtherRunKept ==
  ASSUME TypeOK, TypeOK', suspect \subseteq suspect',
         \A t \in Tx : stored[t] <= stored'[t],
         NEW r \in Run, RunKept(r), mem'[r] = mem[r], pc'[r] = pc[r],
         pc[r] = "fetch" /\ following /\ ~ following' => r \in raced',
         r \in raced => r \in raced'
  PROVE  RunKept(r)'
<1>1. Kept(mem[r].cursor)'
  BY KeptMonotone DEF RunKept, Kept
<1>2. pc[r] = "record" => Kept(mem[r].top)'
  BY KeptMonotone DEF RunKept, Kept
<1>3. pc[r] \in {"insertDenoms", "insertTxs"} => PageKept(r)'
  <2> SUFFICES ASSUME pc[r] \in {"insertDenoms", "insertTxs"}, NEW t \in Tx,
                      HeightOf[t] <= mem[r].top, HeightOf[t] \notin suspect'
               PROVE  stored'[t] > 0 \/ t \in mem[r].page
    BY DEF PageKept
  <2>1. stored[t] \in Nat /\ stored'[t] \in Nat
    BY DEF TypeOK
  <2>2. stored[t] > 0 \/ t \in mem[r].page
    BY DEF RunKept, PageKept
  <2> QED
    BY <2>1, <2>2
<1> QED
  BY <1>1, <1>2, <1>3 DEF RunKept

\* A run whose local variables are gone.
LEMMA EndedRunKept ==
  ASSUME NEW r \in Run, TypeOK, Ends(r)
  PROVE  RunKept(r)'
<1>1. mem'[r] = Fresh /\ pc'[r] = "idle"
  BY DEF Ends, TypeOK
<1>2. Kept(0)'
  BY SyncAssumption DEF SyncAssumption, Kept
<1> QED
  BY <1>1, <1>2 DEF RunKept, Fresh, Kept

\* What getTxList shows of the heights up to the last one it returns: all of
\* it, except what the replica could not show.
LEMMA NoUnseenTx ==
  ASSUME TypeOK, KeptInv, NEW r \in Run, pc[r] = "fetch",
         NEW k \in Replicas, NEW h \in Height, Shows(k, h),
         NEW t \in Tx, HeightOf[t] <= h, HeightOf[t] \notin Gap(r, k, h),
         HeightOf[t] > mem[r].cursor
  PROVE  t \in Ahead(r, k)
<1>1. HeightOf[t] \in Height
  BY SyncAssumption DEF SyncAssumption
<1>2. CASE r \in raced \/ k < followedAt
  BY <1>1, <1>2 DEF Gap, Ahead, View
<1>3. CASE ~ (r \in raced \/ k < followedAt)
  <2>1. following
    BY <1>3 DEF KeptInv, RunKept
  <2>2. k \in followedAt .. clock
    BY <1>3 DEF Replicas, TypeOK
  <2>3. Shows(k, HeightOf[t])
    <3>1. CASE HeightOf[t] = h
      BY <3>1
    <3>2. CASE HeightOf[t] < h
      BY <3>2, <1>1, <2>1, <2>2 DEF KeptInv, FollowInv
    <3> QED
      BY <1>1, <3>1, <3>2
  <2> QED
    BY <2>3 DEF Ahead, View
<1> QED
  BY <1>2, <1>3

LEMMA FetchedPageKept ==
  ASSUME TypeOK, KeptInv, NEW r \in Run, pc[r] = "fetch", FetchRest(r) \/ FetchFull(r)
  PROVE  /\ PageKept(r)'
         /\ mem'[r].cursor = mem[r].cursor
         /\ suspect \subseteq suspect'
<1> mem \in [Run -> Memory] /\ HeightOf \in [Tx -> Height]
  BY SyncAssumption DEF SyncAssumption, TypeOK
<1>1. CASE FetchRest(r)
  <2>1. PICK k \in Replicas, h \in Height :
          /\ h \in {HeightOf[t] : t \in Ahead(r, k)}
          /\ mem' = [mem EXCEPT ![r].page = Ahead(r, k), ![r].top = h]
          /\ suspect' = suspect \cup Gap(r, k, h)
    BY <1>1 DEF FetchRest, Reads
  <2>2. /\ mem'[r].page = Ahead(r, k)
        /\ mem'[r].top = h
        /\ mem'[r].cursor = mem[r].cursor
    BY <2>1 DEF Memory
  <2>3. Shows(k, h)
    BY <2>1 DEF Ahead, View
  <2>4. stored' = stored
    BY <1>1 DEF FetchRest, collections
  <2>5. ASSUME NEW t \in Tx, HeightOf[t] <= h, HeightOf[t] \notin suspect'
        PROVE  stored[t] > 0 \/ t \in Ahead(r, k)
    <3>1. CASE HeightOf[t] <= mem[r].cursor
      BY <3>1, <2>5, <2>1 DEF KeptInv, RunKept, Kept
    <3>2. CASE HeightOf[t] > mem[r].cursor
      BY <3>2, <2>1, <2>3, <2>5, NoUnseenTx
    <3>3. HeightOf[t] \in Int /\ mem[r].cursor \in Int
      BY MemoryTyped
    <3> QED
      BY <3>1, <3>2, <3>3
  <2> QED
    BY <2>1, <2>2, <2>4, <2>5 DEF PageKept
<1>2. CASE FetchFull(r)
  <2>1. PICK k \in Replicas, again \in Replicas, h \in Height :
          \E P \in FirstPages(Ahead(r, k)) :
            /\ h \in {HeightOf[t] : t \in P}
            /\ mem' = [mem EXCEPT ![r].page = P \cup {t \in View(again) : HeightOf[t] = h},
                                  ![r].top = h]
            /\ suspect' = suspect \cup Gap(r, k, h) \cup {g \in {h} : ~ Shows(again, g)}
    BY <1>2 DEF FetchFull, Reads
  <2>2. PICK P \in FirstPages(Ahead(r, k)) :
          /\ h \in {HeightOf[t] : t \in P}
          /\ mem' = [mem EXCEPT ![r].page = P \cup {t \in View(again) : HeightOf[t] = h},
                                ![r].top = h]
          /\ suspect' = suspect \cup Gap(r, k, h) \cup {g \in {h} : ~ Shows(again, g)}
    BY <2>1
  <2>3. /\ mem'[r].page = P \cup {t \in View(again) : HeightOf[t] = h}
        /\ mem'[r].top = h
        /\ mem'[r].cursor = mem[r].cursor
    BY <2>2 DEF Memory
  <2>4. /\ P \subseteq Ahead(r, k)
        /\ \A t \in P, u \in Ahead(r, k) \ P : HeightOf[t] <= HeightOf[u]
    BY DEF FirstPages
  <2>5. PICK last \in P : HeightOf[last] = h
    BY <2>2
  <2>6. Shows(k, h)
    BY <2>4, <2>5 DEF Ahead, View
  <2>7. stored' = stored
    BY <1>2 DEF FetchFull, collections
  <2>8. ASSUME NEW t \in Tx, HeightOf[t] <= h, HeightOf[t] \notin suspect'
        PROVE  stored[t] > 0 \/ t \in P \cup {u \in View(again) : HeightOf[u] = h}
    <3>0. HeightOf[t] \in Int /\ mem[r].cursor \in Int /\ h \in Int
      BY MemoryTyped
    <3>1. CASE HeightOf[t] <= mem[r].cursor
      BY <3>1, <2>8, <2>2 DEF KeptInv, RunKept, Kept
    <3>2. CASE HeightOf[t] = h
      BY <3>2, <2>8, <2>2 DEF View
    <3>3. CASE HeightOf[t] > mem[r].cursor /\ HeightOf[t] < h
      <4>1. t \in Ahead(r, k)
        BY <3>3, <2>2, <2>6, <2>8, NoUnseenTx
      <4> QED
        BY <3>3, <3>0, <4>1, <2>4, <2>5
    <3> QED
      BY <2>8, <3>0, <3>1, <3>2, <3>3
  <2> QED
    BY <2>2, <2>3, <2>7, <2>8 DEF PageKept
<1> QED
  BY <1>1, <1>2

LEMMA KeptInductive ==
  ASSUME TypeOK, KeptInv, [Next]_vars
  PROVE  KeptInv'
<1> TypeOK'
  BY TypeInductive
<1> mem \in [Run -> Memory] /\ pc \in [Run -> Steps]
  BY DEF TypeOK, Steps
<1> stored \in [Tx -> Nat]
  BY DEF TypeOK
\* The syncer and the operator leave the collections and the runs alone.
<1>1. ASSUME UNCHANGED <<collections, pc, mem, suspect>>, FollowInv',
             \A r \in Run : (pc[r] = "fetch" => following' \/ r \in raced')
      PROVE  KeptInv'
  BY <1>1 DEF KeptInv, RecordInv, RunKept, PageKept, Kept, collections
<1>2. ASSUME NEW h \in Height, SyncBlock(h)
      PROVE  KeptInv'
  <2>1. FollowInv'
    <3>0. /\ clock \in Nat /\ syncedAt \in [Height -> Nat] /\ followedAt \in Nat
          /\ clock' = clock + 1 /\ syncedAt' = [syncedAt EXCEPT ![h] = clock + 1]
          /\ followedAt' = followedAt
      BY <1>2 DEF TypeOK, SyncBlock
    <3>1. /\ followedAt' <= clock'
          /\ \A g \in Height : syncedAt'[g] <= clock'
      BY <3>0 DEF KeptInv, FollowInv
    <3>2. ASSUME following, NEW k \in followedAt .. clock + 1, NEW g \in Height,
                 NEW lower \in Height, lower < g, Shows(k, g)'
          PROVE  Shows(k, lower)'
      <4>1. clock \in Nat /\ syncedAt \in [Height -> Nat] /\ followedAt \in Nat
        BY DEF TypeOK
      <4>2. /\ syncedAt' = [syncedAt EXCEPT ![h] = clock + 1]
            /\ syncedAt[h] = 0
            /\ \A low \in Height : low < h => syncedAt[low] > 0
        BY <1>2, <3>2, <4>1 DEF SyncBlock, Synced
      <4>3. \A x \in Height : syncedAt[x] <= clock
        BY DEF KeptInv, FollowInv
      <4>4. \A x, low \in Height : low < x /\ syncedAt[x] \in 1 .. clock => syncedAt[low] \in 1 .. clock
        BY <3>2, <4>1 DEF KeptInv, FollowInv, Shows
      <4> QED
        BY <3>2, <4>1, <4>2, <4>3, <4>4 DEF KeptInv, FollowInv, Shows
    <3> QED
      BY <1>2, <3>1, <3>2 DEF SyncBlock, FollowInv
  <2> QED
    BY <1>1, <1>2, <2>1 DEF SyncBlock, KeptInv, RunKept
<1>3. CASE Replicate \/ Switch
  <2>1. FollowInv' /\ UNCHANGED <<following, raced>>
    BY <1>3 DEF Replicate, Switch, syncer, KeptInv, FollowInv, Shows
  <2> QED
    BY <1>1, <1>3, <2>1 DEF Replicate, Switch, KeptInv, RunKept
<1>4. CASE StartFollowing
  <2>1. FollowInv'
    BY <1>4 DEF StartFollowing, KeptInv, FollowInv, Shows, Synced, TypeOK
  <2> QED
    BY <1>1, <1>4, <2>1 DEF StartFollowing
<1>5. CASE FallBehind
  <2>1. FollowInv'
    <3>1. /\ clock' = clock /\ syncedAt' = syncedAt /\ clock \in Nat
          /\ ~ following' /\ followedAt' = 0
      BY <1>5 DEF FallBehind, TypeOK
    <3> QED
      BY <3>1 DEF KeptInv, FollowInv
  <2> QED
    BY <1>1, <1>5, <2>1 DEF FallBehind
\* The steps of a run leave the syncer alone.
<1>6. ASSUME UNCHANGED syncer
      PROVE  FollowInv'
  BY <1>6 DEF syncer, KeptInv, FollowInv, Shows
<1>7. ASSUME NEW r \in Run, UNCHANGED <<syncer, recorded, past, stored>>,
             suspect \subseteq suspect',
             \A s \in Run : s # r => mem'[s] = mem[s] /\ pc'[s] = pc[s],
             raced' = raced \ {r},
             RunKept(r)'
      PROVE  KeptInv'
  <2>1. \A s \in Run : s # r => RunKept(s)'
    BY <1>7, OtherRunKept DEF KeptInv, syncer
  <2>2. RecordInv'
    BY <1>7, KeptMonotone DEF KeptInv, RecordInv, Kept
  <2> QED
    BY <1>6, <1>7, <2>1, <2>2 DEF KeptInv
<1>8. ASSUME NEW r \in Run, Start(r) \/ LoadRecord(r) \/ LoadStaleRecord(r) \/ LoadDenoms(r)
                            \/ CheckFollowing(r) \/ FetchNothing(r) \/ Abandon(r)
                            \/ InsertDenomsFails(r)
      PROVE  KeptInv'
  <2>1. UNCHANGED <<syncer, recorded, past, stored, suspect>> /\ raced' = raced \ {r}
    BY <1>8 DEF Start, LoadRecord, LoadStaleRecord, LoadDenoms, CheckFollowing, FetchNothing,
      Abandon, InsertDenomsFails, Fails, Ends, GoesTo, collections
  <2>2. \A s \in Run : s # r => mem'[s] = mem[s] /\ pc'[s] = pc[s]
    BY <1>8 DEF Start, LoadRecord, LoadStaleRecord, LoadDenoms, CheckFollowing, FetchNothing,
      Abandon, InsertDenomsFails, Fails, Ends, GoesTo, Steps
  <2>3. RunKept(r)'
    <3>1. CASE Ends(r)
      BY <3>1, EndedRunKept
    <3>2. CASE ~ Ends(r)
      <4>1. pc'[r] \in {"load", "loadDenoms", "check"} \/ (pc'[r] = "fetch" /\ following')
        BY <1>8, <3>2 DEF Start, LoadRecord, LoadStaleRecord, LoadDenoms, CheckFollowing,
          FetchNothing, Abandon, InsertDenomsFails, Fails, GoesTo, syncer
      <4>2. Kept(mem'[r].cursor)
        BY <1>8, <3>2 DEF Start, LoadRecord, LoadStaleRecord, LoadDenoms, CheckFollowing,
          FetchNothing, Abandon, InsertDenomsFails, Fails, Memory, KeptInv, RunKept, RecordInv
      <4> QED
        BY <2>1, <4>1, <4>2 DEF RunKept, Kept
    <3> QED
      BY <3>1, <3>2
  <2> QED
    BY <1>7, <2>1, <2>2, <2>3
<1>9. ASSUME NEW r \in Run, FetchRest(r) \/ FetchFull(r)
      PROVE  KeptInv'
  <2>1. /\ PageKept(r)'
        /\ mem'[r].cursor = mem[r].cursor
        /\ suspect \subseteq suspect'
    BY <1>9, FetchedPageKept DEF FetchRest, FetchFull
  <2>2. UNCHANGED <<syncer, recorded, past, stored>> /\ raced' = raced \ {r}
    BY <1>9 DEF FetchRest, FetchFull, GoesTo, collections
  <2>3. \A s \in Run : s # r => mem'[s] = mem[s] /\ pc'[s] = pc[s]
    BY <1>9 DEF FetchRest, FetchFull, Reads, GoesTo
  <2>4. pc'[r] = "insertDenoms"
    BY <1>9 DEF FetchRest, FetchFull, GoesTo
  <2>5. RunKept(r)'
    BY <2>1, <2>2, <2>4, KeptMonotone DEF KeptInv, RunKept, Kept
  <2> QED
    BY <1>7, <2>1, <2>2, <2>3, <2>5
<1>10. ASSUME NEW r \in Run, InsertDenoms(r)
       PROVE  KeptInv'
  <2>1. UNCHANGED <<syncer, recorded, past, stored, suspect>> /\ raced' = raced \ {r}
    BY <1>10 DEF InsertDenoms, GoesTo
  <2>2. \A s \in Run : s # r => mem'[s] = mem[s] /\ pc'[s] = pc[s]
    BY <1>10 DEF InsertDenoms, GoesTo
  <2>3. /\ pc[r] = "insertDenoms" /\ pc'[r] = "insertTxs"
        /\ mem'[r].cursor = mem[r].cursor
        /\ mem'[r].page = mem[r].page
        /\ mem'[r].top = mem[r].top
    BY <1>10 DEF InsertDenoms, GoesTo, Memory
  <2>4. RunKept(r)'
    BY <2>1, <2>3 DEF KeptInv, RunKept, Kept, PageKept
  <2> QED
    BY <1>7, <2>1, <2>2, <2>4
<1>11. ASSUME NEW r \in Run, InsertTxs(r) \/ InsertTxsFails(r)
       PROVE  KeptInv'
  <2>1. PICK some \in SUBSET mem[r].page :
          stored' = WithCopies(some) /\ (InsertTxs(r) => some = mem[r].page)
    BY <1>11 DEF InsertTxs, InsertTxsFails
  <2>2. \A t \in Tx : stored[t] <= stored'[t]
    BY <2>1 DEF WithCopies
  <2>3. UNCHANGED <<syncer, recorded, past, suspect>> /\ raced' = raced \ {r}
    BY <1>11 DEF InsertTxs, InsertTxsFails, Fails, Ends, GoesTo
  <2>4. ASSUME NEW s \in Run, s # r
        PROVE  RunKept(s)'
    BY <1>11, <2>2, <2>3, <2>4, OtherRunKept
    DEF InsertTxs, InsertTxsFails, Fails, Ends, GoesTo, KeptInv, syncer
  <2>5. RunKept(r)'
    <3>1. CASE InsertTxsFails(r)
      BY <3>1, EndedRunKept DEF InsertTxsFails, Fails
    <3>2. CASE InsertTxs(r)
      <4>1. pc[r] = "insertTxs" /\ pc'[r] = "record" /\ mem' = mem
        BY <3>2 DEF InsertTxs, GoesTo
      <4>2. Kept(mem[r].cursor)'
        BY <2>2, <2>3, <4>1, KeptMonotone DEF KeptInv, RunKept, Kept
      <4>3. Kept(mem[r].top)'
        <5> SUFFICES ASSUME NEW t \in Tx, HeightOf[t] <= mem[r].top, HeightOf[t] \notin suspect
                     PROVE  stored'[t] > 0
          BY <2>3, <4>1 DEF Kept
        <5>1. stored[t] > 0 \/ t \in mem[r].page
          BY <4>1 DEF KeptInv, RunKept, PageKept
        <5> QED
          BY <2>1, <3>2, <5>1 DEF WithCopies
      <4> QED
        BY <4>1, <4>2, <4>3 DEF RunKept
    <3> QED
      BY <1>11, <3>1, <3>2
  <2>6. RecordInv'
    BY <2>2, <2>3, KeptMonotone DEF KeptInv, RecordInv, Kept
  <2> QED
    BY <1>6, <2>3, <2>4, <2>5, <2>6 DEF KeptInv
<1>12. ASSUME NEW r \in Run, UpdateHeight(r) \/ UpdateHeightFails(r)
       PROVE  KeptInv'
  <2>1. UNCHANGED <<syncer, stored, suspect>> /\ raced' = raced \ {r}
    BY <1>12 DEF UpdateHeight, UpdateHeightFails, Fails, Ends, GoesTo
  <2>2. Kept(mem[r].top)
    BY <1>12 DEF UpdateHeight, UpdateHeightFails, KeptInv, RunKept
  <2>3. recorded' = mem[r].top /\ past' = past \cup {mem[r].top}
    BY <1>12 DEF UpdateHeight, UpdateHeightFails
  <2>4. RecordInv'
    BY <2>1, <2>2, <2>3 DEF KeptInv, RecordInv, Kept
  <2>5. ASSUME NEW s \in Run, s # r
        PROVE  RunKept(s)'
    BY <1>12, <2>1, <2>5, OtherRunKept
    DEF UpdateHeight, UpdateHeightFails, Fails, Ends, GoesTo, KeptInv, syncer
  <2>6. RunKept(r)'
    <3>1. CASE Ends(r)
      BY <3>1, EndedRunKept
    <3>2. CASE ~ Ends(r)
      <4>1. pc'[r] = "check" /\ mem'[r].cursor = mem[r].top
        BY <1>12, <3>2 DEF UpdateHeight, UpdateHeightFails, Fails, GoesTo, Fresh
      <4> QED
        BY <2>1, <2>2, <4>1 DEF RunKept, Kept
    <3> QED
      BY <3>1, <3>2
  <2> QED
    BY <1>6, <2>1, <2>4, <2>5, <2>6 DEF KeptInv
<1>13. CASE UNCHANGED vars
  BY <1>13 DEF vars, KeptInv, FollowInv, RecordInv, RunKept, PageKept, Kept, Shows
<1> QED
  BY <1>2, <1>3, <1>4, <1>5, <1>8, <1>9, <1>10, <1>11, <1>12, <1>13 DEF Next, Step, Failure

\* For any number of runs, faults and blocks: the recorded height passes no
\* transfer that is not stored, except where a replica could not show it.
THEOREM NoTxLostThm == Spec => []NoTxLost
<1>1. Init => KeptInv
  <2> SUFFICES ASSUME Init
               PROVE  KeptInv
    OBVIOUS
  <2>1. FollowInv
    BY DEF Init, FollowInv
  <2>2. RecordInv
    BY NothingBelowZero DEF Init, RecordInv
  <2>3. \A r \in Run : RunKept(r)
    BY NothingBelowZero DEF Init, RunKept, Fresh
  <2> QED
    BY <2>1, <2>2, <2>3 DEF KeptInv
<1>2. TypeOK /\ KeptInv /\ [Next]_vars => KeptInv'
  BY KeptInductive
<1>3. KeptInv => NoTxLost
  BY DEF KeptInv, RecordInv, Kept, NoTxLost
<1> QED
  BY <1>1, <1>2, <1>3, SyncTypeCorrect, PTL DEF Spec

-----------------------------------------------------------------------------
(* Copies need faults. *)

\* A run has passed a transfer when it goes on from its height or above, or is
\* about to record such a height.  A run that is behind one may still store it,
\* and record a height below it; one that has just been started may do so.
Passed(r, t) ==
  mem[r].cursor >= HeightOf[t] \/ (pc[r] = "record" /\ mem[r].top >= HeightOf[t])
Behind(t) == {r \in Run : pc[r] \notin {"idle", "load"} /\ ~ Passed(r, t)}
MayStore(t) == {r \in Run : pc[r] = "load"} \cup Behind(t)
Recording(t) == {r \in Run : pc[r] = "record" /\ mem[r].top >= HeightOf[t]}

\* Every copy there is, and every run that may still add one, is paid for by a
\* fault, but for one.  So is the run that may be started next at no cost, unless
\* some run is about to record a height that keeps it from the transfer.  Of the
\* runs that have just been started one was perhaps started at no cost: it stores
\* no copy as long as the recorded height keeps it from that.
CopiesOK(t) ==
  /\ recorded < HeightOf[t] \/ Behind(t) # {} =>
       stored[t] + Cardinality(MayStore(t)) <= 1 + faults
  /\ recorded < HeightOf[t] /\ Recording(t) = {} => stored[t] + 1 <= 1 + faults
  /\ stored[t] <= 1 + faults
  /\ stored[t] + Cardinality(MayStore(t)) <= 2 + faults

\* A page holds what is above the run's height, up to its last one.
PageAhead(r) ==
  pc[r] \in {"insertDenoms", "insertTxs", "record"} =>
    /\ mem[r].cursor < mem[r].top
    /\ \A t \in mem[r].page : mem[r].cursor < HeightOf[t] /\ HeightOf[t] <= mem[r].top

Working == {r \in Run : Active(r)}
CopiesInv ==
  /\ IsFiniteSet(Working)
  /\ \A r \in Run : PageAhead(r)
  /\ \A t \in Tx : CopiesOK(t)

OnlyRun(r) == \A s \in Run \ {r} : pc'[s] = pc[s] /\ mem'[s] = mem[s]

LEMMA MayStoreFinite ==
  ASSUME IsFiniteSet(Working), NEW t
  PROVE  IsFiniteSet(MayStore(t)) /\ Cardinality(MayStore(t)) \in Nat
<1>1. MayStore(t) \subseteq Working
  BY DEF MayStore, Behind, Working, Active
<1> QED
  BY <1>1, FS_Subset, FS_CardinalityType

LEMMA OthersStay ==
  ASSUME NEW r \in Run, OnlyRun(r), NEW t
  PROVE  /\ Working' \ {r} = Working \ {r}
         /\ MayStore(t)' \ {r} = MayStore(t) \ {r}
         /\ Behind(t)' \ {r} = Behind(t) \ {r}
         /\ Recording(t)' \ {r} = Recording(t) \ {r}
<1>1. \A s \in Run \ {r} : Passed(s, t)' <=> Passed(s, t)
  BY DEF OnlyRun, Passed
<1> QED
  BY <1>1 DEF OnlyRun, Working, Active, MayStore, Behind, Recording

LEMMA WorkingFinite ==
  ASSUME NEW r \in Run, OnlyRun(r), IsFiniteSet(Working)
  PROVE  IsFiniteSet(Working')
<1>1. Working' \subseteq Working \cup {r}
  BY OthersStay
<1>2. IsFiniteSet(Working \cup {r})
  BY FS_AddElement
<1> QED
  BY <1>1, <1>2, FS_Subset

\* A step by which no run comes to where it may store a transfer, but at the cost
\* of a fault, or because the recorded height has it do so anyway.
LEMMA NoMoreRuns ==
  ASSUME TypeOK, TypeOK', IsFiniteSet(Working), NEW t \in Tx, CopiesOK(t),
         NEW r \in Run, OnlyRun(r), stored'[t] = stored[t], recorded' = recorded,
         faults <= faults',
         r \in MayStore(t)' => r \in MayStore(t),
         r \in Behind(t)' => r \in Behind(t) \/ recorded < HeightOf[t] \/ faults < faults',
         r \in Recording(t) => r \in Recording(t)' \/ faults < faults'
  PROVE  CopiesOK(t)'
<1> DEFINE n == Cardinality(MayStore(t))
           m == Cardinality(MayStore(t)')
<1>1. /\ n \in Nat /\ stored[t] \in Nat /\ faults \in Nat /\ faults' \in Nat
  BY MayStoreFinite DEF TypeOK
<1>2. m \in Nat /\ m <= n
  <2>1. MayStore(t)' \subseteq MayStore(t)
    BY OthersStay
  <2> QED
    BY <2>1, MayStoreFinite, FS_Subset, FS_CardinalityType
<1>3. recorded < HeightOf[t] \/ Behind(t) # {} => stored[t] + n <= 1 + faults
  BY DEF CopiesOK
<1>4. recorded < HeightOf[t] /\ Recording(t) = {} => stored[t] + 1 <= 1 + faults
  BY DEF CopiesOK
<1>5. stored[t] <= 1 + faults /\ stored[t] + n <= 2 + faults
  BY DEF CopiesOK
<1>6. Behind(t)' # {} => Behind(t) # {} \/ recorded < HeightOf[t] \/ faults < faults'
  BY OthersStay
<1>7. Recording(t)' = {} => Recording(t) = {} \/ faults < faults'
  BY OthersStay
<1> HIDE DEF n, m
<1>8. recorded < HeightOf[t] \/ Behind(t)' # {} => stored[t] + m <= 1 + faults'
  BY <1>1, <1>2, <1>3, <1>5, <1>6
<1>9. recorded < HeightOf[t] /\ Recording(t)' = {} => stored[t] + 1 <= 1 + faults'
  BY <1>1, <1>4, <1>5, <1>7
<1>10. stored[t] <= 1 + faults' /\ stored[t] + m <= 2 + faults'
  BY <1>1, <1>2, <1>5
<1> QED
  BY <1>8, <1>9, <1>10 DEF CopiesOK, m

\* A run that is started costs a fault unless no other run is at work.
LEMMA MoreRuns ==
  ASSUME TypeOK, TypeOK', IsFiniteSet(Working), NEW t \in Tx, CopiesOK(t),
         NEW r \in Run, Start(r)
  PROVE  CopiesOK(t)'
<1> DEFINE n == Cardinality(MayStore(t))
           m == Cardinality(MayStore(t)')
<1>1. /\ n \in Nat /\ stored[t] \in Nat /\ faults \in Nat /\ faults' \in Nat
  BY MayStoreFinite DEF TypeOK
<1>2. /\ recorded' = recorded /\ stored' = stored /\ mem' = mem
      /\ pc' = [pc EXCEPT ![r] = "load"] /\ pc[r] = "idle"
      /\ pc \in [Run -> Steps]
  BY DEF Start, GoesTo, collections, TypeOK, Steps
<1>3. Behind(t)' = Behind(t) /\ Recording(t)' = Recording(t)
  BY <1>2 DEF Behind, Recording, Passed
<1>4. MayStore(t)' = MayStore(t) \cup {r} /\ r \notin MayStore(t)
  BY <1>2, <1>3 DEF MayStore, Behind
<1>5. m = n + 1
  BY <1>4, MayStoreFinite, FS_AddElement
<1>6. recorded < HeightOf[t] \/ Behind(t) # {} => stored[t] + n <= 1 + faults
  BY DEF CopiesOK
<1>7. recorded < HeightOf[t] /\ Recording(t) = {} => stored[t] + 1 <= 1 + faults
  BY DEF CopiesOK
<1>8. stored[t] <= 1 + faults /\ stored[t] + n <= 2 + faults
  BY DEF CopiesOK
<1>9. \/ faults' = faults + 1
      \/ faults' = faults /\ n = 0 /\ Behind(t) = {} /\ Recording(t) = {}
  <2>1. CASE \E s \in Run : Active(s)
    BY <2>1 DEF Start
  <2>2. CASE ~ \E s \in Run : Active(s)
    <3>1. MayStore(t) = {} /\ Behind(t) = {} /\ Recording(t) = {}
      BY <2>2 DEF Active, MayStore, Behind, Recording
    <3> QED
      BY <2>2, <3>1, FS_EmptySet DEF Start
  <2> QED
    BY <2>1, <2>2
<1> HIDE DEF n, m
<1>10. recorded < HeightOf[t] \/ Behind(t) # {} => stored[t] + m <= 1 + faults'
  BY <1>1, <1>5, <1>6, <1>7, <1>9
<1>11. recorded < HeightOf[t] /\ Recording(t) = {} => stored[t] + 1 <= 1 + faults'
  BY <1>1, <1>7, <1>9
<1>12. stored[t] <= 1 + faults' /\ stored[t] + m <= 2 + faults'
  BY <1>1, <1>5, <1>8, <1>9
<1> QED
  BY <1>2, <1>3, <1>10, <1>11, <1>12 DEF CopiesOK, m

\* A run that stores a transfer was behind it, and has been paid for; it goes on
\* to record a height that keeps others from the transfer, or a fault ends it.
LEMMA StoresPaid ==
  ASSUME TypeOK, TypeOK', IsFiniteSet(Working), NEW t \in Tx, CopiesOK(t),
         NEW r \in Run, OnlyRun(r), stored'[t] = stored[t] + 1, recorded' = recorded,
         faults <= faults', r \in Behind(t), r \notin MayStore(t)',
         r \in Recording(t)' \/ faults < faults'
  PROVE  CopiesOK(t)'
<1> DEFINE n == Cardinality(MayStore(t))
           m == Cardinality(MayStore(t)')
<1>1. /\ n \in Nat /\ stored[t] \in Nat /\ faults \in Nat /\ faults' \in Nat
  BY MayStoreFinite DEF TypeOK
<1>2. MayStore(t)' = MayStore(t) \ {r} /\ r \in MayStore(t)
  BY OthersStay DEF MayStore
<1>3. m = n - 1 /\ m \in Nat
  <2>1. IsFiniteSet(MayStore(t)') /\ m = n - 1
    BY <1>2, MayStoreFinite, FS_RemoveElement
  <2> QED
    BY <2>1, FS_CardinalityType
<1>4. stored[t] + n <= 1 + faults
  BY DEF CopiesOK
<1>5. Recording(t)' = {} => faults < faults'
  OBVIOUS
<1> HIDE DEF n, m
<1>6. /\ stored[t] + 1 + m <= 1 + faults'
      /\ stored[t] + 1 <= 1 + faults'
      /\ stored[t] + 1 + m <= 2 + faults'
  BY <1>1, <1>3, <1>4
<1>7. Recording(t)' = {} => stored[t] + 1 + 1 <= 1 + faults'
  BY <1>1, <1>3, <1>4, <1>5
<1> QED
  BY <1>6, <1>7 DEF CopiesOK, m

\* A run that records a height keeps others from the transfers up to it; those
\* above it were still ahead of this run.
LEMMA Records ==
  ASSUME TypeOK, TypeOK', IsFiniteSet(Working), NEW t \in Tx, CopiesOK(t),
         NEW r \in Run, OnlyRun(r), stored'[t] = stored[t], faults <= faults',
         r \in MayStore(t)' => r \in MayStore(t),
         r \in Behind(t)' => r \in Behind(t),
         recorded' < HeightOf[t] => r \in Behind(t)
  PROVE  CopiesOK(t)'
<1> DEFINE n == Cardinality(MayStore(t))
           m == Cardinality(MayStore(t)')
<1>1. /\ n \in Nat /\ stored[t] \in Nat /\ faults \in Nat /\ faults' \in Nat
  BY MayStoreFinite DEF TypeOK
<1>2. m \in Nat /\ m <= n
  <2>1. MayStore(t)' \subseteq MayStore(t)
    BY OthersStay
  <2> QED
    BY <2>1, MayStoreFinite, FS_Subset, FS_CardinalityType
<1>3. Behind(t) # {} => stored[t] + n <= 1 + faults /\ n >= 1
  <2>1. Behind(t) # {} => MayStore(t) # {}
    BY DEF MayStore
  <2>2. MayStore(t) # {} => n # 0
    BY MayStoreFinite, FS_EmptySet
  <2> HIDE DEF n
  <2>3. n # 0 => n >= 1
    BY <1>1
  <2> QED
    BY <2>1, <2>2, <2>3 DEF CopiesOK, n
<1>4. Behind(t)' # {} \/ recorded' < HeightOf[t] => Behind(t) # {}
  BY OthersStay
<1>5. stored[t] <= 1 + faults /\ stored[t] + n <= 2 + faults
  BY DEF CopiesOK
<1> HIDE DEF n, m
<1>6. Behind(t) # {} => stored[t] + m <= 1 + faults' /\ stored[t] + 1 <= 1 + faults'
  BY <1>1, <1>2, <1>3
<1>7. stored[t] <= 1 + faults' /\ stored[t] + m <= 2 + faults'
  BY <1>1, <1>2, <1>5
<1> QED
  BY <1>4, <1>6, <1>7 DEF CopiesOK, m

LEMMA FetchedPageAhead ==
  ASSUME TypeOK, NEW r \in Run, FetchRest(r) \/ FetchFull(r)
  PROVE  PageAhead(r)' /\ mem'[r].cursor = mem[r].cursor
<1> mem \in [Run -> Memory]
  BY DEF TypeOK
<1>1. PICK Q \in SUBSET Tx, h \in Height :
        /\ Reads(r, Q, h)
        /\ h > mem[r].cursor
        /\ \A t \in Q : mem[r].cursor < HeightOf[t] /\ HeightOf[t] <= h
  <2>1. CASE FetchRest(r)
    <3>1. PICK k \in Replicas, h \in Height :
            /\ h \in {HeightOf[t] : t \in Ahead(r, k)}
            /\ \A t \in Ahead(r, k) : HeightOf[t] <= h
            /\ Reads(r, Ahead(r, k), h)
      BY <2>1 DEF FetchRest
    <3>2. Ahead(r, k) \in SUBSET Tx /\ \A t \in Ahead(r, k) : HeightOf[t] > mem[r].cursor
      BY DEF Ahead, View
    <3>3. h > mem[r].cursor
      BY <3>1, <3>2
    <3>4. \A t \in Ahead(r, k) : mem[r].cursor < HeightOf[t] /\ HeightOf[t] <= h
      BY <3>1, <3>2
    <3> QED
      BY <3>1, <3>2, <3>3, <3>4
  <2>2. CASE FetchFull(r)
    <3>1. PICK k \in Replicas, again \in Replicas, h \in Height :
            \E P \in FirstPages(Ahead(r, k)) :
              /\ h \in {HeightOf[t] : t \in P}
              /\ \A t \in P : HeightOf[t] <= h
              /\ Reads(r, P \cup {t \in View(again) : HeightOf[t] = h}, h)
      BY <2>2 DEF FetchFull
    <3>2. PICK P \in FirstPages(Ahead(r, k)) :
              /\ h \in {HeightOf[t] : t \in P}
              /\ \A t \in P : HeightOf[t] <= h
              /\ Reads(r, P \cup {t \in View(again) : HeightOf[t] = h}, h)
      BY <3>1
    <3> DEFINE Q == P \cup {t \in View(again) : HeightOf[t] = h}
    <3>3. \A t \in P : t \in Tx /\ HeightOf[t] > mem[r].cursor
      BY DEF FirstPages, Ahead, View
    <3>4. h > mem[r].cursor
      BY <3>2, <3>3
    <3>5. Q \in SUBSET Tx
      BY <3>3 DEF View
    <3>6. \A t \in Q : mem[r].cursor < HeightOf[t] /\ HeightOf[t] <= h
      BY <3>2, <3>3, <3>4 DEF View
    <3>7. Reads(r, Q, h)
      BY <3>2
    <3> HIDE DEF Q
    <3> QED
      BY <3>4, <3>5, <3>6, <3>7
  <2> QED
    BY <2>1, <2>2
<1>2. mem' = [mem EXCEPT ![r].page = Q, ![r].top = h]
  BY <1>1 DEF Reads
<1>3. mem'[r].cursor = mem[r].cursor /\ mem'[r].page = Q /\ mem'[r].top = h
  BY <1>2 DEF Memory
<1> QED
  BY <1>1, <1>3 DEF PageAhead

LEMMA InitCopies == Init => CopiesInv
<1> SUFFICES ASSUME Init
             PROVE  CopiesInv
  OBVIOUS
<1>1. Working = {} /\ \A r \in Run : PageAhead(r)
  BY DEF Init, Working, Active, PageAhead
<1>2. ASSUME NEW t \in Tx
      PROVE  CopiesOK(t)
  <2>1. MayStore(t) = {} /\ Behind(t) = {}
    BY DEF Init, MayStore, Behind
  <2>2. stored[t] = 0 /\ faults = 0
    BY DEF Init
  <2> QED
    BY <2>1, <2>2, FS_EmptySet DEF CopiesOK
<1> QED
  BY <1>1, <1>2, FS_EmptySet DEF CopiesInv

LEMMA RunCopies ==
  ASSUME CopiesInv, NEW r \in Run, OnlyRun(r), PageAhead(r)', \A t \in Tx : CopiesOK(t)'
  PROVE  CopiesInv'
<1>1. IsFiniteSet(Working')
  BY WorkingFinite DEF CopiesInv
<1>2. \A s \in Run \ {r} : PageAhead(s)'
  BY DEF CopiesInv, OnlyRun, PageAhead
<1> QED
  BY <1>1, <1>2 DEF CopiesInv

LEMMA CopiesInductive ==
  ASSUME TypeOK, CopiesInv, [Next]_vars
  PROVE  CopiesInv'
<1> TypeOK'
  BY TypeInductive
<1> /\ mem \in [Run -> Memory] /\ pc \in [Run -> Steps]
    /\ stored \in [Tx -> Nat] /\ faults \in Nat
  BY DEF TypeOK, Steps
<1> /\ IsFiniteSet(Working)
    /\ \A t \in Tx : CopiesOK(t)
  BY DEF CopiesInv
<1>0. \A t \in Tx : HeightOf[t] \in Nat
  BY SyncAssumption DEF SyncAssumption
\* The syncer and the operator leave the runs and what they store alone.
<1>1. CASE UNCHANGED <<pc, mem, stored, recorded, faults>>
  BY <1>1 DEF CopiesInv, CopiesOK, PageAhead, Working, Active, MayStore, Behind, Passed, Recording
<1>2. ASSUME NEW r \in Run, Start(r)
      PROVE  CopiesInv'
  <2>1. OnlyRun(r) /\ PageAhead(r)'
    BY <1>2 DEF Start, GoesTo, OnlyRun, PageAhead
  <2> QED
    BY <1>2, <2>1, MoreRuns, RunCopies
\* Steps that store nothing and record no height.
<1>3. ASSUME NEW r \in Run, LoadRecord(r) \/ LoadStaleRecord(r) \/ LoadDenoms(r)
                            \/ CheckFollowing(r) \/ FetchNothing(r) \/ FetchRest(r)
                            \/ FetchFull(r) \/ InsertDenoms(r) \/ Abandon(r)
                            \/ InsertDenomsFails(r)
      PROVE  CopiesInv'
  <2>1. UNCHANGED <<recorded, stored>>
    BY <1>3 DEF LoadRecord, LoadStaleRecord, LoadDenoms, CheckFollowing, FetchNothing,
      FetchRest, FetchFull, InsertDenoms, Abandon, InsertDenomsFails, collections
  <2>2. faults' = faults \/ faults' = faults + 1
    BY <1>3 DEF LoadRecord, LoadStaleRecord, LoadDenoms, CheckFollowing, FetchNothing,
      FetchRest, FetchFull, InsertDenoms, Abandon, InsertDenomsFails, Fails
  <2>3. OnlyRun(r)
    BY <1>3 DEF LoadRecord, LoadStaleRecord, LoadDenoms, CheckFollowing, FetchNothing,
      FetchRest, FetchFull, InsertDenoms, Abandon, InsertDenomsFails, Fails, Ends, GoesTo,
      Reads, OnlyRun
  <2>4. pc[r] # "record" \/ Abandon(r)
    BY <1>3 DEF LoadRecord, LoadStaleRecord, LoadDenoms, CheckFollowing, FetchNothing,
      FetchRest, FetchFull, InsertDenoms, InsertDenomsFails
  <2>5. ASSUME NEW t \in Tx,
               r \in MayStore(t)' => r \in MayStore(t),
               r \in Behind(t)' => r \in Behind(t) \/ recorded < HeightOf[t] \/ faults < faults'
        PROVE  CopiesOK(t)'
    <3>1. r \in Recording(t) => faults < faults'
      BY <2>4 DEF Recording, Abandon, Fails
    <3>2. faults <= faults' /\ stored'[t] = stored[t] /\ recorded' = recorded
      BY <2>1, <2>2
    <3> QED
      BY <2>3, <2>5, <3>1, <3>2, NoMoreRuns
  <2>6. CASE Ends(r)
    <3>1. pc'[r] = "idle"
      BY <2>6 DEF Ends
    <3>2. PageAhead(r)' /\ \A t \in Tx : r \notin MayStore(t)' /\ r \notin Behind(t)'
      BY <3>1 DEF PageAhead, MayStore, Behind
    <3> QED
      BY <2>3, <2>5, <3>2, RunCopies
  <2>7. CASE (LoadRecord(r) \/ LoadStaleRecord(r)) /\ ~ Ends(r)
    <3>1. pc[r] = "load" /\ pc'[r] = "loadDenoms"
      BY <2>7 DEF LoadRecord, LoadStaleRecord, GoesTo
    <3>2. PageAhead(r)' /\ \A t \in Tx : r \in MayStore(t)
      BY <3>1 DEF PageAhead, MayStore
    <3>3. mem'[r].cursor = recorded \/ faults < faults'
      BY <2>7 DEF LoadRecord, LoadStaleRecord, Memory
    <3>4. recorded \in Nat
      BY SyncAssumption DEF TypeOK, SyncAssumption
    <3>5. ASSUME NEW t \in Tx, r \in Behind(t)'
          PROVE  recorded < HeightOf[t] \/ faults < faults'
      BY <3>3, <3>4, <3>5, <1>0 DEF Behind, Passed
    <3> QED
      BY <2>3, <2>5, <3>2, <3>5, RunCopies
  <2>8. CASE ~ Ends(r) /\ ~ LoadRecord(r) /\ ~ LoadStaleRecord(r)
    <3>1. /\ pc[r] \in {"loadDenoms", "check", "fetch", "insertDenoms"}
          /\ pc'[r] \in {"check", "fetch", "insertDenoms", "insertTxs"}
      BY <1>3, <2>8 DEF LoadDenoms, CheckFollowing, FetchNothing, FetchRest, FetchFull,
        InsertDenoms, Abandon, InsertDenomsFails, Fails, GoesTo
    <3>2. mem'[r].cursor = mem[r].cursor /\ PageAhead(r)'
      <4>1. CASE FetchRest(r) \/ FetchFull(r)
        BY <4>1, FetchedPageAhead
      <4>2. CASE LoadDenoms(r) \/ CheckFollowing(r)
        BY <4>2, <2>8 DEF LoadDenoms, CheckFollowing, GoesTo, PageAhead, Memory
      <4>3. CASE InsertDenoms(r)
        <5>1. /\ pc[r] = "insertDenoms"
              /\ mem'[r].cursor = mem[r].cursor
              /\ mem'[r].page = mem[r].page
              /\ mem'[r].top = mem[r].top
          BY <4>3 DEF InsertDenoms, Memory
        <5> QED
          BY <5>1 DEF CopiesInv, PageAhead
      <4> QED
        BY <1>3, <2>8, <4>1, <4>2, <4>3 DEF FetchNothing, Abandon, InsertDenomsFails, Fails
    <3>3. ASSUME NEW t \in Tx
          PROVE  r \in Behind(t)' => r \in Behind(t)
      BY <3>1, <3>2 DEF Behind, Passed
    <3>4. ASSUME NEW t \in Tx
          PROVE  r \in MayStore(t)' => r \in MayStore(t)
      BY <3>1, <3>3 DEF MayStore
    <3> QED
      BY <2>3, <2>5, <3>2, <3>3, <3>4, RunCopies
  <2> QED
    BY <1>3, <2>6, <2>7, <2>8
<1>4. ASSUME NEW r \in Run, InsertTxs(r) \/ InsertTxsFails(r)
      PROVE  CopiesInv'
  <2>1. PICK some \in SUBSET mem[r].page :
          stored' = WithCopies(some) /\ (InsertTxs(r) => some = mem[r].page)
    BY <1>4 DEF InsertTxs, InsertTxsFails
  <2>2. recorded' = recorded /\ pc[r] = "insertTxs" /\ OnlyRun(r)
    BY <1>4 DEF InsertTxs, InsertTxsFails, Fails, Ends, GoesTo, OnlyRun
  <2>3. \/ pc'[r] = "record" /\ mem' = mem /\ faults' = faults /\ some = mem[r].page
        \/ pc'[r] = "idle" /\ faults' = faults + 1
    BY <1>4, <2>1 DEF InsertTxs, InsertTxsFails, Fails, Ends, GoesTo
  <2>4. /\ mem[r].cursor < mem[r].top
        /\ \A t \in mem[r].page : mem[r].cursor < HeightOf[t] /\ HeightOf[t] <= mem[r].top
    BY <2>2 DEF CopiesInv, PageAhead
  <2>5. PageAhead(r)'
    BY <2>3, <2>4 DEF PageAhead
  <2>6. mem[r].cursor \in Nat /\ mem[r].top \in Nat
    BY MemoryTyped, SyncAssumption DEF SyncAssumption
  <2>7. faults <= faults'
    BY <2>3
  <2>8. ASSUME NEW t \in Tx
        PROVE  CopiesOK(t)'
    <3>1. CASE t \in some
      <4>1. t \in mem[r].page
        BY <2>1, <3>1
      <4>2. mem[r].cursor < HeightOf[t] /\ HeightOf[t] <= mem[r].top
        BY <2>4, <4>1
      <4>3. r \in Behind(t)
        BY <1>0, <2>2, <2>6, <4>2 DEF Behind, Passed
      <4>4. stored'[t] = stored[t] + 1
        BY <2>1, <3>1 DEF WithCopies
      <4>5. r \notin MayStore(t)' /\ (r \in Recording(t)' \/ faults < faults')
        BY <1>0, <2>3, <2>6, <4>2 DEF MayStore, Behind, Passed, Recording
      <4> QED
        BY <2>2, <2>7, <4>3, <4>4, <4>5, StoresPaid
    <3>2. CASE t \notin some
      <4>1. stored'[t] = stored[t]
        BY <2>1, <3>2 DEF WithCopies
      <4>2. r \in Behind(t)' => r \in Behind(t)
        BY <2>2, <2>3 DEF Behind, Passed
      <4>3. r \in MayStore(t)' => r \in MayStore(t)
        BY <2>3, <4>2 DEF MayStore
      <4>4. r \notin Recording(t)
        BY <2>2 DEF Recording
      <4> QED
        BY <2>2, <2>7, <4>1, <4>2, <4>3, <4>4, NoMoreRuns
    <3> QED
      BY <3>1, <3>2
  <2> QED
    BY <2>2, <2>5, <2>8, RunCopies
<1>5. ASSUME NEW r \in Run, UpdateHeight(r) \/ UpdateHeightFails(r)
      PROVE  CopiesInv'
  <2>1. recorded' = mem[r].top /\ stored' = stored /\ pc[r] = "record"
    BY <1>5 DEF UpdateHeight, UpdateHeightFails
  <2>2. OnlyRun(r) /\ faults <= faults'
    BY <1>5 DEF UpdateHeight, UpdateHeightFails, Fails, Ends, GoesTo, OnlyRun
  <2>3. pc'[r] = "idle" \/ (pc'[r] = "check" /\ mem'[r].cursor = mem[r].top)
    BY <1>5 DEF UpdateHeight, UpdateHeightFails, Fails, Ends, GoesTo, Fresh
  <2>4. PageAhead(r)'
    BY <2>3 DEF PageAhead
  <2>5. mem[r].cursor < mem[r].top
    BY <2>1 DEF CopiesInv, PageAhead
  <2>6. mem[r].cursor \in Nat /\ mem[r].top \in Nat
    BY MemoryTyped, SyncAssumption DEF SyncAssumption
  <2>7. ASSUME NEW t \in Tx
        PROVE  CopiesOK(t)'
    <3>1. mem[r].top < HeightOf[t] => r \in Behind(t)
      BY <1>0, <2>1, <2>5, <2>6 DEF Behind, Passed
    <3>2. r \in Behind(t)' => mem[r].top < HeightOf[t]
      BY <1>0, <2>3, <2>6 DEF Behind, Passed
    <3>3. r \in MayStore(t)' => r \in MayStore(t)
      BY <2>3, <3>1, <3>2 DEF MayStore
    <3> QED
      BY <2>1, <2>2, <3>1, <3>2, <3>3, Records
  <2> QED
    BY <2>2, <2>4, <2>7, RunCopies
<1>6. ASSUME NEW h \in Height, SyncBlock(h)
      PROVE  CopiesInv'
  BY <1>1, <1>6 DEF SyncBlock, collections
<1>7. CASE Replicate \/ StartFollowing \/ FallBehind \/ Switch \/ UNCHANGED vars
  BY <1>1, <1>7 DEF Replicate, StartFollowing, FallBehind, Switch, vars, collections
<1> QED
  BY <1>2, <1>3, <1>4, <1>5, <1>6, <1>7 DEF Next, Step, Failure

\* For any transfers, page size and number of runs: every copy of a transfer
\* beyond the first has a failure, a crash, a stale read or an overlap of its own.
THEOREM CopiesNeedFaultsThm == Spec => []CopiesNeedFaults
<1>1. Init => CopiesInv
  BY InitCopies
<1>2. TypeOK /\ CopiesInv /\ [Next]_vars => CopiesInv'
  BY CopiesInductive
<1>3. CopiesInv => CopiesNeedFaults
  BY DEF CopiesInv, CopiesOK, CopiesNeedFaults
<1> QED
  BY <1>1, <1>2, <1>3, SyncTypeCorrect, PTL DEF Spec

=============================================================================

----------------------------- MODULE IbcTxProofs -----------------------------
(* The safety properties of IbcTx, for any documents and copies, any number  *)
(* of relate runs that overlap, any page sizes and any number of faults.     *)
(*                                                                           *)
(* The first part is about types.  The second says what one step may do to a *)
(* document in a collection, in the migrate task's hands and in a run's      *)
(* page; each of the properties follows with an invariant of its own.        *)
EXTENDS IbcTx, FiniteSetTheorems, TLAPS

Page == [Doc -> Entries]
Steps == {"idle", "page", "evidence", "update"}
Evidences == {"recv", "ack", "timeout"}
Known == SourceHash \cup {x.hash : x \in Denom}

-----------------------------------------------------------------------------
(* Entries and pages. *)

LEMMA NoEntryTyped == NoEntry \in Entries /\ NoPage \in Page
BY DEF Entries, NoPage, Page

LEMMA EntryTyped ==
  ASSUME NEW e \in Entries
  PROVE  /\ e.info \in SUBSET {"dc", "ack"}
         /\ e # NoEntry => e \in Entry
         /\ e.status \in {"Setting", "Processing", "Success", "Refunded"} <=> e # NoEntry
         /\ e.status = "absent" <=> e = NoEntry
BY DEF Entries, Entry, NoEntry

\* An entry whose status or details are set is an entry.
LEMMA SetTyped ==
  ASSUME NEW e \in Entry, NEW i \in SUBSET {"dc", "ack"},
         NEW st \in {"Setting", "Processing", "Success", "Refunded"}
  PROVE  /\ [e EXCEPT !.status = st] \in Entry
         /\ [e EXCEPT !.info = i] \in Entry
         /\ [e EXCEPT !.status = st].status = st
         /\ [e EXCEPT !.status = st].info = e.info
         /\ [e EXCEPT !.info = i].status = e.status
         /\ [e EXCEPT !.info = i].info = i
         /\ [e EXCEPT !.status = st] # NoEntry
         /\ [e EXCEPT !.info = i] # NoEntry
BY DEF Entry, NoEntry

LEMMA LoadTyped ==
  ASSUME NEW d, NEW e \in Entries, NEW seen
  PROVE  Load(d, e, seen) \in Entries
<1>1. e.info \in SUBSET {"dc", "ack"}
  BY EntryTyped
<1>2. \A st \in {"Success", "Refunded"} : \A i \in SUBSET {"dc", "ack"} :
        [status |-> st, info |-> i] \in Entries
  BY DEF Entries, Entry
<1>3. /\ e.info \cup {"dc"} \cup (seen \cap {"ack"}) \in SUBSET {"dc", "ack"}
      /\ {"dc", "ack"} \in SUBSET {"dc", "ack"}
      /\ e.info \cup {"ack"} \cup {i \in {"dc"} : "recv" \in seen} \in SUBSET {"dc", "ack"}
  BY <1>1
<1> DEFINE Ok == Outcome(d) = "ok" /\ "recv" \in seen
           Err == Outcome(d) = "error" /\ {"recv", "ack"} \subseteq seen
           Late == Outcome(d) = "timeout" /\ "timeout" \in seen
<1>4. CASE Ok
  BY <1>2, <1>3, <1>4 DEF Load
<1>5. CASE Err
  BY <1>2, <1>3, <1>5 DEF Load
<1>6. CASE Late
  BY <1>2, <1>3, <1>6 DEF Load, LoadTimeoutPacketTx
<1>7. CASE ~ Ok /\ ~ Err /\ ~ Late
  BY <1>7 DEF Load
<1> QED
  BY <1>4, <1>5, <1>6, <1>7

LEMMA PagesOfDbTyped ==
  ASSUME TypeOK, NEW c \in Coll
  PROVE  /\ db[c] \in Page
         /\ \A S : [d \in Doc |-> IF d \in S THEN db[c][d] ELSE NoEntry] \in Page
         /\ \A S : [d \in Doc |-> IF d \in S THEN NoEntry ELSE db[c][d]] \in Page
         /\ Joined(c) \in Page
<1>1. db[c] \in Page
  BY DEF TypeOK, Page
<1>2. ASSUME NEW d \in Doc, db[c][d].status \in {"Setting", "Processing"}
      PROVE  [db[c][d] EXCEPT !.status = "Processing"] \in Entries
  <2>1. db[c][d] \in Entry
    BY <1>1, <1>2, EntryTyped DEF Page
  <2> QED
    BY <2>1, SetTyped DEF Entries
<1>3. Joined(c) \in Page
  BY <1>1, <1>2 DEF Joined, Page
<1> QED
  BY <1>1, <1>3, NoEntryTyped DEF Page

LEMMA OldTyped ==
  ASSUME TypeOK, NEW c \in Coll, NEW statuses, NEW page \in Old(c, statuses)
  PROVE  page \in Page
<1>1. \A x \in past[c] : x[2] \in Entries
  BY DEF TypeOK
<1> QED
  BY <1>1, NoEntryTyped DEF Old, Page

\* A set of documents is finite, and so is a page.
LEMMA DocsFinite ==
  ASSUME NEW S \in SUBSET Doc
  PROVE  Cardinality(S) \in Nat
BY FS_Subset, FS_CardinalityType, IbcTxAssumption DEF IbcTxAssumption

-----------------------------------------------------------------------------
(* The collections. *)

DbTyped ==
  /\ db \in [Coll -> Page]
  /\ past \in [Coll -> SUBSET (Doc \X Entries)]

LEMMA WriteTyped ==
  ASSUME TypeOK, NEW c \in Coll, NEW new \in Page, Write(c, new)
  PROVE  DbTyped'
<1>1. db' \in [Coll -> Page]
  BY DEF TypeOK, Write, Page
<1>2. {<<d, new[d]>> : d \in Docs(new)} \in SUBSET (Doc \X Entries)
  BY DEF Page, Docs
<1>3. past' \in [Coll -> SUBSET (Doc \X Entries)]
  BY <1>2 DEF TypeOK, Write
<1> QED
  BY <1>1, <1>3 DEF DbTyped

-----------------------------------------------------------------------------
(* What a relate run keeps. *)

RelateTyped ==
  /\ pc \in [Relate -> Steps]
  /\ mem \in [Relate -> Memory]
  /\ misled \subseteq Relate

LEMMA FreshTyped == Fresh \in Memory
BY NoEntryTyped DEF Fresh, Memory, Page

LEMMA MemoryTyped ==
  ASSUME TypeOK, NEW r \in Relate
  PROVE  /\ mem[r].page \in Page
         /\ mem[r].total \in Nat
         /\ mem[r].next \in {"page", "idle"}
         /\ mem[r].known \in SUBSET Known
         /\ mem[r].fresh \in SUBSET Denom
         /\ Target[r] \in Coll
BY IbcTxAssumption DEF IbcTxAssumption, TypeOK, Memory, Page, Known

LEMMA TakenTyped ==
  ASSUME NEW F \in [Relate -> Memory], NEW r \in Relate, NEW page \in Page,
         NEW n \in Nat, NEW x \in {"page", "idle"}
  PROVE  [F EXCEPT ![r].page = page, ![r].total = n, ![r].next = x] \in [Relate -> Memory]
BY DEF Memory, Page

LEMMA HandledTyped ==
  ASSUME NEW F \in [Relate -> Memory], NEW r \in Relate, NEW page \in Page,
         NEW D \in SUBSET Denom
  PROVE  [F EXCEPT ![r].page = page, ![r].fresh = D,
                   ![r].known = @ \cup {x.hash : x \in D}] \in [Relate -> Memory]
BY DEF Memory, Page

LEMMA DoneTyped ==
  ASSUME NEW F \in [Relate -> Memory], NEW r \in Relate, NEW d \in Doc
  PROVE  [F EXCEPT ![r].page[d] = NoEntry] \in [Relate -> Memory]
BY NoEntryTyped DEF Memory, Page

LEMMA GoneOnTyped ==
  ASSUME NEW F \in [Relate -> Memory], NEW r \in Relate
  PROVE  [F EXCEPT ![r].fresh = {}] \in [Relate -> Memory]
BY DEF Memory

LEMMA EndsTyped ==
  ASSUME TypeOK, NEW r \in Relate, Ends(r)
  PROVE  RelateTyped'
BY FreshTyped DEF TypeOK, RelateTyped, Ends, Steps

LEMMA TakesPageTyped ==
  ASSUME TypeOK, NEW r \in Relate, NEW page \in Page, TakesPage(r, page)
  PROVE  pc' \in [Relate -> Steps] /\ mem' \in [Relate -> Memory]
<1> DEFINE size == Cardinality(Docs(page))
           total == mem[r].total + size
           next == IF size < PageLimit \/ total >= MaxRelate THEN "idle" ELSE "page"
<1>1. total \in Nat
  BY DocsFinite, MemoryTyped DEF Docs
<1>2. next \in {"page", "idle"}
  OBVIOUS
<1>3. mem' = [mem EXCEPT ![r].page = page, ![r].total = total, ![r].next = next]
  BY DEF TakesPage
<1> HIDE DEF total, next
<1>4. mem' \in [Relate -> Memory]
  BY <1>1, <1>2, <1>3, TakenTyped DEF TypeOK
<1>5. pc' \in [Relate -> Steps]
  BY DEF TypeOK, TakesPage, Steps
<1> QED
  BY <1>4, <1>5

LEMMA ReadsPageTyped ==
  ASSUME TypeOK, NEW r \in Relate, ReadsPage(r)
  PROVE  RelateTyped'
<1>1. PICK S \in SUBSET InStatus(Target[r], {"Processing"}) :
        IF S = {} THEN Ends(r)
        ELSE /\ TakesPage(r, [d \in Doc |-> IF d \in S THEN db[Target[r]][d] ELSE NoEntry])
             /\ misled' = misled \cup {s \in Rivals(r) \cup {r} : Overlaps(r)}
  BY DEF ReadsPage, ReadsFrom
<1>2. CASE S = {}
  BY <1>1, <1>2, EndsTyped
<1>3. CASE S # {}
  <2>1. TakesPage(r, [d \in Doc |-> IF d \in S THEN db[Target[r]][d] ELSE NoEntry])
    BY <1>1, <1>3
  <2>2. [d \in Doc |-> IF d \in S THEN db[Target[r]][d] ELSE NoEntry] \in Page
    BY PagesOfDbTyped, MemoryTyped
  <2>3. pc' \in [Relate -> Steps] /\ mem' \in [Relate -> Memory]
    BY <2>1, <2>2, TakesPageTyped
  <2>4. misled' \subseteq Relate
    BY <1>1, <1>3 DEF TypeOK, Rivals
  <2> QED
    BY <2>3, <2>4 DEF RelateTyped
<1> QED
  BY <1>2, <1>3

LEMMA BroughtTyped ==
  ASSUME NEW page, NEW known, NEW F \in Choose(page, known)
  PROVE  F \in SUBSET Brought(page) /\ F \in SUBSET Denom
BY DEF Choose, Brought, Denom

LEMMA HandlesTyped ==
  ASSUME TypeOK, NEW r \in Relate, NEW seen, Handles(r, seen)
  PROVE  RelateTyped'
<1> DEFINE page == [d \in Doc |-> IF mem[r].page[d] = NoEntry THEN NoEntry
                                  ELSE Load(d, mem[r].page[d], seen[KeyOf[d]])]
<1>1. page \in Page
  BY MemoryTyped, LoadTyped, NoEntryTyped DEF Page
<1>2. PICK F \in Choose(page, mem[r].known) :
        mem' = [mem EXCEPT ![r].page = page, ![r].fresh = F,
                           ![r].known = @ \cup {x.hash : x \in F}]
  BY DEF Handles
<1> HIDE DEF page
<1>3. F \in SUBSET Denom
  BY <1>2, BroughtTyped
<1>4. mem' \in [Relate -> Memory]
  BY <1>1, <1>2, <1>3, HandledTyped DEF TypeOK
<1>5. pc' \in [Relate -> Steps] /\ misled' \subseteq Relate
  BY DEF TypeOK, Handles, Steps
<1> QED
  BY <1>4, <1>5 DEF RelateTyped

LEMMA GoesOnTyped ==
  ASSUME TypeOK, NEW r \in Relate, GoesOn(r)
  PROVE  RelateTyped'
<1>1. CASE mem[r].next = "idle"
  BY <1>1, EndsTyped DEF GoesOn
<1>2. CASE mem[r].next # "idle"
  BY <1>2, GoneOnTyped DEF GoesOn, TypeOK, RelateTyped, Steps
<1> QED
  BY <1>1, <1>2

LEMMA DoneRunTyped ==
  ASSUME TypeOK, NEW r \in Relate, NEW d \in Doc, Done(r, d)
  PROVE  RelateTyped'
BY DoneTyped DEF TypeOK, Done, RelateTyped, Steps

-----------------------------------------------------------------------------
(* The migrate task. *)

MigrateTyped ==
  /\ stage \in {"find", "count", "insert", "delete"}
  /\ loop \in {"setting", "normal"}
  /\ left \in Nat
  /\ carried \in Page

LEMMA LeavesLoopTyped ==
  ASSUME TypeOK, LeavesLoop, carried' \in Page
  PROVE  MigrateTyped'
BY DEF TypeOK, LeavesLoop, Ended, MigrateTyped

LEMMA CarriesTyped ==
  ASSUME TypeOK, NEW page \in Page, Carries(page)
  PROVE  MigrateTyped' /\ missed' \subseteq Doc
<1>1. carried' \in Page /\ missed' \subseteq Doc
  BY DEF TypeOK, Carries, Docs
<1>2. CASE page = NoPage
  BY <1>1, <1>2, LeavesLoopTyped DEF Carries
<1>3. CASE page # NoPage
  BY <1>1, <1>3 DEF TypeOK, Carries, MigrateTyped
<1> QED
  BY <1>1, <1>2, <1>3

LEMMA NextBatchTyped ==
  ASSUME TypeOK, NextBatch
  PROVE  MigrateTyped'
<1>1. carried' \in Page
  BY NoEntryTyped DEF NextBatch
<1>2. CASE Cardinality(Docs(carried)) = MigrateLimit /\ (loop = "normal" => left > 1)
  <2>1. left' = IF loop = "normal" THEN left - 1 ELSE left
    BY <1>2 DEF NextBatch
  <2>2. left' \in Nat
    BY <1>2, <2>1 DEF TypeOK
  <2> QED
    BY <1>1, <1>2, <2>2 DEF TypeOK, NextBatch, MigrateTyped
<1>3. CASE ~ (Cardinality(Docs(carried)) = MigrateLimit /\ (loop = "normal" => left > 1))
  BY <1>1, <1>3, LeavesLoopTyped DEF NextBatch
<1> QED
  BY <1>2, <1>3

LEMMA ArrivedTyped ==
  ASSUME TypeOK, NEW S
  PROVE  Arrived(S) \in Page /\ Without(S) \in Page
BY PagesOfDbTyped, NoEntryTyped DEF TypeOK, Arrived, Without, Page, Coll

-----------------------------------------------------------------------------
(* The rest, and all of it. *)

RestTyped ==
  /\ facts \in [Key -> SUBSET Evidences]
  /\ synced \subseteq Doc
  /\ added \subseteq Coll
  /\ denoms \subseteq Denom
  /\ fixing \in [{"dc", "ack"} -> Doc \cup {NoDoc}]
  /\ missed \subseteq Doc
  /\ lost \subseteq Denom
  /\ faults \in 0 .. MaxFaults

FlagsTyped == configured \in BOOLEAN /\ mapped \in BOOLEAN

Parts == DbTyped /\ RelateTyped /\ MigrateTyped /\ RestTyped /\ FlagsTyped

LEMMA PartsOfTypeOK == TypeOK => Parts
<1> SUFFICES ASSUME TypeOK
             PROVE  Parts
  OBVIOUS
<1>1. DbTyped
  BY DEF TypeOK, DbTyped, Page
<1>2. RelateTyped
  BY DEF TypeOK, RelateTyped, Steps
<1>3. MigrateTyped
  BY DEF TypeOK, MigrateTyped, Page
<1>4. RestTyped
  BY DEF TypeOK, RestTyped, Evidences
<1>5. FlagsTyped
  BY DEF TypeOK, FlagsTyped
<1> QED
  BY <1>1, <1>2, <1>3, <1>4, <1>5 DEF Parts

LEMMA TypeOKOfParts == Parts => TypeOK
<1> SUFFICES ASSUME Parts
             PROVE  TypeOK
  OBVIOUS
<1>1. /\ db \in [Coll -> [Doc -> Entries]]
      /\ past \in [Coll -> SUBSET (Doc \X Entries)]
      /\ carried \in [Doc -> Entries]
      /\ pc \in [Relate -> {"idle", "page", "evidence", "update"}]
      /\ facts \in [Key -> SUBSET {"recv", "ack", "timeout"}]
  BY DEF Parts, DbTyped, MigrateTyped, RelateTyped, RestTyped, Page, Steps, Evidences
<1> QED
  BY <1>1, Zenon DEF Parts, RelateTyped, MigrateTyped, RestTyped, FlagsTyped, TypeOK

LEMMA NextTypeOKOfParts == Parts' => TypeOK'
BY TypeOKOfParts, PTL

LEMMA InitTyped == Init => TypeOK
<1> SUFFICES ASSUME Init
             PROVE  Parts
  BY TypeOKOfParts
<1>1. DbTyped
  BY NoEntryTyped DEF Init, DbTyped
<1>2. RelateTyped
  BY FreshTyped DEF Init, RelateTyped, Steps
<1>3. MigrateTyped
  BY NoEntryTyped DEF Init, MigrateTyped
<1>4. RestTyped
  BY IbcTxAssumption DEF IbcTxAssumption, Init, RestTyped, Evidences
<1>5. FlagsTyped
  BY DEF Init, FlagsTyped
<1> QED
  BY <1>1, <1>2, <1>3, <1>4, <1>5 DEF Parts

\* What the actions leave alone stays typed.
LEMMA UnchangedDbTyped ==
  ASSUME TypeOK, UNCHANGED <<db, past>>
  PROVE  DbTyped'
BY PartsOfTypeOK DEF Parts, DbTyped

LEMMA UnchangedRelateTyped ==
  ASSUME TypeOK, UNCHANGED relate
  PROVE  RelateTyped'
BY PartsOfTypeOK DEF Parts, RelateTyped, relate

LEMMA UnchangedMigrateTyped ==
  ASSUME TypeOK, UNCHANGED migrate
  PROVE  MigrateTyped'
BY PartsOfTypeOK DEF Parts, MigrateTyped, migrate

LEMMA UnchangedFlagsTyped ==
  ASSUME TypeOK, UNCHANGED <<configured, mapped>>
  PROVE  FlagsTyped'
BY PartsOfTypeOK DEF Parts, FlagsTyped

LEMMA FaultTyped ==
  ASSUME TypeOK, Fault
  PROVE  faults' \in 0 .. MaxFaults
BY IbcTxAssumption DEF IbcTxAssumption, TypeOK, Fault

-----------------------------------------------------------------------------
(* The actions. *)

LEMMA OutsideTyped ==
  ASSUME TypeOK, ChainStep \/ Configure \/ ReadChains
  PROVE  TypeOK'
<1>1. DbTyped' /\ RelateTyped' /\ MigrateTyped'
  BY UnchangedDbTyped, UnchangedRelateTyped, UnchangedMigrateTyped
  DEF ChainStep, Configure, ReadChains, collections
<1>2. UNCHANGED <<synced, added, denoms, fixing, missed, lost, faults>>
  BY DEF ChainStep, Configure, ReadChains, collections
<1>3. facts' \in [Key -> SUBSET Evidences]
  BY DEF TypeOK, ChainStep, Configure, ReadChains, Evidence, Evidences
<1>4. RestTyped'
  BY <1>2, <1>3, PartsOfTypeOK DEF Parts, RestTyped
<1>5. FlagsTyped'
  <2>1. CASE ChainStep
    BY <2>1, UnchangedFlagsTyped DEF ChainStep
  <2>2. CASE Configure
    BY <2>2 DEF TypeOK, Configure, FlagsTyped
  <2>3. CASE ReadChains
    BY <2>3 DEF TypeOK, ReadChains, FlagsTyped
  <2> QED
    BY <2>1, <2>2, <2>3
<1> QED
  BY <1>1, <1>4, <1>5, NextTypeOKOfParts DEF Parts

LEMMA StoreTyped ==
  ASSUME TypeOK, NEW d \in Doc, Store(d)
  PROVE  TypeOK'
<1>1. [status |-> FirstStatus(d), info |-> {}] \in Entries
  BY DEF FirstStatus, Entries, Entry
<1>2. [db["latest"] EXCEPT ![d] = [status |-> FirstStatus(d), info |-> {}]] \in Page
  BY <1>1, PagesOfDbTyped DEF Page, Coll
<1>3. DbTyped'
  BY <1>2, WriteTyped DEF Store, Coll
<1>4. RelateTyped' /\ MigrateTyped' /\ FlagsTyped'
  BY UnchangedRelateTyped, UnchangedMigrateTyped, UnchangedFlagsTyped DEF Store
<1>5. RestTyped'
  BY PartsOfTypeOK DEF Parts, RestTyped, Store
<1> QED
  BY <1>3, <1>4, <1>5, NextTypeOKOfParts DEF Parts

LEMMA AddNewChainTyped ==
  ASSUME TypeOK, NEW c \in Coll, AddNewChainUpdate(c)
  PROVE  TypeOK'
<1>1. DbTyped'
  BY PagesOfDbTyped, WriteTyped DEF AddNewChainUpdate
<1>2. RelateTyped' /\ MigrateTyped' /\ FlagsTyped'
  BY UnchangedRelateTyped, UnchangedMigrateTyped, UnchangedFlagsTyped DEF AddNewChainUpdate
<1>3. RestTyped'
  BY PartsOfTypeOK DEF Parts, RestTyped, AddNewChainUpdate, Docs
<1> QED
  BY <1>1, <1>2, <1>3, NextTypeOKOfParts DEF Parts

\* The steps of a relate run that write nothing.
LEMMA RelateReadsTyped ==
  ASSUME TypeOK, NEW r \in Relate,
         RelateStart(r) \/ RelateOverlap(r) \/ RelatePage(r) \/ RelateStalePage(r)
           \/ RelateEvidence(r) \/ RelateBlind(r) \/ UpdateIbcTxFails(r) \/ RelateAbandon(r)
  PROVE  TypeOK'
<1> USE DEF RelateStart, RelateOverlap, RelatePage, RelateStalePage, RelateEvidence,
            RelateBlind, UpdateIbcTxFails, RelateAbandon
<1>1. DbTyped' /\ MigrateTyped' /\ FlagsTyped'
  BY UnchangedDbTyped, UnchangedMigrateTyped, UnchangedFlagsTyped DEF collections, outside
<1>2. RelateTyped'
  <2>1. CASE RelateStart(r) \/ RelateOverlap(r) \/ RelatePage(r)
    BY <2>1, ReadsPageTyped
  <2>2. CASE RelateStalePage(r)
    <3>1. PICK page \in Old(Target[r], {"Processing"}) : TakesPage(r, page)
      BY <2>2
    <3>2. page \in Page
      BY <3>1, OldTyped, MemoryTyped
    <3>3. pc' \in [Relate -> Steps] /\ mem' \in [Relate -> Memory]
      BY <3>1, <3>2, TakesPageTyped
    <3>4. misled' \subseteq Relate
      BY <2>2 DEF TypeOK, Rivals
    <3> QED
      BY <3>3, <3>4 DEF RelateTyped
  <2>3. CASE RelateEvidence(r) \/ RelateBlind(r)
    BY <2>3, HandlesTyped
  <2>4. CASE UpdateIbcTxFails(r)
    BY <2>4, DoneRunTyped DEF Docs
  <2>5. CASE RelateAbandon(r)
    BY <2>5, EndsTyped
  <2> QED
    BY <2>1, <2>2, <2>3, <2>4, <2>5
<1>3. faults' \in 0 .. MaxFaults /\ lost' \subseteq Denom
  <2>1. mem[r].fresh \subseteq Denom
    BY MemoryTyped
  <2> QED
    BY <2>1, FaultTyped DEF TypeOK
<1>4. UNCHANGED <<facts, synced, added, denoms, fixing, missed>>
  BY DEF outside, collections
<1>5. RestTyped'
  BY <1>3, <1>4, PartsOfTypeOK DEF Parts, RestTyped
<1> QED
  BY <1>1, <1>2, <1>5, NextTypeOKOfParts DEF Parts

LEMMA UpdateIbcTxTyped ==
  ASSUME TypeOK, NEW r \in Relate, UpdateIbcTx(r)
  PROVE  TypeOK'
<1>1. PICK d \in Docs(mem[r].page) :
        /\ IF d \in Stored(Target[r])
             THEN Write(Target[r], [db[Target[r]] EXCEPT ![d] = mem[r].page[d]])
             ELSE UNCHANGED <<db, past>>
        /\ Done(r, d)
  BY DEF UpdateIbcTx
<1>2. d \in Doc /\ mem[r].page[d] \in Entries /\ Target[r] \in Coll
  BY <1>1, MemoryTyped DEF Docs, Page
<1>3. [db[Target[r]] EXCEPT ![d] = mem[r].page[d]] \in Page
  BY <1>2, PagesOfDbTyped DEF Page
<1>4. DbTyped'
  <2>1. CASE d \in Stored(Target[r])
    BY <1>1, <1>2, <1>3, <2>1, WriteTyped
  <2>2. CASE d \notin Stored(Target[r])
    BY <1>1, <2>2, UnchangedDbTyped
  <2> QED
    BY <2>1, <2>2
<1>5. RelateTyped'
  BY <1>1, <1>2, DoneRunTyped
<1>6. MigrateTyped' /\ FlagsTyped'
  BY UnchangedMigrateTyped, UnchangedFlagsTyped DEF UpdateIbcTx, outside
<1>7. RestTyped'
  BY PartsOfTypeOK DEF Parts, RestTyped, UpdateIbcTx, outside
<1> QED
  BY <1>4, <1>5, <1>6, <1>7, NextTypeOKOfParts DEF Parts

LEMMA AddDenomsTyped ==
  ASSUME TypeOK, NEW r \in Relate, AddDenoms(r) \/ AddDenomsFails(r)
  PROVE  TypeOK'
<1> USE DEF AddDenoms, AddDenomsFails
<1>1. DbTyped' /\ MigrateTyped' /\ FlagsTyped'
  BY UnchangedDbTyped, UnchangedMigrateTyped, UnchangedFlagsTyped DEF outside
<1>2. RelateTyped'
  BY GoesOnTyped
<1>3. mem[r].fresh \subseteq Denom
  BY MemoryTyped
<1>4. denoms' \subseteq Denom /\ lost' \subseteq Denom
  BY <1>3 DEF TypeOK
<1>5. faults' \in 0 .. MaxFaults
  BY FaultTyped DEF TypeOK
<1>6. UNCHANGED <<facts, synced, added, fixing, missed>>
  BY DEF outside
<1>7. RestTyped'
  BY <1>4, <1>5, <1>6, PartsOfTypeOK DEF Parts, RestTyped
<1> QED
  BY <1>1, <1>2, <1>7, NextTypeOKOfParts DEF Parts

LEMMA MigrateStepTyped ==
  ASSUME TypeOK, Migrate \/ MigrateFailure
  PROVE  TypeOK'
<1> USE DEF FindByStatus, CountNormal, InsertBatchHistory, DelBatch, FindStaleByStatus,
            InsertHistoryFails, DelBatchFails, MigrateAbandon
<1>1. RelateTyped' /\ FlagsTyped'
  BY UnchangedRelateTyped, UnchangedFlagsTyped DEF Migrate, MigrateFailure, outside
<1>2. DbTyped'
  <2>1. ASSUME NEW c \in Coll, NEW S, Write("history", Arrived(S)) \/ Write("latest", Without(S))
        PROVE  DbTyped'
    BY <2>1, ArrivedTyped, WriteTyped DEF Coll
  <2>2. CASE FindByStatus \/ CountNormal \/ FindStaleByStatus \/ MigrateAbandon
    BY <2>2, UnchangedDbTyped DEF collections
  <2>3. CASE InsertBatchHistory \/ InsertHistoryFails \/ DelBatch \/ DelBatchFails
    BY <2>1, <2>3 DEF Coll
  <2> QED
    BY <2>2, <2>3 DEF Migrate, MigrateFailure
<1>3. MigrateTyped' /\ missed' \subseteq Doc
  <2>1. CASE FindByStatus
    <3>1. PICK S : Carries([d \in Doc |-> IF d \in S THEN db["latest"][d] ELSE NoEntry])
      BY <2>1
    <3> QED
      BY <3>1, PagesOfDbTyped, CarriesTyped DEF Coll
  <2>2. CASE FindStaleByStatus
    BY <2>2, OldTyped, CarriesTyped DEF Coll
  <2>3. CASE CountNormal
    <3>1. UNCHANGED <<carried, missed>>
      BY <2>3
    <3> DEFINE normal == Cardinality(InStatus("latest", Normal))
    <3>2. CASE normal >= Keep + MigrateLimit
      <4>1. normal \in Nat
        BY DocsFinite DEF InStatus
      <4>2. left' = (normal - Keep) \div MigrateLimit /\ stage' = "find" /\ loop' = "normal"
        BY <2>3, <3>2
      <4> HIDE DEF normal
      <4>3. normal - Keep \in Nat /\ MigrateLimit \in Nat \ {0}
        BY <3>2, <4>1, IbcTxAssumption DEF IbcTxAssumption
      <4>4. left' \in Nat
        BY <4>2, <4>3
      <4> QED
        BY <3>1, <4>2, <4>4 DEF TypeOK, MigrateTyped, Page
    <3>3. CASE ~ (normal >= Keep + MigrateLimit)
      BY <2>3, <3>1, <3>3 DEF TypeOK, MigrateTyped, Ended, Page
    <3> QED
      BY <3>2, <3>3
  <2>4. CASE InsertBatchHistory
    BY <2>4 DEF TypeOK, MigrateTyped, Page
  <2>5. CASE InsertHistoryFails \/ DelBatchFails
    BY <2>5, NoEntryTyped, LeavesLoopTyped DEF TypeOK
  <2>6. CASE DelBatch
    BY <2>6, NextBatchTyped DEF TypeOK
  <2>7. CASE MigrateAbandon
    BY <2>7, NoEntryTyped DEF TypeOK, Ended, MigrateTyped
  <2> QED
    BY <2>1, <2>2, <2>3, <2>4, <2>5, <2>6, <2>7 DEF Migrate, MigrateFailure
<1>4. faults' \in 0 .. MaxFaults
  BY FaultTyped DEF TypeOK, Migrate, MigrateFailure
<1>5. UNCHANGED <<facts, synced, added, denoms, fixing, lost>>
  BY DEF Migrate, MigrateFailure, outside, collections
<1>6. RestTyped'
  BY <1>3, <1>4, <1>5, PartsOfTypeOK DEF Parts, RestTyped
<1> QED
  BY <1>1, <1>2, <1>3, <1>6, NextTypeOKOfParts DEF Parts

LEMMA FixingTyped ==
  ASSUME TypeOK, NEW f \in {"dc", "ack"}, FindIncomplete(f) \/ Complete(f)
  PROVE  TypeOK'
<1> USE DEF FindIncomplete, Complete
<1>1. RelateTyped' /\ MigrateTyped' /\ FlagsTyped'
  BY UnchangedRelateTyped, UnchangedMigrateTyped, UnchangedFlagsTyped DEF outside
<1>2. DbTyped'
  <2>1. CASE UNCHANGED <<db, past>>
    BY <2>1, UnchangedDbTyped
  <2>2. CASE ~ UNCHANGED <<db, past>>
    <3> DEFINE d == fixing[f]
               new == [db["latest"] EXCEPT ![d].info = @ \cup {f}]
    <3>1. d \in Stored("latest") /\ Write("latest", new)
      BY <2>2 DEF collections
    <3>2. d \in Doc /\ db["latest"][d] \in Entry
      BY <3>1, EntryTyped, PagesOfDbTyped DEF Stored, Page, Coll
    <3>3. db["latest"][d].info \cup {f} \in SUBSET {"dc", "ack"}
      BY <3>2 DEF Entry
    <3>4. [db["latest"][d] EXCEPT !.info = @ \cup {f}] \in Entries
      BY <3>2, <3>3, SetTyped DEF Entries
    <3>5. new \in Page
      BY <3>2, <3>4, PagesOfDbTyped DEF Page, Coll
    <3> QED
      BY <3>1, <3>5, WriteTyped DEF Coll
  <2> QED
    BY <2>1, <2>2
<1>3. fixing' \in [{"dc", "ack"} -> Doc \cup {NoDoc}]
  BY DEF TypeOK, Incomplete, InStatus
<1>4. UNCHANGED <<facts, synced, added, denoms, missed, lost, faults>>
  BY DEF outside, collections
<1>5. RestTyped'
  BY <1>3, <1>4, PartsOfTypeOK DEF Parts, RestTyped
<1> QED
  BY <1>1, <1>2, <1>5, NextTypeOKOfParts DEF Parts

LEMMA TypeInductive ==
  ASSUME TypeOK, [Next]_vars
  PROVE  TypeOK'
<1>1. CASE UNCHANGED vars
  <2>1. DbTyped' /\ RelateTyped' /\ MigrateTyped' /\ FlagsTyped'
    BY <1>1, UnchangedDbTyped, UnchangedRelateTyped, UnchangedMigrateTyped, UnchangedFlagsTyped
    DEF vars, relate, migrate
  <2>2. RestTyped'
    BY <1>1, PartsOfTypeOK DEF vars, Parts, RestTyped
  <2> QED
    BY <2>1, <2>2, NextTypeOKOfParts DEF Parts
<1>2. ASSUME NEW r \in Relate, RelateStart(r) \/ RelateStep(r) \/ RelateFailure(r)
      PROVE  TypeOK'
  BY <1>2, RelateReadsTyped, UpdateIbcTxTyped, AddDenomsTyped DEF RelateStep, RelateFailure
<1> QED
  BY <1>1, <1>2, OutsideTyped, StoreTyped, AddNewChainTyped, MigrateStepTyped, FixingTyped
  DEF Next

\* The state is always well typed.
THEOREM IbcTxTypeCorrect == Spec => []TypeOK
BY InitTyped, TypeInductive, PTL DEF Spec

-----------------------------------------------------------------------------
(* What a step does to a document in a collection. *)

IsStored(c, d) ==
  Store(d) /\ c = "latest" /\ db'[c][d] = [status |-> FirstStatus(d), info |-> {}]

IsJoined(c, d) ==
  /\ AddNewChainUpdate(c) /\ d \in ToNewChain
  /\ db[c][d].status \in {"Setting", "Processing"}
  /\ db'[c][d] = [db[c][d] EXCEPT !.status = "Processing"]

IsUpdated(c, d) ==
  \E r \in Relate : /\ UpdateIbcTx(r) /\ Target[r] = c
                    /\ d \in Docs(mem[r].page) /\ d \in Stored(c)
                    /\ db'[c][d] = mem[r].page[d] /\ mem'[r].page[d] = NoEntry

IsMoved(c, d) ==
  /\ InsertBatchHistory \/ InsertHistoryFails
  /\ c = "history" /\ d \in Docs(carried) /\ KeyOf[d] \notin KeysOf(Stored("history"))
  /\ db'[c][d] = carried[d]

IsDeleted(c, d) ==
  /\ DelBatch \/ DelBatchFails
  /\ c = "latest" /\ d \in Docs(carried) /\ db'[c][d] = NoEntry

IsCompleted(c, d) ==
  /\ c = "latest" /\ d \in Stored(c)
  /\ \E f \in {"dc", "ack"} :
       Complete(f) /\ db'[c][d] = [db[c][d] EXCEPT !.info = @ \cup {f}]

LEMMA WriteEntries ==
  ASSUME TypeOK, NEW c \in Coll, NEW new, Write(c, new)
  PROVE  db'[c] = new /\ \A x \in Coll \ {c} : db'[x] = db[x]
BY DEF TypeOK, Write

\* A document is only ever changed in one of six ways.
LEMMA EntryStep ==
  ASSUME TypeOK, [Next]_vars, NEW c \in Coll, NEW d \in Doc, db'[c][d] # db[c][d]
  PROVE  \/ IsStored(c, d) \/ IsJoined(c, d) \/ IsUpdated(c, d)
         \/ IsMoved(c, d) \/ IsDeleted(c, d) \/ IsCompleted(c, d)
<1>1. ASSUME NEW e \in Doc, Store(e)
      PROVE  IsStored(c, d)
  <2> DEFINE new == [db["latest"] EXCEPT ![e] = [status |-> FirstStatus(e), info |-> {}]]
  <2>1. new \in Page
    BY PagesOfDbTyped DEF FirstStatus, Page, Coll, Entries, Entry
  <2>2. Write("latest", new)
    BY <1>1 DEF Store
  <2>3. db'["latest"] = new /\ db'["history"] = db["history"]
    BY <2>1, <2>2, WriteEntries DEF Coll
  <2>4. db["latest"] \in Page
    BY PagesOfDbTyped DEF Coll
  <2> QED
    BY <1>1, <2>3, <2>4 DEF IsStored, Page, Coll
<1>2. ASSUME NEW x \in Coll, AddNewChainUpdate(x)
      PROVE  IsJoined(c, d)
  <2>1. Joined(x) \in Page /\ Write(x, Joined(x))
    BY <1>2, PagesOfDbTyped DEF AddNewChainUpdate
  <2>2. x = c /\ db'[c] = Joined(c)
    BY <2>1, WriteEntries
  <2> QED
    BY <1>2, <2>2 DEF IsJoined, Joined
<1>3. ASSUME NEW r \in Relate, UpdateIbcTx(r)
      PROVE  IsUpdated(c, d)
  <2>1. PICK e \in Docs(mem[r].page) :
          /\ IF e \in Stored(Target[r])
               THEN Write(Target[r], [db[Target[r]] EXCEPT ![e] = mem[r].page[e]])
               ELSE UNCHANGED <<db, past>>
          /\ Done(r, e)
    BY <1>3 DEF UpdateIbcTx
  <2>2. e \in Doc /\ mem[r].page \in Page /\ Target[r] \in Coll
    BY <2>1, MemoryTyped DEF Docs
  <2>3. [db[Target[r]] EXCEPT ![e] = mem[r].page[e]] \in Page
    BY <2>2, PagesOfDbTyped DEF Page
  <2>4. e \in Stored(Target[r]) /\ Write(Target[r], [db[Target[r]] EXCEPT ![e] = mem[r].page[e]])
    BY <2>1
  <2>5. Target[r] = c /\ db'[c] = [db[c] EXCEPT ![e] = mem[r].page[e]]
    BY <2>2, <2>3, <2>4, WriteEntries
  <2>6. e = d /\ db'[c][d] = mem[r].page[d]
    BY <2>5, PagesOfDbTyped DEF Page
  <2>7. mem'[r].page[d] = NoEntry
    BY <2>1, <2>2, <2>6 DEF Done, TypeOK, Memory, Page
  <2> QED
    BY <1>3, <2>1, <2>4, <2>5, <2>6, <2>7 DEF IsUpdated
<1>4. ASSUME InsertBatchHistory \/ InsertHistoryFails
      PROVE  IsMoved(c, d)
  <2>1. PICK S \in Accepted : \E some \in SUBSET S : Write("history", Arrived(some))
    BY <1>4 DEF InsertBatchHistory, InsertHistoryFails
  <2>2. PICK some \in SUBSET S : Write("history", Arrived(some))
    BY <2>1
  <2>3. db'["history"] = Arrived(some) /\ db'["latest"] = db["latest"]
    BY <2>2, ArrivedTyped, WriteEntries DEF Coll
  <2>4. c = "history" /\ d \in some /\ db'[c][d] = carried[d]
    BY <2>3 DEF Coll, Arrived
  <2>5. d \in Docs(carried) /\ KeyOf[d] \notin KeysOf(Stored("history"))
    BY <2>1, <2>4 DEF Accepted, KeysOf
  <2> QED
    BY <1>4, <2>4, <2>5 DEF IsMoved
<1>5. ASSUME DelBatch \/ DelBatchFails
      PROVE  IsDeleted(c, d)
  <2>1. PICK S \in SUBSET Docs(carried) : Write("latest", Without(S))
    BY <1>5 DEF DelBatch, DelBatchFails
  <2>2. db'["latest"] = Without(S) /\ db'["history"] = db["history"]
    BY <2>1, ArrivedTyped, WriteEntries DEF Coll
  <2> QED
    BY <1>5, <2>2 DEF IsDeleted, Coll, Without
<1>6. ASSUME NEW f \in {"dc", "ack"}, Complete(f)
      PROVE  IsCompleted(c, d)
  <2> DEFINE e == fixing[f]
             new == [db["latest"] EXCEPT ![e].info = @ \cup {f}]
  <2>1. e \in Stored("latest") /\ Write("latest", new)
    BY <1>6 DEF Complete
  <2>2. e \in Doc /\ db["latest"][e] \in Entry /\ db["latest"] \in Page
    BY <2>1, EntryTyped, PagesOfDbTyped DEF Stored, Page, Coll
  <2>3. [db["latest"][e] EXCEPT !.info = @ \cup {f}] \in Entries
    BY <2>2, SetTyped DEF Entries, Entry
  <2>4. new \in Page
    BY <2>2, <2>3 DEF Page
  <2>5. db'["latest"] = new /\ db'["history"] = db["history"]
    BY <2>1, <2>4, WriteEntries DEF Coll
  <2>6. c = "latest" /\ d = e
    BY <2>2, <2>5 DEF Coll, Page
  <2>7. db'[c][d] = [db[c][d] EXCEPT !.info = @ \cup {f}]
    BY <2>2, <2>5, <2>6 DEF Page
  <2> QED
    BY <1>6, <2>1, <2>6, <2>7 DEF IsCompleted
<1>7. CASE UNCHANGED db
  BY <1>7
<1>8. CASE ~ UNCHANGED db
  <2>1. ~ UNCHANGED vars /\ ~ ChainStep /\ ~ Configure /\ ~ ReadChains
    BY <1>8 DEF vars, ChainStep, Configure, ReadChains, collections
  <2>2. \A r \in Relate : ~ RelateStart(r) /\ ~ RelateOverlap(r) /\ ~ RelatePage(r)
          /\ ~ RelateStalePage(r) /\ ~ RelateEvidence(r) /\ ~ RelateBlind(r)
          /\ ~ UpdateIbcTxFails(r) /\ ~ AddDenoms(r) /\ ~ AddDenomsFails(r) /\ ~ RelateAbandon(r)
    BY <1>8 DEF RelateStart, RelateOverlap, RelatePage, RelateStalePage, RelateEvidence,
                RelateBlind, UpdateIbcTxFails, AddDenoms, AddDenomsFails, RelateAbandon, collections
  <2>3. ~ FindByStatus /\ ~ CountNormal /\ ~ FindStaleByStatus /\ ~ MigrateAbandon
    BY <1>8 DEF FindByStatus, CountNormal, FindStaleByStatus, MigrateAbandon, collections
  <2>4. \A f \in {"dc", "ack"} : ~ FindIncomplete(f)
    BY <1>8 DEF FindIncomplete, collections
  <2> QED
    BY <1>1, <1>2, <1>3, <1>4, <1>5, <1>6, <2>1, <2>2, <2>3, <2>4
    DEF Next, RelateStep, RelateFailure, Migrate, MigrateFailure
<1> QED
  BY <1>7, <1>8

\* Only the sync task and the migrate task put a document where it was not.
LEMMA NewEntry ==
  ASSUME TypeOK, [Next]_vars, NEW c \in Coll, NEW d \in Doc,
         db[c][d] = NoEntry, db'[c][d] # NoEntry
  PROVE  IsStored(c, d) \/ IsMoved(c, d)
<1>1. ~ IsJoined(c, d)
  BY DEF IsJoined, NoEntry
<1>2. ~ IsUpdated(c, d) /\ ~ IsCompleted(c, d)
  BY DEF IsUpdated, IsCompleted, Stored
<1>3. ~ IsDeleted(c, d)
  BY DEF IsDeleted
<1> QED
  BY <1>1, <1>2, <1>3, EntryStep

LEMMA WritesOrNot ==
  ASSUME TypeOK, [Next]_vars
  PROVE  UNCHANGED <<db, past>> \/ \E c \in Coll : \E new : Write(c, new)
<1>1. CASE UNCHANGED vars \/ ChainStep \/ Configure \/ ReadChains
  BY <1>1 DEF vars, ChainStep, Configure, ReadChains, collections
<1>2. ASSUME NEW d \in Doc, Store(d)
      PROVE  \E c \in Coll : \E new : Write(c, new)
  BY <1>2 DEF Store, Coll
<1>3. ASSUME NEW c \in Coll, AddNewChainUpdate(c)
      PROVE  \E new : Write(c, new)
  BY <1>3 DEF AddNewChainUpdate
<1>4. ASSUME NEW r \in Relate, RelateStart(r) \/ RelateStep(r) \/ RelateFailure(r)
      PROVE  UNCHANGED <<db, past>> \/ \E c \in Coll : \E new : Write(c, new)
  <2>1. CASE UpdateIbcTx(r)
    BY <2>1, MemoryTyped DEF UpdateIbcTx
  <2>2. CASE ~ UpdateIbcTx(r)
    BY <1>4, <2>2
    DEF RelateStep, RelateFailure, RelateStart, RelateOverlap, RelatePage, RelateStalePage,
        RelateEvidence, RelateBlind, UpdateIbcTxFails, AddDenoms, AddDenomsFails,
        RelateAbandon, collections
  <2> QED
    BY <2>1, <2>2
<1>5. CASE Migrate \/ MigrateFailure
  <2>1. CASE FindByStatus \/ CountNormal \/ FindStaleByStatus \/ MigrateAbandon
    BY <2>1 DEF FindByStatus, CountNormal, FindStaleByStatus, MigrateAbandon, collections
  <2>2. CASE InsertBatchHistory \/ InsertHistoryFails
    <3>1. \E S : Write("history", Arrived(S))
      BY <2>2 DEF InsertBatchHistory, InsertHistoryFails
    <3> QED
      BY <3>1 DEF Coll
  <2>3. CASE DelBatch \/ DelBatchFails
    <3>1. \E S : Write("latest", Without(S))
      BY <2>3 DEF DelBatch, DelBatchFails
    <3> QED
      BY <3>1 DEF Coll
  <2> QED
    BY <1>5, <2>1, <2>2, <2>3 DEF Migrate, MigrateFailure
<1>6. ASSUME NEW f \in {"dc", "ack"}, FindIncomplete(f) \/ Complete(f)
      PROVE  UNCHANGED <<db, past>> \/ \E c \in Coll : \E new : Write(c, new)
  BY <1>6 DEF FindIncomplete, Complete, collections, Coll
<1> QED
  BY <1>1, <1>2, <1>3, <1>4, <1>5, <1>6 DEF Next

\* What a lagging replica may show has been in the collection before.
LEMMA PastStep ==
  ASSUME TypeOK, [Next]_vars, NEW c \in Coll, NEW x \in past'[c], x \notin past[c]
  PROVE  x[1] \in Doc /\ x[2] = db'[c][x[1]]
<1>1. PICK y \in Coll : \E new : Write(y, new)
  BY WritesOrNot
<1>2. PICK new : Write(y, new)
  BY <1>1
<1>3. y = c /\ x \in {<<d, new[d]>> : d \in Docs(new)}
  BY <1>2 DEF TypeOK, Write
<1>4. db'[c] = new
  BY <1>2, <1>3, WriteEntries
<1>5. PICK d \in Doc : x = <<d, new[d]>>
  BY <1>3 DEF Docs
<1> QED
  BY <1>4, <1>5

-----------------------------------------------------------------------------
(* What a step does to the page of the migrate task. *)

\* A document in a new page is as it is in ex_ibc_tx_latest, or was once.
IsFound(d) ==
  /\ UNCHANGED <<db, added, synced>>
  /\ stage = "find" /\ stage' # "delete"
  /\ carried'[d] = db["latest"][d] \/ <<d, carried'[d]>> \in past["latest"]
  /\ carried'[d].status = "Setting" /\ added # {} => d \in missed'

LEMMA CarriesFound ==
  ASSUME TypeOK, NEW page \in Page, Carries(page), NEW d \in Doc, carried'[d] # NoEntry
  PROVE  /\ carried'[d] = page[d] /\ page # NoPage /\ stage' = "insert"
         /\ carried'[d].status = "Setting" /\ added # {} => d \in missed'
BY DEF Carries, NoPage, Docs

LEMMA CarriedStep ==
  ASSUME TypeOK, [Next]_vars, NEW d \in Doc, carried'[d] # NoEntry
  PROVE  carried' = carried \/ IsFound(d)
<1>1. CASE FindByStatus
  <2>1. PICK S \in SUBSET InStatus("latest", ToMigrate) :
          Carries([x \in Doc |-> IF x \in S THEN db["latest"][x] ELSE NoEntry])
    BY <1>1 DEF FindByStatus
  <2>2. [x \in Doc |-> IF x \in S THEN db["latest"][x] ELSE NoEntry] \in Page
    BY PagesOfDbTyped DEF Coll
  <2>3. /\ carried'[d] = db["latest"][d] /\ stage' = "insert"
        /\ carried'[d].status = "Setting" /\ added # {} => d \in missed'
    BY <2>1, <2>2, CarriesFound
  <2> QED
    BY <1>1, <2>3 DEF FindByStatus, IsFound, collections, outside
<1>2. CASE FindStaleByStatus
  <2>1. PICK page \in Old("latest", ToMigrate) : Carries(page)
    BY <1>2 DEF FindStaleByStatus
  <2>2. page \in Page
    BY OldTyped DEF Coll
  <2>3. /\ carried'[d] = page[d] /\ stage' = "insert"
        /\ carried'[d].status = "Setting" /\ added # {} => d \in missed'
    BY <2>1, <2>2, CarriesFound
  <2>4. <<d, carried'[d]>> \in past["latest"]
    BY <2>3 DEF Old, Docs
  <2> QED
    BY <1>2, <2>3, <2>4 DEF FindStaleByStatus, IsFound, collections, outside
<1>3. CASE Migrate \/ MigrateFailure
  BY <1>1, <1>2, <1>3
  DEF Migrate, MigrateFailure, CountNormal, InsertBatchHistory, DelBatch, InsertHistoryFails,
      DelBatchFails, MigrateAbandon, NextBatch, NoPage
<1>4. CASE ~ (Migrate \/ MigrateFailure)
  BY <1>4
  DEF Next, vars, ChainStep, Configure, ReadChains, Store, AddNewChainUpdate, RelateStep,
      RelateFailure, RelateStart, RelateOverlap, RelatePage, RelateStalePage, RelateEvidence,
      RelateBlind, UpdateIbcTx, UpdateIbcTxFails, AddDenoms, AddDenomsFails, RelateAbandon,
      FindIncomplete, Complete, migrate
<1> QED
  BY <1>3, <1>4

-----------------------------------------------------------------------------
(* What a step does to the page of a relate run. *)

\* A document in a new page is in status Processing, or was once.
IsRead(r, d) ==
  /\ UNCHANGED <<db, facts, denoms, lost>> /\ pc[r] \in {"idle", "page"} /\ pc'[r] = "evidence"
  /\ mem'[r].page[d].status = "Processing"
  /\ \/ mem'[r].page[d] = db[Target[r]][d]
     \/ <<d, mem'[r].page[d]>> \in past[Target[r]] /\ r \in misled'

IsLoaded(r, d) ==
  /\ UNCHANGED <<db, facts>> /\ pc[r] = "evidence" /\ mem[r].page[d] # NoEntry
  /\ \E seen \in SUBSET facts[KeyOf[d]] : mem'[r].page[d] = Load(d, mem[r].page[d], seen)

RelateAct(r) == RelateStart(r) \/ RelateStep(r) \/ RelateFailure(r)

\* A run's own local variables, and nobody else's.
LEMMA OtherRun ==
  ASSUME TypeOK, NEW r \in Relate, NEW s \in Relate, r # s, RelateAct(s)
  PROVE  mem'[r] = mem[r] /\ pc'[r] = pc[r] /\ (r \in misled => r \in misled')
<1> DEFINE Conclusion == mem'[r] = mem[r] /\ pc'[r] = pc[r] /\ (r \in misled => r \in misled')
<1>1. ASSUME Ends(s)
      PROVE  Conclusion
  BY <1>1 DEF TypeOK, Ends
<1>2. ASSUME NEW page, TakesPage(s, page), misled \subseteq misled'
      PROVE  Conclusion
  <2>1. mem'[r] = mem[r] /\ pc'[r] = pc[r]
    BY <1>2 DEF TypeOK, TakesPage
  <2> QED
    BY <1>2, <2>1
<1>3. ASSUME ReadsPage(s)
      PROVE  Conclusion
  BY <1>1, <1>2, <1>3 DEF ReadsPage, ReadsFrom
<1>4. ASSUME NEW seen, Handles(s, seen)
      PROVE  Conclusion
  BY <1>4 DEF TypeOK, Handles
<1>5. ASSUME NEW d, Done(s, d)
      PROVE  Conclusion
  BY <1>5 DEF TypeOK, Done
<1>6. ASSUME GoesOn(s)
      PROVE  Conclusion
  BY <1>1, <1>6 DEF TypeOK, GoesOn
<1>7. CASE RelateStart(s) \/ RelateOverlap(s) \/ RelatePage(s)
  BY <1>3, <1>7 DEF RelateStart, RelateOverlap, RelatePage
<1>8. CASE RelateStalePage(s)
  BY <1>2, <1>8 DEF RelateStalePage
<1>9. CASE RelateEvidence(s) \/ RelateBlind(s)
  BY <1>4, <1>9 DEF RelateEvidence, RelateBlind
<1>10. CASE UpdateIbcTx(s) \/ UpdateIbcTxFails(s)
  BY <1>5, <1>10 DEF UpdateIbcTx, UpdateIbcTxFails
<1>11. CASE AddDenoms(s) \/ AddDenomsFails(s)
  BY <1>6, <1>11 DEF AddDenoms, AddDenomsFails
<1>12. CASE RelateAbandon(s)
  BY <1>1, <1>12 DEF RelateAbandon
<1> QED
  BY <1>7, <1>8, <1>9, <1>10, <1>11, <1>12 DEF RelateAct, RelateStep, RelateFailure

LEMMA NoRun ==
  ASSUME TypeOK, [Next]_vars, \A r \in Relate : ~ RelateAct(r)
  PROVE  UNCHANGED relate
BY DEF RelateAct, Next, vars, ChainStep, Configure, ReadChains, Store, AddNewChainUpdate, Migrate,
       MigrateFailure, FindByStatus, CountNormal, InsertBatchHistory, DelBatch, FindStaleByStatus,
       InsertHistoryFails, DelBatchFails, MigrateAbandon, FindIncomplete, Complete, relate

LEMMA EndsFresh ==
  ASSUME TypeOK, NEW r \in Relate, Ends(r)
  PROVE  /\ mem'[r] = Fresh /\ pc'[r] = "idle" /\ r \notin misled'
         /\ \A d \in Doc : mem'[r].page[d] = NoEntry
BY DEF TypeOK, Ends, Fresh, NoPage

LEMMA TakesPageRun ==
  ASSUME TypeOK, NEW r \in Relate, NEW page, TakesPage(r, page)
  PROVE  mem'[r].page = page /\ pc'[r] = "evidence"
         /\ mem'[r].known = mem[r].known /\ mem'[r].fresh = mem[r].fresh
BY DEF TypeOK, TakesPage, Memory

\* A page from the collection itself.
LEMMA ReadsPageRun ==
  ASSUME TypeOK, NEW r \in Relate, ReadsPage(r)
  PROVE  \/ Ends(r)
         \/ /\ pc'[r] = "evidence"
            /\ mem'[r].known = mem[r].known /\ mem'[r].fresh = mem[r].fresh
            /\ misled' = misled \cup {s \in Rivals(r) \cup {r} : Overlaps(r)}
            /\ \A d \in Doc : mem'[r].page[d] # NoEntry =>
                 /\ mem'[r].page[d] = db[Target[r]][d]
                 /\ mem'[r].page[d].status = "Processing"
<1>1. PICK S \in SUBSET InStatus(Target[r], {"Processing"}) :
        IF S = {} THEN Ends(r)
        ELSE /\ TakesPage(r, [d \in Doc |-> IF d \in S THEN db[Target[r]][d] ELSE NoEntry])
             /\ misled' = misled \cup {s \in Rivals(r) \cup {r} : Overlaps(r)}
  BY DEF ReadsPage, ReadsFrom
<1>2. CASE S = {}
  BY <1>1, <1>2
<1>3. CASE S # {}
  <2> DEFINE page == [d \in Doc |-> IF d \in S THEN db[Target[r]][d] ELSE NoEntry]
  <2>1. TakesPage(r, page) /\ misled' = misled \cup {s \in Rivals(r) \cup {r} : Overlaps(r)}
    BY <1>1, <1>3
  <2>2. \A d \in Doc : page[d] # NoEntry =>
          page[d] = db[Target[r]][d] /\ page[d].status = "Processing"
    BY DEF InStatus
  <2> HIDE DEF page
  <2> QED
    BY <2>1, <2>2, TakesPageRun
<1> QED
  BY <1>2, <1>3

LEMMA StalePageRun ==
  ASSUME TypeOK, NEW r \in Relate, RelateStalePage(r)
  PROVE  /\ pc'[r] = "evidence" /\ pc[r] \in {"idle", "page"} /\ r \in misled'
         /\ mem'[r].known = mem[r].known /\ mem'[r].fresh = mem[r].fresh
         /\ \A d \in Doc : mem'[r].page[d] # NoEntry =>
              /\ <<d, mem'[r].page[d]>> \in past[Target[r]]
              /\ mem'[r].page[d].status = "Processing"
<1>1. PICK page \in Old(Target[r], {"Processing"}) : TakesPage(r, page)
  BY DEF RelateStalePage
<1>2. \A d \in Doc : page[d] # NoEntry =>
        <<d, page[d]>> \in past[Target[r]] /\ page[d].status = "Processing"
  BY <1>1 DEF Old, Docs
<1>3. pc[r] \in {"idle", "page"} /\ r \in misled'
  BY DEF RelateStalePage
<1> QED
  BY <1>1, <1>2, <1>3, TakesPageRun

LEMMA HandlesRun ==
  ASSUME TypeOK, NEW r \in Relate, NEW seen, Handles(r, seen)
  PROVE  /\ pc'[r] = "update" /\ misled' = misled
         /\ \A d \in Doc : mem'[r].page[d] =
              IF mem[r].page[d] = NoEntry THEN NoEntry
              ELSE Load(d, mem[r].page[d], seen[KeyOf[d]])
         /\ \E F \in Choose(mem'[r].page, mem[r].known) :
              /\ mem'[r].fresh = F
              /\ mem'[r].known = mem[r].known \cup {x.hash : x \in F}
<1> DEFINE page == [d \in Doc |-> IF mem[r].page[d] = NoEntry THEN NoEntry
                                  ELSE Load(d, mem[r].page[d], seen[KeyOf[d]])]
<1>1. PICK F \in Choose(page, mem[r].known) :
        mem' = [mem EXCEPT ![r].page = page, ![r].fresh = F,
                           ![r].known = @ \cup {x.hash : x \in F}]
  BY DEF Handles
<1>2. pc'[r] = "update" /\ misled' = misled
  BY DEF Handles, TypeOK
<1>3. \A d \in Doc : page[d] = IF mem[r].page[d] = NoEntry THEN NoEntry
                               ELSE Load(d, mem[r].page[d], seen[KeyOf[d]])
  OBVIOUS
<1> HIDE DEF page
<1>4. /\ mem'[r].page = page /\ mem'[r].fresh = F
      /\ mem'[r].known = mem[r].known \cup {x.hash : x \in F}
  BY <1>1 DEF TypeOK, Memory
<1> QED
  BY <1>1, <1>2, <1>3, <1>4

LEMMA DoneRun ==
  ASSUME TypeOK, NEW r \in Relate, NEW e \in Doc, Done(r, e)
  PROVE  /\ mem'[r].page[e] = NoEntry
         /\ \A d \in Doc \ {e} : mem'[r].page[d] = mem[r].page[d]
         /\ mem'[r].known = mem[r].known /\ mem'[r].fresh = mem[r].fresh
         /\ pc'[r] = pc[r] /\ misled' = misled
<1>1. mem' = [mem EXCEPT ![r].page[e] = NoEntry] /\ UNCHANGED <<pc, misled>>
  BY DEF Done
<1>2. mem'[r] = [mem[r] EXCEPT !.page = [mem[r].page EXCEPT ![e] = NoEntry]]
  BY <1>1 DEF TypeOK
<1>3. mem[r].page \in Page /\ mem[r] \in Memory
  BY MemoryTyped DEF TypeOK
<1>4. /\ mem'[r].page = [mem[r].page EXCEPT ![e] = NoEntry]
      /\ mem'[r].known = mem[r].known /\ mem'[r].fresh = mem[r].fresh
  BY <1>2, <1>3 DEF Memory
<1> QED
  BY <1>1, <1>3, <1>4 DEF Page

LEMMA GoesOnRun ==
  ASSUME TypeOK, NEW r \in Relate, GoesOn(r)
  PROVE  \/ Ends(r)
         \/ /\ pc'[r] = "page" /\ misled' = misled
            /\ mem'[r].page = mem[r].page /\ mem'[r].fresh = {}
            /\ mem'[r].known = mem[r].known
BY DEF TypeOK, Memory, GoesOn

\* What a run does to its page.
LEMMA PageStep ==
  ASSUME TypeOK, [Next]_vars, NEW r \in Relate, NEW d \in Doc, mem'[r].page[d] # NoEntry
  PROVE  mem'[r].page[d] = mem[r].page[d] \/ IsRead(r, d) \/ IsLoaded(r, d)
<1>1. CASE ~ RelateAct(r)
  <2>1. mem'[r] = mem[r]
    BY <1>1, OtherRun, NoRun DEF relate
  <2> QED
    BY <2>1
<1>2. CASE RelateStart(r) \/ RelateOverlap(r) \/ RelatePage(r)
  <2>1. /\ ReadsPage(r) /\ UNCHANGED <<db, facts, denoms, lost>>
        /\ pc[r] \in {"idle", "page"}
    BY <1>2 DEF RelateStart, RelateOverlap, RelatePage, collections, outside
  <2>2. ~ Ends(r)
    BY EndsFresh
  <2> QED
    BY <2>1, <2>2, ReadsPageRun DEF IsRead
<1>3. CASE RelateStalePage(r)
  BY <1>3, StalePageRun DEF IsRead, RelateStalePage, collections, outside
<1>4. CASE RelateEvidence(r) \/ RelateBlind(r)
  <2>1. PICK seen : Handles(r, seen) /\ \A k \in Key : seen[k] \in SUBSET facts[k]
    <3>1. CASE RelateEvidence(r)
      BY <3>1 DEF RelateEvidence
    <3>2. CASE RelateBlind(r)
      <4>1. PICK k \in Key : \E some \in SUBSET facts[k] : Handles(r, [facts EXCEPT ![k] = some])
        BY <3>2 DEF RelateBlind
      <4>2. PICK some \in SUBSET facts[k] : Handles(r, [facts EXCEPT ![k] = some])
        BY <4>1
      <4>3. \A x \in Key : [facts EXCEPT ![k] = some][x] \in SUBSET facts[x]
        BY <4>2 DEF TypeOK
      <4> QED
        BY <4>2, <4>3
    <3> QED
      BY <1>4, <3>1, <3>2
  <2>2. mem[r].page[d] # NoEntry /\ mem'[r].page[d] = Load(d, mem[r].page[d], seen[KeyOf[d]])
    BY <2>1, HandlesRun
  <2>3. seen[KeyOf[d]] \in SUBSET facts[KeyOf[d]]
    BY <2>1 DEF Key
  <2>4. UNCHANGED <<db, facts>> /\ pc[r] = "evidence"
    BY <1>4 DEF RelateEvidence, RelateBlind, collections, outside
  <2> QED
    BY <2>2, <2>3, <2>4 DEF IsLoaded
<1>5. CASE UpdateIbcTx(r) \/ UpdateIbcTxFails(r)
  <2>1. PICK e \in Doc : Done(r, e)
    BY <1>5 DEF UpdateIbcTx, UpdateIbcTxFails, Docs
  <2> QED
    BY <2>1, DoneRun
<1>6. CASE AddDenoms(r) \/ AddDenomsFails(r)
  BY <1>6, GoesOnRun, EndsFresh DEF AddDenoms, AddDenomsFails
<1>7. CASE RelateAbandon(r)
  BY <1>7, EndsFresh DEF RelateAbandon
<1> QED
  BY <1>1, <1>2, <1>3, <1>4, <1>5, <1>6, <1>7 DEF RelateAct, RelateStep, RelateFailure

-----------------------------------------------------------------------------
(* No transfer is lost. *)

\* Before the migrate task deletes a page, history has the keys of all of it.
SafeToDelete == stage = "delete" => KeysOf(Docs(carried)) \subseteq KeysOf(Stored("history"))

LostInv == NothingLost /\ SafeToDelete

\* What the two updates of a field leave of an entry.
LEMMA JoinedEntry ==
  ASSUME TypeOK, NEW c \in Coll, NEW d \in Doc, IsJoined(c, d)
  PROVE  db'[c][d].status = "Processing" /\ db'[c][d] # NoEntry
<1>1. db[c][d] \in Entry
  BY EntryTyped, PagesOfDbTyped DEF IsJoined, Page
<1>2. db'[c][d] = [db[c][d] EXCEPT !.status = "Processing"]
  BY DEF IsJoined
<1>3. db'[c][d].status = "Processing"
  BY <1>1, <1>2 DEF Entry
<1> QED
  BY <1>3 DEF NoEntry

LEMMA CompletedEntry ==
  ASSUME TypeOK, NEW c \in Coll, NEW d \in Doc, IsCompleted(c, d)
  PROVE  /\ db'[c][d].status = db[c][d].status
         /\ db[c][d].info \subseteq db'[c][d].info
         /\ db'[c][d] # NoEntry
<1>1. db[c][d] \in Entry
  BY EntryTyped, PagesOfDbTyped DEF IsCompleted, Stored, Page
<1>2. PICK f \in {"dc", "ack"} : db'[c][d] = [db[c][d] EXCEPT !.info = @ \cup {f}]
  BY DEF IsCompleted
<1>3. db'[c][d].status = db[c][d].status /\ db[c][d].info \subseteq db'[c][d].info
  BY <1>1, <1>2 DEF Entry
<1> QED
  BY <1>1, <1>3 DEF NoEntry, Entry

LEMMA StoredStep ==
  ASSUME TypeOK, [Next]_vars, NEW c \in Coll, NEW d \in Stored(c)
  PROVE  db'[c][d] # NoEntry \/ IsDeleted(c, d)
<1>1. d \in Doc /\ db[c][d] \in Entry
  BY EntryTyped, PagesOfDbTyped DEF Stored, Page
<1>2. CASE db'[c][d] = db[c][d]
  BY <1>2 DEF Stored
<1>3. CASE IsStored(c, d)
  BY <1>3 DEF IsStored, NoEntry, FirstStatus
<1>4. CASE IsJoined(c, d)
  BY <1>1, <1>4, JoinedEntry
<1>5. CASE IsUpdated(c, d)
  BY <1>5 DEF IsUpdated, Docs
<1>6. CASE IsMoved(c, d)
  BY <1>6 DEF IsMoved, Docs
<1>7. CASE IsCompleted(c, d)
  BY <1>1, <1>7, CompletedEntry
<1> QED
  BY <1>1, <1>2, <1>3, <1>4, <1>5, <1>6, <1>7, EntryStep

LEMMA DeletesFrom ==
  ASSUME TypeOK, DelBatch \/ DelBatchFails
  PROVE  stage = "delete" /\ stage' # "delete"
BY DEF DelBatch, DelBatchFails, NextBatch, LeavesLoop, Ended

\* What the migrate task inserts has the keys of its whole page.
LEMMA InsertsKeys ==
  ASSUME TypeOK, InsertBatchHistory
  PROVE  carried' = carried
         /\ KeysOf(Docs(carried)) \subseteq KeysOf({d \in Doc : db'["history"][d] # NoEntry})
<1>1. PICK S \in Accepted : Write("history", Arrived(S))
  BY DEF InsertBatchHistory
<1>2. db'["history"] = Arrived(S)
  BY <1>1, WriteEntries DEF Coll
<1>3. S \cup Stored("history") \subseteq {d \in Doc : db'["history"][d] # NoEntry}
  BY <1>1, <1>2 DEF Accepted, Arrived, Docs, Stored
<1>4. KeysOf(Docs(carried)) \subseteq KeysOf(S) \cup KeysOf(Stored("history"))
  BY <1>1 DEF Accepted
<1>5. KeysOf(S) \cup KeysOf(Stored("history")) \subseteq KeysOf({d \in Doc : db'["history"][d] # NoEntry})
  BY <1>3 DEF KeysOf
<1> QED
  BY <1>4, <1>5 DEF InsertBatchHistory

LEMMA LostInvInductive ==
  ASSUME TypeOK, LostInv, [Next]_vars
  PROVE  LostInv'
<1>1. \A d \in Stored("history") : d \in Stored("history")'
  <2> SUFFICES ASSUME NEW d \in Stored("history")
               PROVE  d \in Stored("history")'
    OBVIOUS
  <2>1. db'["history"][d] # NoEntry
    BY StoredStep DEF Coll, IsDeleted
  <2> QED
    BY <2>1 DEF Stored
<1>2. KeysOf(Stored("history")) \subseteq KeysOf(Stored("history"))'
  BY <1>1 DEF KeysOf
<1>3. ASSUME NEW d \in Stored("latest"), ~ (d \in Stored("latest")')
      PROVE  KeyOf[d] \in KeysOf(Stored("history"))'
  <2>1. IsDeleted("latest", d)
    BY <1>3, StoredStep DEF Coll, Stored
  <2>2. stage = "delete" /\ d \in Docs(carried)
    BY <2>1, DeletesFrom DEF IsDeleted
  <2> QED
    BY <2>2, <1>2 DEF LostInv, SafeToDelete, KeysOf
<1>4. NothingLost'
  <2> SUFFICES ASSUME NEW d \in synced'
               PROVE  KeyOf[d] \in KeysOf(Stored("latest") \cup Stored("history"))'
    BY DEF NothingLost
  <2>1. CASE d \in synced
    <3>1. PICK e \in Stored("latest") \cup Stored("history") : KeyOf[d] = KeyOf[e]
      BY <2>1 DEF LostInv, NothingLost, KeysOf
    <3> QED
      BY <3>1, <1>1, <1>3 DEF KeysOf
  <2>2. CASE d \notin synced
    <3>1. Store(d)
      BY <2>2
      DEF Next, vars, ChainStep, Configure, ReadChains, Store, AddNewChainUpdate, RelateStep,
          RelateFailure, RelateStart, RelateOverlap, RelatePage, RelateStalePage, RelateEvidence,
          RelateBlind, UpdateIbcTx, UpdateIbcTxFails, AddDenoms, AddDenomsFails, RelateAbandon,
          Migrate, MigrateFailure, FindByStatus, CountNormal, InsertBatchHistory, DelBatch,
          FindStaleByStatus, InsertHistoryFails, DelBatchFails, MigrateAbandon, FindIncomplete,
          Complete, outside
    <3>2. d \in Doc
      BY TypeInductive DEF TypeOK
    <3>3. db'["latest"] = [db["latest"] EXCEPT ![d] = [status |-> FirstStatus(d), info |-> {}]]
      BY <3>1, WriteEntries DEF Store, Coll
    <3>4. db'["latest"][d] # NoEntry
      BY <3>2, <3>3 DEF TypeOK, Coll, FirstStatus, NoEntry
    <3> QED
      BY <3>2, <3>4 DEF Stored, KeysOf
  <2> QED
    BY <2>1, <2>2
<1>5. SafeToDelete'
  <2> SUFFICES ASSUME stage' = "delete"
               PROVE  KeysOf(Docs(carried))' \subseteq KeysOf(Stored("history"))'
    BY DEF SafeToDelete
  <2>1. CASE InsertBatchHistory
    BY <2>1, InsertsKeys DEF Stored, Docs
  <2>2. CASE UNCHANGED migrate
    BY <2>2, <1>2 DEF LostInv, SafeToDelete, migrate, Docs
  <2>3. UNCHANGED migrate \/ InsertBatchHistory
    BY DEF Next, vars, ChainStep, Configure, ReadChains, Store, AddNewChainUpdate, RelateStep,
           RelateFailure, RelateStart, RelateOverlap, RelatePage, RelateStalePage, RelateEvidence,
           RelateBlind, UpdateIbcTx, UpdateIbcTxFails, AddDenoms, AddDenomsFails, RelateAbandon,
           Migrate, MigrateFailure, FindByStatus, CountNormal, DelBatch, FindStaleByStatus,
           InsertHistoryFails, DelBatchFails, MigrateAbandon, FindIncomplete, Complete, migrate,
           NextBatch, LeavesLoop, Ended, Carries
  <2> QED
    BY <2>1, <2>2, <2>3
<1> QED
  BY <1>4, <1>5 DEF LostInv

\* Whatever overlaps and fails, a stored transfer stays in one of the two
\* collections, itself or a copy of its key.
THEOREM NothingLostThm == Spec => []NothingLost
<1>1. Init => LostInv
  BY DEF Init, LostInv, NothingLost, SafeToDelete
<1>2. LostInv => NothingLost
  BY DEF LostInv
<1> QED
  BY <1>1, <1>2, IbcTxTypeCorrect, LostInvInductive, PTL DEF Spec

-----------------------------------------------------------------------------
(* Transfers are settled as the chains settled them. *)

\* An entry that says no more than what the chains show.
Honest(d, e) ==
  /\ e.status = "Success" => Outcome(d) = "ok" /\ "recv" \in facts[KeyOf[d]]
  /\ e.status = "Refunded" => \/ Outcome(d) = "error" /\ "ack" \in facts[KeyOf[d]]
                              \/ Outcome(d) = "timeout" /\ "timeout" \in facts[KeyOf[d]]

\* Every entry is honest, wherever it is kept.
HonestInv ==
  /\ \A c \in Coll, d \in Doc : Honest(d, db[c][d])
  /\ \A c \in Coll : \A x \in past[c] : Honest(x[1], x[2])
  /\ \A d \in Doc : Honest(d, carried[d])
  /\ \A r \in Relate, d \in Doc : Honest(d, mem[r].page[d])

LEMMA HonestLoad ==
  ASSUME NEW d \in Doc, NEW e, Honest(d, e), NEW seen \in SUBSET facts[KeyOf[d]]
  PROVE  Honest(d, Load(d, e, seen))
<1> DEFINE Ok == Outcome(d) = "ok" /\ "recv" \in seen
           Err == Outcome(d) = "error" /\ {"recv", "ack"} \subseteq seen
           Late == Outcome(d) = "timeout" /\ "timeout" \in seen
<1>1. CASE Ok
  BY <1>1 DEF Load, Honest
<1>2. CASE Err
  BY <1>2 DEF Load, Honest
<1>3. CASE Late
  BY <1>3 DEF Load, LoadTimeoutPacketTx, Honest
<1>4. CASE ~ Ok /\ ~ Err /\ ~ Late
  BY <1>4 DEF Load
<1> QED
  BY <1>1, <1>2, <1>3, <1>4

LEMMA FactsGrow ==
  ASSUME TypeOK, [Next]_vars, NEW d \in Doc
  PROVE  facts[KeyOf[d]] \subseteq facts'[KeyOf[d]]
<1>1. CASE ChainStep
  BY <1>1 DEF TypeOK, ChainStep, Key
<1>2. CASE ~ ChainStep
  BY <1>2
  DEF Next, vars, Configure, ReadChains, Store, AddNewChainUpdate, RelateStep,
      RelateFailure, RelateStart, RelateOverlap, RelatePage, RelateStalePage, RelateEvidence,
      RelateBlind, UpdateIbcTx, UpdateIbcTxFails, AddDenoms, AddDenomsFails, RelateAbandon,
      Migrate, MigrateFailure, FindByStatus, CountNormal, InsertBatchHistory, DelBatch,
      FindStaleByStatus, InsertHistoryFails, DelBatchFails, MigrateAbandon, FindIncomplete,
      Complete, outside
<1> QED
  BY <1>1, <1>2

\* An entry in neither of the two statuses is honest.
LEMMA UnsettledHonest ==
  ASSUME NEW d, NEW e, e.status \notin {"Success", "Refunded"}
  PROVE  Honest(d, e)
BY DEF Honest

LEMMA HonestInvInductive ==
  ASSUME TypeOK, HonestInv, [Next]_vars
  PROVE  HonestInv'
<1> DEFINE HonestNow(d, e) ==
             /\ e.status = "Success" => Outcome(d) = "ok" /\ "recv" \in facts'[KeyOf[d]]
             /\ e.status = "Refunded" => \/ Outcome(d) = "error" /\ "ack" \in facts'[KeyOf[d]]
                                         \/ Outcome(d) = "timeout" /\ "timeout" \in facts'[KeyOf[d]]
<1>0. \A d \in Doc : \A e : Honest(d, e) => HonestNow(d, e)
  BY FactsGrow DEF Honest
<1>1. ASSUME NEW c \in Coll, NEW d \in Doc
      PROVE  HonestNow(d, db'[c][d])
  <2>1. Honest(d, db[c][d]) /\ Honest(d, carried[d]) /\ \A r \in Relate : Honest(d, mem[r].page[d])
    BY DEF HonestInv
  <2>2. CASE db'[c][d] = db[c][d]
    BY <2>1, <2>2, <1>0
  <2>3. CASE IsStored(c, d)
    BY <2>3, <1>0, UnsettledHonest DEF IsStored, FirstStatus
  <2>4. CASE IsJoined(c, d)
    BY <2>4, <1>0, JoinedEntry, UnsettledHonest
  <2>5. CASE IsUpdated(c, d)
    BY <2>1, <2>5, <1>0 DEF IsUpdated
  <2>6. CASE IsMoved(c, d)
    BY <2>1, <2>6, <1>0 DEF IsMoved
  <2>7. CASE IsDeleted(c, d)
    BY <2>7, <1>0, UnsettledHonest DEF IsDeleted, NoEntry
  <2>8. CASE IsCompleted(c, d)
    <3>1. db'[c][d].status = db[c][d].status
      BY <2>8, CompletedEntry
    <3> QED
      BY <2>1, <3>1, <1>0 DEF Honest
  <2> QED
    BY <2>2, <2>3, <2>4, <2>5, <2>6, <2>7, <2>8, EntryStep
<1>2. ASSUME NEW c \in Coll, NEW x \in past'[c]
      PROVE  HonestNow(x[1], x[2])
  <2>1. CASE x \in past[c]
    <3>1. x[1] \in Doc
      BY <2>1 DEF TypeOK
    <3> QED
      BY <2>1, <3>1, <1>0 DEF HonestInv
  <2>2. CASE x \notin past[c]
    BY <2>2, <1>1, PastStep
  <2> QED
    BY <2>1, <2>2
<1>3. ASSUME NEW d \in Doc
      PROVE  HonestNow(d, carried'[d])
  <2>1. CASE carried'[d] = NoEntry
    BY <2>1 DEF NoEntry
  <2>2. CASE carried' = carried
    BY <2>2, <1>0 DEF HonestInv
  <2>3. CASE IsFound(d)
    <3>1. Honest(d, carried'[d])
      BY <2>3 DEF IsFound, HonestInv, Coll
    <3> QED
      BY <3>1, <1>0
  <2> QED
    BY <2>1, <2>2, <2>3, CarriedStep
<1>4. ASSUME NEW r \in Relate, NEW d \in Doc
      PROVE  HonestNow(d, mem'[r].page[d])
  <2>1. CASE mem'[r].page[d] = NoEntry
    BY <2>1 DEF NoEntry
  <2>2. CASE mem'[r].page[d] = mem[r].page[d]
    BY <2>2, <1>0 DEF HonestInv
  <2>3. CASE IsRead(r, d)
    BY <2>3, <1>0, UnsettledHonest DEF IsRead
  <2>4. CASE IsLoaded(r, d)
    <3>1. Honest(d, mem'[r].page[d])
      BY <2>4, HonestLoad DEF IsLoaded, HonestInv
    <3> QED
      BY <3>1, <1>0
  <2> QED
    BY <2>1, <2>2, <2>3, <2>4, PageStep
<1> QED
  BY <1>1, <1>2, <1>3, <1>4 DEF HonestInv, Honest

\* A transfer is Success only when its packet was received and Refunded only
\* when its tokens came back, in either collection and at every moment.
THEOREM SettledAsOnChainThm == Spec => []SettledAsOnChain
<1>1. Init => HonestInv
  BY DEF Init, HonestInv, Honest, NoPage, NoEntry, Fresh
<1>2. HonestInv => SettledAsOnChain
  BY DEF HonestInv, Honest, SettledAsOnChain
<1> QED
  BY <1>1, <1>2, IbcTxTypeCorrect, HonestInvInductive, PTL DEF Spec

-----------------------------------------------------------------------------
(* Copies. *)

\* A document that has not been stored is nowhere.
AbsentInv ==
  \A d \in Doc \ synced :
    /\ \A c \in Coll : db[c][d] = NoEntry
    /\ \A c \in Coll : \A x \in past[c] : x[1] = d => x[2] = NoEntry
    /\ carried[d] = NoEntry

LEMMA SyncedGrows ==
  ASSUME TypeOK, [Next]_vars
  PROVE  synced \subseteq synced' /\ \A d \in Doc : Store(d) => d \notin synced /\ d \in synced'
BY DEF Next, vars, ChainStep, Configure, ReadChains, Store, AddNewChainUpdate, RelateStep,
       RelateFailure, RelateStart, RelateOverlap, RelatePage, RelateStalePage, RelateEvidence,
       RelateBlind, UpdateIbcTx, UpdateIbcTxFails, AddDenoms, AddDenomsFails, RelateAbandon,
       Migrate, MigrateFailure, FindByStatus, CountNormal, InsertBatchHistory, DelBatch,
       FindStaleByStatus, InsertHistoryFails, DelBatchFails, MigrateAbandon, FindIncomplete,
       Complete, outside

LEMMA AbsentInvInductive ==
  ASSUME TypeOK, AbsentInv, [Next]_vars
  PROVE  AbsentInv'
<1> SUFFICES ASSUME NEW d \in Doc, d \notin synced'
             PROVE  /\ \A c \in Coll : db'[c][d] = NoEntry
                    /\ \A c \in Coll : \A x \in past'[c] : x[1] = d => x[2] = NoEntry
                    /\ carried'[d] = NoEntry
  BY DEF AbsentInv
<1>1. d \notin synced /\ ~ Store(d)
  BY SyncedGrows
<1>2. ASSUME NEW c \in Coll
      PROVE  db'[c][d] = NoEntry
  <2>1. db[c][d] = NoEntry /\ d \notin Docs(carried)
    BY <1>1 DEF AbsentInv, Docs
  <2>2. ~ IsStored(c, d) /\ ~ IsMoved(c, d)
    BY <1>1, <2>1 DEF IsStored, IsMoved
  <2> QED
    BY <2>1, <2>2, NewEntry
<1>3. ASSUME NEW c \in Coll, NEW x \in past'[c], x[1] = d
      PROVE  x[2] = NoEntry
  BY <1>1, <1>2, <1>3, PastStep DEF AbsentInv
<1>4. carried'[d] = NoEntry
  <2> SUFFICES ASSUME carried'[d] # NoEntry
               PROVE  FALSE
    OBVIOUS
  <2>1. CASE carried' = carried
    BY <1>1, <2>1 DEF AbsentInv
  <2>2. CASE IsFound(d)
    <3>1. CASE carried'[d] = db["latest"][d]
      BY <1>1, <3>1 DEF AbsentInv, Coll
    <3>2. CASE <<d, carried'[d]>> \in past["latest"]
      <4> DEFINE x == <<d, carried'[d]>>
      <4>1. x[1] = d /\ x[2] = carried'[d] /\ x \in past["latest"]
        BY <3>2
      <4> HIDE DEF x
      <4> QED
        BY <1>1, <4>1 DEF AbsentInv, Coll
    <3> QED
      BY <2>2, <3>1, <3>2 DEF IsFound
  <2> QED
    BY <2>1, <2>2, CarriedStep
<1> QED
  BY <1>2, <1>3, <1>4

LEMMA AbsentInvInit == Init => AbsentInv
BY DEF Init, AbsentInv, NoPage

LEMMA FaultCounts ==
  ASSUME TypeOK, [Next]_vars
  PROVE  faults' >= faults
<1>0. faults \in Nat
  BY DEF TypeOK
<1>1. CASE UNCHANGED faults
  BY <1>0, <1>1
<1>2. CASE faults' = faults + 1
  BY <1>0, <1>2
<1> QED
  BY <1>1, <1>2
  DEF Next, vars, ChainStep, Configure, ReadChains, Store, AddNewChainUpdate, RelateStep,
      RelateFailure, RelateStart, RelateOverlap, RelatePage, RelateStalePage, RelateEvidence,
      RelateBlind, UpdateIbcTx, UpdateIbcTxFails, AddDenoms, AddDenomsFails, RelateAbandon,
      Migrate, MigrateFailure, FindByStatus, CountNormal, InsertBatchHistory, DelBatch,
      FindStaleByStatus, InsertHistoryFails, DelBatchFails, MigrateAbandon, FindIncomplete,
      Complete, Fault

LEMMA CopiesInductive ==
  ASSUME TypeOK, AbsentInv, MovedNotCopied, [Next]_vars
  PROVE  MovedNotCopied'
<1> SUFFICES ASSUME NEW d \in Doc, db'["latest"][d] # NoEntry, db'["history"][d] # NoEntry,
                    faults' = 0
             PROVE  stage' = "delete" /\ carried'[d] # NoEntry
  <2>1. faults' \in Nat
    BY TypeInductive DEF TypeOK
  <2> QED
    BY <2>1 DEF MovedNotCopied, Stored, Docs
<1>1. faults = 0
  BY FaultCounts DEF TypeOK
<1>2. CASE db["latest"][d] = NoEntry
  <2>1. Store(d)
    BY <1>2, NewEntry DEF Coll, IsStored, IsMoved
  <2>2. db["history"][d] = NoEntry
    BY <2>1, SyncedGrows DEF AbsentInv, Coll
  <2>3. db'["history"] = db["history"]
    BY <2>1, WriteEntries DEF Store, Coll
  <2> QED
    BY <2>2, <2>3
<1>3. CASE db["history"][d] = NoEntry
  <2>1. IsMoved("history", d)
    BY <1>3, NewEntry DEF Coll, IsStored
  <2>2. ~ InsertHistoryFails
    BY <1>1 DEF InsertHistoryFails, Fault
  <2> QED
    BY <2>1, <2>2 DEF IsMoved, InsertBatchHistory, Docs
<1>4. CASE db["latest"][d] # NoEntry /\ db["history"][d] # NoEntry
  <2>1. stage = "delete" /\ carried[d] # NoEntry
    BY <1>1, <1>4 DEF MovedNotCopied, Stored, Docs
  <2>2. ~ DelBatch
    <3> SUFFICES ASSUME DelBatch
                 PROVE  FALSE
      OBVIOUS
    <3>1. db'["latest"] = Without(Docs(carried))
      BY WriteEntries DEF DelBatch, Coll
    <3> QED
      BY <2>1, <3>1 DEF Without, Docs
  <2>3. ~ MigrateFailure
    BY <1>1 DEF MigrateFailure, FindStaleByStatus, InsertHistoryFails, DelBatchFails,
                MigrateAbandon, Fault
  <2>4. ~ FindByStatus /\ ~ CountNormal /\ ~ InsertBatchHistory
    BY <2>1 DEF FindByStatus, CountNormal, InsertBatchHistory
  <2>5. UNCHANGED migrate
    BY <2>2, <2>3, <2>4
    DEF Next, vars, ChainStep, Configure, ReadChains, Store, AddNewChainUpdate, RelateStep,
        RelateFailure, RelateStart, RelateOverlap, RelatePage, RelateStalePage, RelateEvidence,
        RelateBlind, UpdateIbcTx, UpdateIbcTxFails, AddDenoms, AddDenomsFails, RelateAbandon,
        Migrate, FindIncomplete, Complete, migrate
  <2> QED
    BY <2>1, <2>5 DEF migrate
<1> QED
  BY <1>2, <1>3, <1>4

\* Without a fault, a document is in both collections only between the insert
\* and the delete of the page it is in.
THEOREM MovedNotCopiedThm == Spec => []MovedNotCopied
<1>1. Init => MovedNotCopied
  BY DEF Init, MovedNotCopied, Stored, NoPage, Coll
<1>2. TypeOK /\ AbsentInv /\ MovedNotCopied /\ [Next]_vars => (AbsentInv /\ MovedNotCopied)'
  BY AbsentInvInductive, CopiesInductive
<1> QED
  BY <1>1, <1>2, AbsentInvInit, IbcTxTypeCorrect, PTL DEF Spec

-----------------------------------------------------------------------------
(* The chain that is added. *)

\* Setting is the status of transfers to the chain that is added, and of no
\* document in a relate run's hands; where the task has been, or a document is
\* on the move after it came, those left in the status are known as missed.
SettingInv ==
  /\ \A c \in Coll, d \in Doc : db[c][d].status = "Setting" =>
       d \in ToNewChain /\ (c \in added => d \in missed)
  /\ \A c \in Coll : \A x \in past[c] : x[2].status = "Setting" => x[1] \in ToNewChain
  /\ \A d \in Doc : carried[d].status = "Setting" =>
       d \in ToNewChain /\ (added # {} => d \in missed)
  /\ \A r \in Relate, d \in Doc : mem[r].page[d].status # "Setting"

LEMMA AddedStep ==
  ASSUME TypeOK, [Next]_vars
  PROVE  /\ missed \subseteq missed'
         /\ \/ added' = added
            \/ \E c \in Coll : AddNewChainUpdate(c) /\ added' = added \cup {c}
                               /\ Docs(carried) \cap ToNewChain \subseteq missed'
BY DEF Next, vars, ChainStep, Configure, ReadChains, Store, AddNewChainUpdate, RelateStep,
       RelateFailure, RelateStart, RelateOverlap, RelatePage, RelateStalePage, RelateEvidence,
       RelateBlind, UpdateIbcTx, UpdateIbcTxFails, AddDenoms, AddDenomsFails, RelateAbandon,
       Migrate, MigrateFailure, FindByStatus, CountNormal, InsertBatchHistory, DelBatch,
       FindStaleByStatus, InsertHistoryFails, DelBatchFails, MigrateAbandon, FindIncomplete,
       Complete, Carries, outside

\* Only the add chain task itself leaves no such document behind it.
LEMMA AddNewChainJoins ==
  ASSUME TypeOK, SettingInv, NEW c \in Coll, AddNewChainUpdate(c), NEW d \in Doc
  PROVE  db'[c][d].status # "Setting"
<1>1. db'[c] = Joined(c)
  BY WriteEntries DEF AddNewChainUpdate
<1>2. CASE db[c][d].status = "Setting"
  <2>1. d \in ToNewChain
    BY <1>2 DEF SettingInv
  <2>2. db'[c][d] = [db[c][d] EXCEPT !.status = "Processing"]
    BY <1>1, <1>2, <2>1 DEF Joined
  <2>3. db[c][d] \in Entry
    BY <1>2, EntryTyped, PagesOfDbTyped DEF Page
  <2> QED
    BY <2>2, <2>3 DEF Entry
<1>3. CASE db[c][d].status # "Setting"
  <2>1. CASE d \in ToNewChain /\ db[c][d].status = "Processing"
    <3>1. db'[c][d] = [db[c][d] EXCEPT !.status = "Processing"]
      BY <1>1, <2>1 DEF Joined
    <3>2. db[c][d] \in Entry
      BY <2>1, EntryTyped, PagesOfDbTyped DEF Page
    <3> QED
      BY <3>1, <3>2 DEF Entry
  <2>2. CASE ~ (d \in ToNewChain /\ db[c][d].status = "Processing")
    BY <1>1, <1>3, <2>2 DEF Joined
  <2> QED
    BY <2>1, <2>2
<1> QED
  BY <1>2, <1>3

LEMMA LoadedStatus ==
  ASSUME NEW d, NEW e, NEW seen, e.status # "Setting"
  PROVE  Load(d, e, seen).status # "Setting"
<1> DEFINE Ok == Outcome(d) = "ok" /\ "recv" \in seen
           Err == Outcome(d) = "error" /\ {"recv", "ack"} \subseteq seen
           Late == Outcome(d) = "timeout" /\ "timeout" \in seen
<1>1. CASE Ok
  BY <1>1 DEF Load
<1>2. CASE Err
  BY <1>2 DEF Load
<1>3. CASE Late
  BY <1>3 DEF Load, LoadTimeoutPacketTx
<1>4. CASE ~ Ok /\ ~ Err /\ ~ Late
  BY <1>4 DEF Load
<1> QED
  BY <1>1, <1>2, <1>3, <1>4

LEMMA SettingInvInductive ==
  ASSUME TypeOK, SettingInv, [Next]_vars
  PROVE  SettingInv'
<1>1. ASSUME NEW c \in Coll, NEW d \in Doc, db'[c][d].status = "Setting"
      PROVE  d \in ToNewChain /\ (c \in added' => d \in missed')
  <2>1. CASE db'[c][d] = db[c][d]
    <3>1. d \in ToNewChain /\ (c \in added => d \in missed')
      BY <1>1, <2>1, AddedStep DEF SettingInv
    <3>2. c \in added' => c \in added
      BY <1>1, AddedStep, AddNewChainJoins
    <3> QED
      BY <3>1, <3>2
  <2>2. CASE IsStored(c, d)
    <3>1. FirstStatus(d) = "Setting" /\ added' = added
      BY <1>1, <2>2 DEF IsStored, Store
    <3>2. added # {} => d \in missed'
      BY <2>2, <3>1 DEF IsStored, Store
    <3> QED
      BY <3>1, <3>2 DEF FirstStatus
  <2>3. CASE IsJoined(c, d)
    BY <1>1, <2>3, JoinedEntry
  <2>4. CASE IsUpdated(c, d)
    BY <1>1, <2>4 DEF IsUpdated, SettingInv
  <2>5. CASE IsMoved(c, d)
    <3>1. carried[d].status = "Setting"
      BY <1>1, <2>5 DEF IsMoved
    <3>2. added' = added
      BY <2>5 DEF IsMoved, InsertBatchHistory, InsertHistoryFails, outside
    <3> QED
      BY <3>1, <3>2, AddedStep DEF SettingInv
  <2>6. CASE IsDeleted(c, d)
    BY <1>1, <2>6 DEF IsDeleted, NoEntry
  <2>7. CASE IsCompleted(c, d)
    <3>1. db[c][d].status = "Setting"
      BY <1>1, <2>7, CompletedEntry
    <3>2. added' = added
      BY <2>7 DEF IsCompleted, Complete, outside
    <3> QED
      BY <3>1, <3>2, AddedStep DEF SettingInv
  <2> QED
    BY <2>1, <2>2, <2>3, <2>4, <2>5, <2>6, <2>7, EntryStep
<1>2. ASSUME NEW c \in Coll, NEW x \in past'[c], x[2].status = "Setting"
      PROVE  x[1] \in ToNewChain
  BY <1>1, <1>2, PastStep DEF SettingInv
<1>3. ASSUME NEW d \in Doc, carried'[d].status = "Setting"
      PROVE  d \in ToNewChain /\ (added' # {} => d \in missed')
  <2>0. carried'[d] # NoEntry
    BY <1>3 DEF NoEntry
  <2>1. CASE carried' = carried
    <3>1. d \in ToNewChain /\ (added # {} => d \in missed) /\ d \in Docs(carried)
      BY <1>3, <2>0, <2>1 DEF SettingInv, Docs
    <3> QED
      BY <3>1, AddedStep
  <2>2. CASE IsFound(d)
    <3>1. added' = added /\ (added # {} => d \in missed')
      BY <1>3, <2>2 DEF IsFound
    <3>2. CASE carried'[d] = db["latest"][d]
      BY <1>3, <3>1, <3>2 DEF SettingInv, Coll
    <3>3. CASE <<d, carried'[d]>> \in past["latest"]
      <4> DEFINE x == <<d, carried'[d]>>
      <4>1. x[1] = d /\ x[2] = carried'[d] /\ x \in past["latest"]
        BY <3>3
      <4> HIDE DEF x
      <4>2. d \in ToNewChain
        BY <1>3, <4>1 DEF SettingInv, Coll
      <4> QED
        BY <3>1, <4>2
    <3> QED
      BY <2>2, <3>2, <3>3 DEF IsFound
  <2> QED
    BY <2>0, <2>1, <2>2, CarriedStep
<1>4. ASSUME NEW r \in Relate, NEW d \in Doc
      PROVE  mem'[r].page[d].status # "Setting"
  <2>1. CASE mem'[r].page[d] = NoEntry
    BY <2>1 DEF NoEntry
  <2>2. CASE mem'[r].page[d] = mem[r].page[d]
    BY <2>2 DEF SettingInv
  <2>3. CASE IsRead(r, d)
    BY <2>3 DEF IsRead
  <2>4. CASE IsLoaded(r, d)
    BY <2>4, LoadedStatus DEF IsLoaded, SettingInv
  <2> QED
    BY <2>1, <2>2, <2>3, <2>4, PageStep
<1> QED
  BY <1>1, <1>2, <1>3, <1>4 DEF SettingInv

\* Once the task has updated both collections, a transfer still waits for its
\* chain only if another task had it in hand meanwhile.
THEOREM AddedChainReachesAllThm == Spec => []AddedChainReachesAll
<1>1. Init => SettingInv
  BY DEF Init, SettingInv, NoPage, NoEntry, Fresh
<1>2. SettingInv => AddedChainReachesAll
  BY DEF SettingInv, AddedChainReachesAll, InStatus
<1> QED
  BY <1>1, <1>2, IbcTxTypeCorrect, SettingInvInductive, PTL DEF Spec

-----------------------------------------------------------------------------
(* What a step does to a relate run. *)

RunStays(r) == mem'[r] = mem[r] /\ pc'[r] = pc[r] /\ (r \in misled => r \in misled')

\* However a run ends, the denoms it has in hand are inserted or known as lost.
RunEnds(r) == Ends(r) /\ (pc[r] # "update" \/ mem[r].fresh \subseteq denoms' \cup lost')

\* A run that starts while others are at its collection misleads them all.
RunReads(r) ==
  /\ pc[r] \in {"idle", "page"} /\ pc'[r] = "evidence" /\ misled \subseteq misled'
  /\ pc[r] = "idle" => Rivals(r) \subseteq {r} \/ Rivals(r) \cup {r} \subseteq misled'
  /\ mem'[r].known = mem[r].known /\ mem'[r].fresh = mem[r].fresh

RunLoads(r) ==
  /\ pc[r] = "evidence" /\ pc'[r] = "update" /\ misled' = misled
  /\ \E F \in Choose(mem'[r].page, mem[r].known) :
       mem'[r].fresh = F /\ mem'[r].known = mem[r].known \cup {x.hash : x \in F}

RunWrites(r) ==
  /\ pc[r] = "update" /\ pc'[r] = "update" /\ misled' = misled
  /\ mem'[r].known = mem[r].known /\ mem'[r].fresh = mem[r].fresh

RunGoesOn(r) ==
  /\ pc[r] = "update" /\ pc'[r] = "page" /\ misled' = misled
  /\ Docs(mem[r].page) = {} /\ mem'[r].page = mem[r].page
  /\ mem[r].fresh \subseteq denoms' \cup lost' /\ mem'[r].fresh = {}
  /\ mem'[r].known = mem[r].known

LEMMA RunStep ==
  ASSUME TypeOK, [Next]_vars, NEW r \in Relate
  PROVE  RunStays(r) \/ RunEnds(r) \/ RunReads(r) \/ RunLoads(r) \/ RunWrites(r) \/ RunGoesOn(r)
<1>1. CASE ~ RelateAct(r)
  <2>1. CASE \E s \in Relate : RelateAct(s)
    BY <1>1, <2>1, OtherRun DEF RunStays
  <2>2. CASE \A s \in Relate : ~ RelateAct(s)
    BY <2>2, NoRun DEF relate, RunStays
  <2> QED
    BY <2>1, <2>2
<1>2. CASE RelateStart(r) \/ RelateOverlap(r) \/ RelatePage(r)
  <2>1. ReadsPage(r) /\ pc[r] \in {"idle", "page"}
    BY <1>2 DEF RelateStart, RelateOverlap, RelatePage
  <2>2. CASE Ends(r)
    BY <2>1, <2>2 DEF RunEnds
  <2>3. CASE ~ Ends(r)
    <3>1. misled' = misled \cup {s \in Rivals(r) \cup {r} : Overlaps(r)}
      BY <2>1, <2>3, ReadsPageRun
    <3>2. Rivals(r) \subseteq {r} \/ Rivals(r) \cup {r} \subseteq misled'
      BY <3>1 DEF Overlaps
    <3> QED
      BY <2>1, <2>3, <3>1, <3>2, ReadsPageRun DEF RunReads
  <2> QED
    BY <2>2, <2>3
<1>3. CASE RelateStalePage(r)
  <2>1. Rivals(r) \cup {r} \subseteq misled' /\ misled \subseteq misled'
    BY <1>3 DEF RelateStalePage
  <2> QED
    BY <1>3, <2>1, StalePageRun DEF RunReads
<1>4. CASE RelateEvidence(r) \/ RelateBlind(r)
  <2>1. PICK seen : Handles(r, seen)
    BY <1>4 DEF RelateEvidence, RelateBlind
  <2>2. pc[r] = "evidence"
    BY <1>4 DEF RelateEvidence, RelateBlind
  <2> QED
    BY <2>1, <2>2, HandlesRun DEF RunLoads
<1>5. CASE UpdateIbcTx(r) \/ UpdateIbcTxFails(r)
  <2>1. PICK e \in Doc : Done(r, e)
    BY <1>5 DEF UpdateIbcTx, UpdateIbcTxFails, Docs
  <2>2. pc[r] = "update"
    BY <1>5 DEF UpdateIbcTx, UpdateIbcTxFails
  <2> QED
    BY <2>1, <2>2, DoneRun DEF RunWrites
<1>6. CASE AddDenoms(r) \/ AddDenomsFails(r)
  <2>1. /\ GoesOn(r) /\ pc[r] = "update" /\ Docs(mem[r].page) = {}
        /\ mem[r].fresh \subseteq denoms' \cup lost'
    BY <1>6 DEF AddDenoms, AddDenomsFails
  <2> QED
    BY <2>1, GoesOnRun DEF RunEnds, RunGoesOn
<1>7. CASE RelateAbandon(r)
  BY <1>7 DEF RelateAbandon, RunEnds
<1> QED
  BY <1>1, <1>2, <1>3, <1>4, <1>5, <1>6, <1>7 DEF RelateAct, RelateStep, RelateFailure

-----------------------------------------------------------------------------
(* Settled transfers stay settled. *)

\* A run that has nothing in hand.
Idles(r) == pc[r] \in {"idle", "page"} => \A d \in Doc : mem[r].page[d] = NoEntry

\* A run that is not misled is alone at its collection.
Alone(r) == Active(r) => \A s \in Relate : Active(s) /\ Target[s] = Target[r] => s = r

\* No one else settles, or brings to ex_ibc_tx, a document it has in hand.
Holds(r) ==
  \A d \in Docs(mem[r].page) :
    /\ db[Target[r]][d].status \notin {"Success", "Refunded"}
    /\ Target[r] = "history" => d \in Stored("history")

StayInv ==
  /\ AbsentInv
  /\ \A r \in Relate : Idles(r) /\ (r \in misled \/ (Alone(r) /\ Holds(r)))

LEMMA IdlesInductive ==
  ASSUME TypeOK, [Next]_vars, NEW r \in Relate, Idles(r)
  PROVE  Idles(r)'
<1> SUFFICES ASSUME pc'[r] \in {"idle", "page"}, NEW d \in Doc, mem'[r].page[d] # NoEntry
             PROVE  FALSE
  BY DEF Idles
<1>1. ~ RunReads(r) /\ ~ RunLoads(r) /\ ~ RunWrites(r)
  BY DEF RunReads, RunLoads, RunWrites
<1>2. ~ RunEnds(r)
  BY EndsFresh DEF RunEnds
<1>3. ~ RunStays(r)
  BY DEF RunStays, Idles
<1>4. ~ RunGoesOn(r)
  BY DEF RunGoesOn, Docs
<1> QED
  BY <1>1, <1>2, <1>3, <1>4, RunStep

\* A run is misled for as long as it lives.
LEMMA StaysMisled ==
  ASSUME TypeOK, [Next]_vars, NEW r \in Relate, r \in misled, r \notin misled'
  PROVE  ~ Active(r)' /\ \A d \in Doc : mem'[r].page[d] = NoEntry
<1>1. Ends(r)
  BY RunStep DEF RunStays, RunEnds, RunReads, RunLoads, RunWrites, RunGoesOn
<1> QED
  BY <1>1, EndsFresh DEF Active

LEMMA AloneInductive ==
  ASSUME TypeOK, [Next]_vars, StayInv, NEW r \in Relate, r \notin misled'
  PROVE  Alone(r)'
<1> SUFFICES ASSUME Active(r)', NEW s \in Relate, Active(s)', Target[s] = Target[r], s # r
             PROVE  FALSE
  BY DEF Alone
<1>1. r \notin misled
  BY StaysMisled
<1>2. ~ (Active(r) /\ Active(s))
  BY <1>1 DEF StayInv, Alone
<1>3. \A x \in Relate : ~ Active(x) /\ Active(x)' => RunReads(x) /\ pc[x] = "idle"
  <2> SUFFICES ASSUME NEW x \in Relate, ~ Active(x), Active(x)'
               PROVE  RunReads(x)
    BY DEF Active
  <2>1. ~ RunEnds(x)
    BY EndsFresh DEF RunEnds, Active
  <2>2. ~ RunStays(x) /\ ~ RunLoads(x) /\ ~ RunWrites(x) /\ ~ RunGoesOn(x)
    BY DEF RunStays, RunLoads, RunWrites, RunGoesOn, Active
  <2> QED
    BY <2>1, <2>2, RunStep
<1>4. CASE Active(r)
  <2>1. RunReads(s) /\ pc[s] = "idle"
    BY <1>2, <1>3, <1>4
  <2> QED
    BY <1>4, <2>1 DEF RunReads, Rivals
<1>5. CASE Active(s)
  <2>1. RunReads(r) /\ pc[r] = "idle"
    BY <1>2, <1>3, <1>5
  <2> QED
    BY <1>5, <2>1 DEF RunReads, Rivals
<1>6. CASE ~ Active(r) /\ ~ Active(s)
  <2>1. RelateAct(r) /\ RelateAct(s)
    <3>1. \A x \in Relate : pc'[x] # pc[x] => RelateAct(x)
      BY OtherRun, NoRun DEF relate
    <3> QED
      BY <1>6, <3>1 DEF Active
  <2> QED
    BY <1>6, <2>1, OtherRun DEF Active
<1> QED
  BY <1>4, <1>5, <1>6

LEMMA HoldsInductive ==
  ASSUME TypeOK, [Next]_vars, StayInv, NEW r \in Relate, r \notin misled'
  PROVE  Holds(r)'
<1> DEFINE c == Target[r]
<1> SUFFICES ASSUME NEW d \in Doc, mem'[r].page[d] # NoEntry
             PROVE  /\ db'[c][d].status \notin {"Success", "Refunded"}
                    /\ c = "history" => db'[c][d] # NoEntry
  BY DEF Holds, Docs, Stored
<1>0. r \notin misled /\ Alone(r) /\ Holds(r) /\ c \in Coll
  BY StaysMisled, MemoryTyped DEF StayInv
<1>1. CASE IsRead(r, d)
  <2>1. db'[c][d].status = "Processing"
    BY <1>1 DEF IsRead
  <2> QED
    BY <2>1 DEF NoEntry
<1>2. CASE ~ IsRead(r, d)
  <2>1. mem[r].page[d] # NoEntry
    BY <1>2, PageStep DEF IsLoaded
  <2>2. db[c][d].status \notin {"Success", "Refunded"} /\ (c = "history" => db[c][d] # NoEntry)
    BY <1>0, <2>1 DEF Holds, Docs, Stored
  <2>3. CASE db'[c][d] = db[c][d]
    BY <2>2, <2>3
  <2>4. CASE IsStored(c, d)
    BY <2>4 DEF IsStored, FirstStatus
  <2>5. CASE IsJoined(c, d)
    BY <1>0, <2>5, JoinedEntry
  <2>6. ~ IsUpdated(c, d)
    <3> SUFFICES ASSUME NEW s \in Relate, UpdateIbcTx(s), Target[s] = c, mem'[s].page[d] = NoEntry
                 PROVE  FALSE
      BY DEF IsUpdated
    <3>1. Active(s)
      BY DEF UpdateIbcTx, Active
    <3>2. Active(r)
      BY <2>1 DEF StayInv, Idles, Active
    <3> QED
      BY <1>0, <3>1, <3>2 DEF Alone
  <2>7. ~ IsMoved(c, d)
    BY <2>2 DEF IsMoved, KeysOf, Stored
  <2>8. CASE IsDeleted(c, d)
    BY <2>8 DEF IsDeleted, NoEntry
  <2>9. CASE IsCompleted(c, d)
    BY <1>0, <2>2, <2>9, CompletedEntry
  <2> QED
    BY <1>0, <2>3, <2>4, <2>5, <2>6, <2>7, <2>8, <2>9, EntryStep
<1> QED
  BY <1>1, <1>2

LEMMA StayInvInductive ==
  ASSUME TypeOK, StayInv, [Next]_vars
  PROVE  StayInv'
<1>1. AbsentInv'
  BY AbsentInvInductive DEF StayInv
<1>2. ASSUME NEW r \in Relate
      PROVE  Idles(r)' /\ (r \in misled' \/ (Alone(r)' /\ Holds(r)'))
  BY <1>2, IdlesInductive, AloneInductive, HoldsInductive DEF StayInv
<1> QED
  BY <1>1, <1>2 DEF StayInv

LEMMA StayStep ==
  ASSUME TypeOK, StayInv, [Next]_vars, NEW c \in Coll, NEW d \in InStatus(c, {"Success", "Refunded"})
  PROVE  \/ db'[c][d] = NoEntry
         \/ db'[c][d].status = db[c][d].status /\ db[c][d].info \subseteq db'[c][d].info
         \/ \E r \in misled : pc[r] = "update"
<1>0. d \in Doc /\ db[c][d].status \in {"Success", "Refunded"} /\ db[c][d] # NoEntry
  BY DEF InStatus, NoEntry
<1>1. ~ IsStored(c, d)
  BY <1>0, SyncedGrows DEF IsStored, StayInv, AbsentInv
<1>2. ~ IsJoined(c, d)
  BY <1>0 DEF IsJoined
<1>3. ~ IsMoved(c, d)
  BY <1>0 DEF IsMoved, KeysOf, Stored
<1>4. CASE IsUpdated(c, d)
  <2>1. PICK r \in Relate : pc[r] = "update" /\ Target[r] = c /\ d \in Docs(mem[r].page)
    BY <1>4 DEF IsUpdated, UpdateIbcTx
  <2>2. r \in misled
    BY <1>0, <2>1 DEF StayInv, Holds
  <2> QED
    BY <2>1, <2>2
<1>5. CASE IsDeleted(c, d)
  BY <1>5 DEF IsDeleted
<1>6. CASE IsCompleted(c, d)
  BY <1>0, <1>6, CompletedEntry
<1>7. CASE db'[c][d] = db[c][d]
  BY <1>7
<1> QED
  BY <1>0, <1>1, <1>2, <1>3, <1>4, <1>5, <1>6, <1>7, EntryStep

\* Only a run that overlaps with another, or has read a lagging replica, can
\* undo what a task has settled or completed.
THEOREM SettledStaysThm == Spec => SettledStays
<1>1. Init => StayInv
  BY AbsentInvInit DEF Init, StayInv, Idles, Alone, Holds, Active, Fresh, NoPage, Docs
<1>2. TypeOK /\ StayInv /\ [Next]_vars =>
        [\A c \in Coll : \A d \in InStatus(c, {"Success", "Refunded"}) :
           \/ db'[c][d] = NoEntry
           \/ db'[c][d].status = db[c][d].status /\ db[c][d].info \subseteq db'[c][d].info
           \/ \E r \in misled : pc[r] = "update"]_vars
  BY StayStep
<1>3. TypeOK /\ StayInv /\ [Next]_vars => StayInv'
  BY StayInvInductive
<1> QED
  BY <1>1, <1>2, <1>3, IbcTxTypeCorrect, PTL DEF Spec, SettledStays

-----------------------------------------------------------------------------
(* Denoms are registered. *)

Accounted(x) == x \in denoms \cup lost \/ \E r \in Relate : x \in mem[r].fresh
Covered(d) == Hidden(d) \/ Accounted(DenomOf[d])
Registered(d, e) == e.status = "Success" /\ d \notin Home => Covered(d)

\* Every entry that some task may write is registered, a run's list of new
\* denoms is filled only when it has looked at a page, and the hashes it knows
\* are the source chain's or those of denoms that are taken care of.
DenomInv ==
  /\ \A c \in Coll, d \in Doc : Registered(d, db[c][d])
  /\ \A c \in Coll : \A x \in past[c] : Registered(x[1], x[2])
  /\ \A d \in Doc : Registered(d, carried[d])
  /\ \A r \in Relate :
       /\ \A d \in Doc : Registered(d, mem[r].page[d])
       /\ pc[r] # "update" => mem[r].fresh = {}
       /\ \A h \in mem[r].known \ SourceHash :
            \E d \in Doc : DenomOf[d].hash = h /\ Accounted(DenomOf[d])

LEMMA DenomsGrow ==
  ASSUME TypeOK, [Next]_vars
  PROVE  denoms \subseteq denoms' /\ lost \subseteq lost'
<1>1. ASSUME NEW r \in Relate, RelateAct(r)
      PROVE  denoms \subseteq denoms' /\ lost \subseteq lost'
  BY <1>1
  DEF RelateAct, RelateStep, RelateFailure, RelateStart, RelateOverlap, RelatePage, RelateStalePage,
      RelateEvidence, RelateBlind, UpdateIbcTx, UpdateIbcTxFails, AddDenoms, AddDenomsFails,
      RelateAbandon, collections
<1>2. CASE \A r \in Relate : ~ RelateAct(r)
  BY <1>2
  DEF RelateAct, Next, vars, ChainStep, Configure, ReadChains, Store, AddNewChainUpdate, Migrate,
      MigrateFailure, FindByStatus, CountNormal, InsertBatchHistory, DelBatch, FindStaleByStatus,
      InsertHistoryFails, DelBatchFails, MigrateAbandon, FindIncomplete, Complete, collections
<1> QED
  BY <1>1, <1>2

\* What is taken care of stays so.
LEMMA AccountedStays ==
  ASSUME TypeOK, DenomInv, [Next]_vars, NEW x, Accounted(x)
  PROVE  Accounted(x)'
<1>1. CASE x \in denoms \cup lost
  BY <1>1, DenomsGrow DEF Accounted
<1>2. ASSUME NEW r \in Relate, x \in mem[r].fresh
      PROVE  Accounted(x)'
  <2>1. pc[r] = "update"
    BY <1>2 DEF DenomInv
  <2>2. mem'[r].fresh = mem[r].fresh \/ mem[r].fresh \subseteq denoms' \cup lost'
    BY <2>1, RunStep DEF RunStays, RunEnds, RunReads, RunLoads, RunWrites, RunGoesOn
  <2> QED
    BY <1>2, <2>2 DEF Accounted
<1> QED
  BY <1>1, <1>2 DEF Accounted

\* Two denoms of a hash: one is taken care of, or the other hides it.
LEMMA SameHash ==
  ASSUME NEW d \in Doc, NEW e \in Doc, DenomOf[e].hash = DenomOf[d].hash, Accounted(DenomOf[e])'
  PROVE  Covered(d)'
BY DEF Covered, Hidden

LEMMA KnownStays ==
  ASSUME TypeOK, DenomInv, [Next]_vars, NEW r \in Relate, NEW h \in mem[r].known \ SourceHash
  PROVE  \E d \in Doc : DenomOf[d].hash = h /\ Accounted(DenomOf[d])'
<1>1. PICK d \in Doc : DenomOf[d].hash = h /\ Accounted(DenomOf[d])
  BY DEF DenomInv
<1>2. Accounted(DenomOf[d])'
  BY <1>1, AccountedStays
<1> QED
  BY <1>1, <1>2

\* After a page was looked at, each denom it brings is in the list, or its hash
\* was known.
LEMMA LoadsCovers ==
  ASSUME TypeOK, DenomInv, [Next]_vars, NEW r \in Relate, RunLoads(r),
         NEW d \in Doc, mem'[r].page[d].status = "Success", d \notin Home
  PROVE  Covered(d)'
<1>1. PICK F \in Choose(mem'[r].page, mem[r].known) : mem'[r].fresh = F
  BY DEF RunLoads
<1>2. DenomOf[d] \in Brought(mem'[r].page)
  BY DEF Brought
<1>3. CASE DenomOf[d].hash \in SourceHash
  BY <1>3 DEF Covered, Hidden
<1>4. CASE DenomOf[d].hash \in mem[r].known \ SourceHash
  <2>1. PICK e \in Doc : DenomOf[e].hash = DenomOf[d].hash /\ Accounted(DenomOf[e])'
    BY <1>4, KnownStays
  <2> QED
    BY <2>1, SameHash
<1>5. CASE DenomOf[d].hash \notin mem[r].known
  <2>1. Cardinality({y \in F : y.hash = DenomOf[d].hash}) = 1
    BY <1>1, <1>2, <1>5 DEF Choose
  <2>2. {y \in F : y.hash = DenomOf[d].hash} # {}
    BY <2>1, FS_EmptySet
  <2>3. PICK y \in F : y.hash = DenomOf[d].hash
    BY <2>2
  <2>4. PICK e \in Doc : y = DenomOf[e]
    BY <1>1, <2>3, BroughtTyped DEF Denom
  <2>5. Accounted(DenomOf[e])'
    BY <1>1, <2>3, <2>4 DEF Accounted
  <2> QED
    BY <2>3, <2>4, <2>5, SameHash
<1> QED
  BY <1>3, <1>4, <1>5

LEMMA RunDenoms ==
  ASSUME TypeOK, DenomInv, [Next]_vars, NEW r \in Relate
  PROVE  /\ pc'[r] # "update" => mem'[r].fresh = {}
         /\ \A h \in mem'[r].known \ SourceHash :
              \E d \in Doc : DenomOf[d].hash = h /\ Accounted(DenomOf[d])'
<1>1. pc'[r] # "update" => mem'[r].fresh = {}
  <2>1. Ends(r) => mem'[r].fresh = {}
    BY EndsFresh DEF Fresh
  <2> QED
    BY <2>1, RunStep DEF DenomInv, RunStays, RunEnds, RunReads, RunLoads, RunWrites, RunGoesOn
<1>2. ASSUME NEW h \in mem'[r].known \ SourceHash
      PROVE  \E d \in Doc : DenomOf[d].hash = h /\ Accounted(DenomOf[d])'
  <2>1. CASE h \in mem[r].known
    BY <1>2, <2>1, KnownStays
  <2>2. CASE h \notin mem[r].known
    <3>1. ~ Ends(r)
      BY <1>2, EndsFresh DEF Fresh
    <3>2. RunLoads(r)
      BY <1>2, <2>2, <3>1, RunStep DEF RunStays, RunEnds, RunReads, RunWrites, RunGoesOn
    <3>3. PICK F \in Choose(mem'[r].page, mem[r].known) :
            mem'[r].fresh = F /\ mem'[r].known = mem[r].known \cup {x.hash : x \in F}
      BY <3>2 DEF RunLoads
    <3>4. PICK y \in F : y.hash = h
      BY <1>2, <2>2, <3>3
    <3>5. PICK d \in Doc : y = DenomOf[d]
      BY <3>3, <3>4, BroughtTyped DEF Denom
    <3> QED
      BY <3>3, <3>4, <3>5 DEF Accounted
  <2> QED
    BY <2>1, <2>2
<1> QED
  BY <1>1, <1>2

LEMMA DenomInvInductive ==
  ASSUME TypeOK, DenomInv, [Next]_vars
  PROVE  DenomInv'
<1>1. ASSUME NEW c \in Coll, NEW d \in Doc, db'[c][d].status = "Success", d \notin Home
      PROVE  Covered(d)'
  <2>1. \A e : Registered(d, e) /\ e.status = "Success" => Covered(d)'
    BY <1>1, AccountedStays DEF Registered, Covered, Hidden
  <2>2. CASE db'[c][d] = db[c][d] \/ IsCompleted(c, d)
    <3>1. db[c][d].status = "Success"
      BY <1>1, <2>2, CompletedEntry
    <3> QED
      BY <2>1, <3>1 DEF DenomInv
  <2>3. ~ IsStored(c, d) /\ ~ IsDeleted(c, d)
    BY <1>1 DEF IsStored, FirstStatus, IsDeleted, NoEntry
  <2>4. ~ IsJoined(c, d)
    BY <1>1, JoinedEntry
  <2>5. CASE IsUpdated(c, d)
    BY <1>1, <2>1, <2>5 DEF IsUpdated, DenomInv
  <2>6. CASE IsMoved(c, d)
    BY <1>1, <2>1, <2>6 DEF IsMoved, DenomInv
  <2> QED
    BY <2>2, <2>3, <2>4, <2>5, <2>6, EntryStep
<1>2. ASSUME NEW c \in Coll, NEW x \in past'[c], x[2].status = "Success", x[1] \notin Home
      PROVE  Covered(x[1])'
  <2>1. CASE x \in past[c]
    <3>1. x[1] \in Doc /\ Covered(x[1])
      BY <1>2, <2>1 DEF TypeOK, DenomInv, Registered
    <3> QED
      BY <3>1, AccountedStays DEF Covered, Hidden
  <2>2. CASE x \notin past[c]
    BY <1>1, <1>2, <2>2, PastStep
  <2> QED
    BY <2>1, <2>2
<1>3. ASSUME NEW d \in Doc, carried'[d].status = "Success", d \notin Home
      PROVE  Covered(d)'
  <2>0. carried'[d] # NoEntry
    BY <1>3 DEF NoEntry
  <2>1. Covered(d)
    <3>1. CASE carried' = carried
      BY <1>3, <3>1 DEF DenomInv, Registered
    <3>2. CASE carried'[d] = db["latest"][d]
      BY <1>3, <3>2 DEF DenomInv, Registered, Coll
    <3>3. CASE <<d, carried'[d]>> \in past["latest"]
      <4> DEFINE x == <<d, carried'[d]>>
      <4>1. x[1] = d /\ x[2] = carried'[d] /\ x \in past["latest"]
        BY <3>3
      <4> HIDE DEF x
      <4> QED
        BY <1>3, <4>1 DEF DenomInv, Registered, Coll
    <3> QED
      BY <2>0, <3>1, <3>2, <3>3, CarriedStep DEF IsFound
  <2> QED
    BY <2>1, AccountedStays DEF Covered, Hidden
<1>4. ASSUME NEW r \in Relate, NEW d \in Doc, mem'[r].page[d].status = "Success", d \notin Home
      PROVE  Covered(d)'
  <2>0. mem'[r].page[d] # NoEntry
    BY <1>4 DEF NoEntry
  <2>1. CASE mem'[r].page[d] = mem[r].page[d]
    <3>1. Covered(d)
      BY <1>4, <2>1 DEF DenomInv, Registered
    <3> QED
      BY <3>1, AccountedStays DEF Covered, Hidden
  <2>2. ~ IsRead(r, d)
    BY <1>4 DEF IsRead
  <2>3. CASE IsLoaded(r, d)
    <3>1. CASE RunLoads(r)
      BY <1>4, <3>1, LoadsCovers
    <3>2. ~ RunEnds(r)
      BY <2>0, EndsFresh DEF RunEnds
    <3>3. ~ RunReads(r) /\ ~ RunWrites(r) /\ ~ RunGoesOn(r)
      BY <2>3 DEF IsLoaded, RunReads, RunWrites, RunGoesOn
    <3>4. CASE RunStays(r)
      BY <2>1, <3>4 DEF RunStays
    <3> QED
      BY <3>1, <3>2, <3>3, <3>4, RunStep
  <2> QED
    BY <2>0, <2>1, <2>2, <2>3, PageStep
<1> QED
  BY <1>1, <1>2, <1>3, <1>4, RunDenoms DEF DenomInv, Registered

\* The denom of every settled transfer is registered, in a run's hands, lost by
\* one that failed, or hidden by another denom of the same hash.
THEOREM DenomRegisteredThm == Spec => []DenomRegistered
<1>1. Init => DenomInv
  BY DEF Init, DenomInv, Registered, NoPage, NoEntry, Fresh
<1>2. DenomInv => DenomRegistered
  BY DEF DenomInv, Registered, Covered, Accounted, DenomRegistered, InStatus
<1> QED
  BY <1>1, <1>2, IbcTxTypeCorrect, DenomInvInductive, PTL DEF Spec

=============================================================================

------------------------------- MODULE IbcTx -------------------------------
(***************************************************************************)
(* The life of a stored transfer, for one source chain.  The sync task has *)
(* put it into ex_ibc_tx_latest (TransferSync); from then on tasks that do *)
(* not exclude each other work on it:                                      *)
(*   ibc_tx_relate_task and ibc_tx_relate_history_task look for the packet *)
(*     on both chains and settle the transfers in status Processing, one   *)
(*     in ex_ibc_tx_latest, the other in ex_ibc_tx;                        *)
(*   ibc_tx_migrate_task moves the oldest documents to ex_ibc_tx;          *)
(*   ibc_sync_acknowledge_tx_task fills in what came late;                 *)
(*   add_chain_task turns Setting into Processing once a chain is known.   *)
(* Each reads documents, works on its copies and writes them later.  The   *)
(* documents of transfers that failed on the source chain, which only the  *)
(* migrate task takes up, are left out.                                    *)
(***************************************************************************)
EXTENDS Integers, FiniteSets

CONSTANTS Doc,         \* the documents: transfers as the sync task stored them
          KeyOf,       \* what sc_tx_unique is made of; copies share it
          OutcomeOf,   \* what becomes of the packet: "ok", "error" or "timeout"
          DenomOf,     \* the denom it has on the destination: [chain, hash]
          Home,        \* transfers that bring a denom back where it came from
          ToNewChain,  \* transfers to the chain that is added on the way
          SourceHash,  \* hashes of the source chain's own denoms
          Relate,      \* the runs of the two relate tasks
          Target,      \* the collection each works on
          PageLimit,   \* constant.DefaultLimit
          MaxRelate,   \* SingleChainIbcTxRelateMax
          Keep,        \* ibcTxCount: how many documents latest keeps
          MigrateLimit,\* the page of the migrate task
          NoDoc,       \* a null value
          MaxFaults    \* bound: failures, crashes, stale reads and overlaps

Coll == {"latest", "history"}
Key == {KeyOf[d] : d \in Doc}
Denom == {DenomOf[d] : d \in Doc}
Outcome(d) == OutcomeOf[KeyOf[d]]

ASSUME IbcTxAssumption ==
  /\ IsFiniteSet(Doc) /\ NoDoc \notin Doc
  /\ OutcomeOf \in [Key -> {"ok", "error", "timeout"}]
  /\ Home \subseteq Doc /\ ToNewChain \subseteq Doc
  /\ Target \in [Relate -> Coll]
  /\ PageLimit \in Nat \ {0} /\ MigrateLimit \in Nat \ {0}
  /\ MaxRelate \in Nat /\ Keep \in Nat /\ MaxFaults \in Nat

VARIABLES
  \* the chains, the operator and the sync task
  facts,       \* what the syncers have written of each packet
  configured,  \* the new chain is in chain_config
  mapped,      \* the running sync task has read chain_config since
  synced,      \* documents the sync task has stored
  added,       \* collections add_chain_task has updated
  \* the collections of the backend
  db,          \* ex_ibc_tx_latest and ex_ibc_tx
  past,        \* history: every entry a document has had
  denoms,      \* ibc_denom: those of the destination chains
  \* the runs of the relate tasks
  pc, mem,
  misled,      \* history: runs that may not see what another one has written
  \* the migrate task: where it stands, its loop, its batches left, its page
  stage, loop, left, carried,
  \* the two loops of ibc_sync_acknowledge_tx_task: the document in hand
  fixing,
  \* histories
  missed,      \* documents on the move, or stored, while the chain was added
  lost,        \* denoms a run had in hand when it failed
  faults       \* failures, crashes, stale reads and overlaps so far

outside == <<facts, configured, mapped, synced, added>>
collections == <<db, past, denoms>>
relate == <<pc, mem, misled>>
migrate == <<stage, loop, left, carried>>
vars == <<facts, configured, mapped, synced, added, db, past, denoms, pc, mem, misled,
          stage, loop, left, carried, fixing, missed, lost, faults>>

\* What a document tells: its status, and which of dc_tx_info and
\* ack_timeout_tx_info it has.
Entry == [status : {"Setting", "Processing", "Success", "Refunded"},
          info : SUBSET {"dc", "ack"}]
NoEntry == [status |-> "absent", info |-> {}]
Entries == Entry \cup {NoEntry}
NoPage == [d \in Doc |-> NoEntry]

\* What a relate run keeps: its page, the transfers so far, whether it goes on
\* to another page, the hashes it knows, and the denoms it is to insert.
Memory == [page : [Doc -> Entries], total : Nat, next : {"page", "idle"},
           known : SUBSET (SourceHash \cup {x.hash : x \in Denom}),
           fresh : SUBSET Denom]
Fresh == [page |-> NoPage, total |-> 0, next |-> "idle", known |-> SourceHash,
          fresh |-> {}]

\* Every stored, carried and read copy of a transfer is one the tasks can write.
TypeOK ==
  /\ facts \in [Key -> SUBSET {"recv", "ack", "timeout"}]
  /\ configured \in BOOLEAN /\ mapped \in BOOLEAN
  /\ synced \subseteq Doc
  /\ added \subseteq Coll
  /\ db \in [Coll -> [Doc -> Entries]]
  /\ past \in [Coll -> SUBSET (Doc \X Entries)]
  /\ denoms \subseteq Denom
  /\ pc \in [Relate -> {"idle", "page", "evidence", "update"}]
  /\ mem \in [Relate -> Memory]
  /\ misled \subseteq Relate
  /\ stage \in {"find", "count", "insert", "delete"}
  /\ loop \in {"setting", "normal"}
  /\ left \in Nat
  /\ carried \in [Doc -> Entries]
  /\ fixing \in [{"dc", "ack"} -> Doc \cup {NoDoc}]
  /\ missed \subseteq Doc
  /\ lost \subseteq Denom
  /\ faults \in 0 .. MaxFaults

Init ==
  /\ facts = [k \in Key |-> {}]
  /\ configured = FALSE /\ mapped = FALSE
  /\ synced = {}
  /\ added = {}
  /\ db = [c \in Coll |-> NoPage]
  /\ past = [c \in Coll |-> {}]
  /\ denoms = {}
  /\ pc = [r \in Relate |-> "idle"]
  /\ mem = [r \in Relate |-> Fresh]
  /\ misled = {}
  /\ stage = "find"
  /\ loop = "setting"
  /\ left = 0
  /\ carried = NoPage
  /\ fixing = [f \in {"dc", "ack"} |-> NoDoc]
  /\ missed = {}
  /\ lost = {}
  /\ faults = 0

Stored(c) == {d \in Doc : db[c][d] # NoEntry}
InStatus(c, statuses) == {d \in Doc : db[c][d].status \in statuses}
Docs(page) == {d \in Doc : page[d] # NoEntry}

\* The collection c becomes new.  Its past matters while a stale read may come.
Write(c, new) ==
  /\ db' = [db EXCEPT ![c] = new]
  /\ past' = IF faults = MaxFaults THEN [x \in Coll |-> {}]
             ELSE [past EXCEPT ![c] = @ \cup {<<d, new[d]>> : d \in Docs(new)}]

Fault ==
  /\ faults < MaxFaults
  /\ faults' = faults + 1

-----------------------------------------------------------------------------
(* The chains, and the sync task. *)

\* What can be seen of a packet in the end.  The receive transaction of a
\* packet that times out is a failed one.
Evidence(outcome) == IF outcome = "timeout" THEN {"recv", "timeout"} ELSE {"recv", "ack"}

\* The syncers of the two chains work independently of each other.
ChainStep ==
  /\ \E k \in Key : \E f \in Evidence(OutcomeOf[k]) \ facts[k] :
       facts' = [facts EXCEPT ![k] = @ \cup {f}]
  /\ UNCHANGED <<configured, mapped, synced, added, collections, relate, migrate,
                 fixing, missed, lost, faults>>

\* An operator adds the chain to chain_config.
Configure ==
  /\ ~ configured
  /\ ToNewChain # {}
  /\ configured' = TRUE
  /\ UNCHANGED <<facts, mapped, synced, added, collections, relate, migrate, fixing,
                 missed, lost, faults>>

\* A new run of the sync task reads chain_config.
ReadChains ==
  /\ mapped # configured
  /\ mapped' = configured
  /\ UNCHANGED <<facts, configured, synced, added, collections, relate, migrate, fixing,
                 missed, lost, faults>>

\* handleSourceTx: the status a transfer is stored with.
FirstStatus(d) == IF d \in ToNewChain /\ ~ mapped THEN "Setting" ELSE "Processing"

Store(d) ==
  /\ d \notin synced
  /\ synced' = synced \cup {d}
  /\ Write("latest", [db["latest"] EXCEPT ![d] = [status |-> FirstStatus(d), info |-> {}]])
  /\ missed' = missed \cup {x \in {d} : FirstStatus(x) = "Setting" /\ added # {}}
  /\ UNCHANGED <<facts, configured, mapped, added, denoms, relate, migrate, fixing,
                 lost, faults>>

-----------------------------------------------------------------------------
(* add_chain_task. *)

Joined(c) ==
  [d \in Doc |-> IF d \in ToNewChain /\ db[c][d].status \in {"Setting", "Processing"}
                   THEN [db[c][d] EXCEPT !.status = "Processing"]
                   ELSE db[c][d]]

\* An update that does not look at the status.
AddNewChainUpdateAll(c) ==
  /\ configured
  /\ c \notin added
  /\ added' = added \cup {c}
  /\ Write(c, [d \in Doc |-> IF d \in ToNewChain \cap Stored(c)
                               THEN [db[c][d] EXCEPT !.status = "Processing"]
                               ELSE db[c][d]])
  /\ missed' = missed \cup (Docs(carried) \cap ToNewChain)
  /\ UNCHANGED <<facts, configured, mapped, synced, denoms, relate, migrate, fixing,
                 lost, faults>>

\* An update that leaves ex_ibc_tx as it is.
AddNewChainUpdateLatest(c) ==
  /\ configured
  /\ c \notin added
  /\ added' = added \cup {c}
  /\ Write(c, IF c = "latest" THEN Joined(c) ELSE db[c])
  /\ missed' = missed \cup (Docs(carried) \cap ToNewChain)
  /\ UNCHANGED <<facts, configured, mapped, synced, denoms, relate, migrate, fixing,
                 lost, faults>>

\* AddNewChainUpdate and AddNewChainUpdateHistory, two goroutines; the new
\* chain was put into chain_config before.
AddNewChainUpdate(c) ==
  /\ configured
  /\ c \notin added
  /\ added' = added \cup {c}
  /\ Write(c, Joined(c))
  /\ missed' = missed \cup (Docs(carried) \cap ToNewChain)
  /\ UNCHANGED <<facts, configured, mapped, synced, denoms, relate, migrate, fixing,
                 lost, faults>>

-----------------------------------------------------------------------------
(* The relate tasks. *)

Active(r) == pc[r] # "idle"

Ends(r) ==
  /\ pc' = [pc EXCEPT ![r] = "idle"]
  /\ mem' = [mem EXCEPT ![r] = Fresh]
  /\ misled' = misled \ {r}

\* A page is taken; relateTx goes on only after a full one, and up to a limit.
TakesPage(r, page) ==
  LET size == Cardinality(Docs(page))
      total == mem[r].total + size IN
    /\ pc' = [pc EXCEPT ![r] = "evidence"]
    /\ mem' = [mem EXCEPT ![r].page = page, ![r].total = total,
                 ![r].next = IF size < PageLimit \/ total >= MaxRelate
                               THEN "idle" ELSE "page"]

\* The runs at the same collection.
Rivals(r) == {s \in Relate : Active(s) /\ Target[s] = Target[r]}
Overlaps(r) == Rivals(r) \ {r} # {}

\* At most a page of the transfers of c in status Processing.
ReadsFrom(r, c) ==
  LET open == InStatus(c, {"Processing"}) IN
    \E S \in SUBSET open :
      /\ Cardinality(S) <= PageLimit
      /\ Cardinality(S) < PageLimit => S = open
      /\ IF S = {} THEN Ends(r)
         ELSE /\ TakesPage(r, [d \in Doc |-> IF d \in S THEN db[c][d] ELSE NoEntry])
              /\ misled' = misled \cup {s \in Rivals(r) \cup {r} : Overlaps(r)}

\* A history task that works on ex_ibc_tx_latest.
ReadsLatest(r) == ReadsFrom(r, "latest")

\* getToBeRelatedTxs.
ReadsPage(r) == ReadsFrom(r, Target[r])

\* Cron starts a task, which reads its first page.
RelateStart(r) ==
  /\ pc[r] = "idle"
  /\ ~ Overlaps(r)
  /\ ReadsPage(r)
  /\ UNCHANGED <<outside, collections, migrate, fixing, missed, lost, faults>>

\* The same while another run, which outlived its lock, is still at it.
RelateOverlap(r) ==
  /\ pc[r] = "idle"
  /\ Overlaps(r)
  /\ Fault
  /\ ReadsPage(r)
  /\ UNCHANGED <<outside, collections, migrate, fixing, missed, lost>>

RelatePage(r) ==
  /\ pc[r] = "page"
  /\ ReadsPage(r)
  /\ UNCHANGED <<outside, collections, migrate, fixing, missed, lost, faults>>

\* Documents of c as a replica that lags behind may show them.
Old(c, statuses) ==
  {page \in [Doc -> {NoEntry} \cup {x[2] : x \in past[c]}] :
     \A d \in Docs(page) : <<d, page[d]>> \in past[c] /\ page[d].status \in statuses}

RelateStalePage(r) ==
  /\ pc[r] = "page" \/ (pc[r] = "idle" /\ ~ Overlaps(r))
  /\ Fault
  /\ \E page \in Old(Target[r], {"Processing"}) :
       /\ Cardinality(Docs(page)) \in 1 .. PageLimit
       /\ TakesPage(r, page)
  /\ misled' = misled \cup Rivals(r) \cup {r}
  /\ UNCHANGED <<outside, collections, migrate, fixing, missed, lost>>

\* loadTimeoutPacketTx: refunded, with what was seen of a late packet.
LoadTimeoutPacketTx(e, seen) ==
  [status |-> "Refunded", info |-> e.info \cup {"ack"} \cup {i \in {"dc"} : "recv" \in seen}]

\* A transfer that is taken to be refunded as soon as its time is over.
LoadByClock(d, e, seen) ==
  CASE Outcome(d) = "ok" /\ "recv" \in seen ->
         [status |-> "Success", info |-> e.info \cup {"dc"} \cup (seen \cap {"ack"})]
    [] Outcome(d) = "timeout" -> [status |-> "Refunded", info |-> e.info \cup {"ack"}]
    [] OTHER -> e

\* loadRecvPacketTx, and the timeouts: the transfer after what was seen of its packet.
Load(d, e, seen) ==
  CASE Outcome(d) = "ok" /\ "recv" \in seen ->
         [status |-> "Success", info |-> e.info \cup {"dc"} \cup (seen \cap {"ack"})]
    [] Outcome(d) = "error" /\ {"recv", "ack"} \subseteq seen ->
         [status |-> "Refunded", info |-> {"dc", "ack"}]
    [] Outcome(d) = "timeout" /\ "timeout" \in seen -> LoadTimeoutPacketTx(e, seen)
    [] OTHER -> e

\* Those of acknowledged transfers only.
BroughtAcked(page) ==
  {DenomOf[d] : d \in {x \in Doc : page[x].status = "Success" /\ "ack" \in page[x].info} \ Home}

\* The denoms that settled transfers bring to their destination chains.
Brought(page) == {DenomOf[d] : d \in {x \in Doc : page[x].status = "Success"} \ Home}

\* The denoms to insert: the first one of each hash the run does not know.
\* denomMap is keyed by the hash alone.
Choose(page, known) ==
  LET unknown == {x \in Brought(page) : x.hash \notin known} IN
    {F \in SUBSET unknown :
       \A x \in unknown : Cardinality({y \in F : y.hash = x.hash}) = 1}

Handles(r, seen) ==
  LET page == [d \in Doc |-> IF mem[r].page[d] = NoEntry THEN NoEntry
                               ELSE Load(d, mem[r].page[d], seen[KeyOf[d]])] IN
    /\ \E F \in Choose(page, mem[r].known) :
         mem' = [mem EXCEPT ![r].page = page, ![r].fresh = F,
                            ![r].known = @ \cup {x.hash : x \in F}]
    /\ pc' = [pc EXCEPT ![r] = "update"]
    /\ UNCHANGED misled

\* packetIdTx.
RelateEvidence(r) ==
  /\ pc[r] = "evidence"
  /\ Handles(r, facts)
  /\ UNCHANGED <<outside, collections, migrate, fixing, missed, lost, faults>>

\* The same when a query fails, which is logged, or a replica lags.
RelateBlind(r) ==
  /\ pc[r] = "evidence"
  /\ Fault
  /\ \E k \in Key : \E some \in SUBSET facts[k] :
       some # facts[k] /\ Handles(r, [facts EXCEPT ![k] = some])
  /\ UNCHANGED <<outside, collections, migrate, fixing, missed, lost>>

Done(r, d) == mem' = [mem EXCEPT ![r].page[d] = NoEntry] /\ UNCHANGED <<pc, misled>>

\* updateIbcTx: everything but the destination chain is written.  A document
\* that is no longer there is an error, which is logged.
UpdateIbcTx(r) ==
  LET c == Target[r] IN
  /\ pc[r] = "update"
  /\ \E d \in Docs(mem[r].page) :
       /\ IF d \in Stored(c)
            THEN Write(c, [db[c] EXCEPT ![d] = mem[r].page[d]])
            ELSE UNCHANGED <<db, past>>
       /\ Done(r, d)
  /\ UNCHANGED <<outside, denoms, migrate, fixing, missed, lost, faults>>

UpdateIbcTxFails(r) ==
  /\ pc[r] = "update"
  /\ Fault
  /\ \E d \in Docs(mem[r].page) : Done(r, d)
  /\ UNCHANGED <<outside, collections, migrate, fixing, missed, lost>>

GoesOn(r) ==
  IF mem[r].next = "idle" THEN Ends(r)
  ELSE /\ pc' = [pc EXCEPT ![r] = "page"]
       /\ mem' = [mem EXCEPT ![r].fresh = {}]
       /\ UNCHANGED misled

\* The end of handlerIbcTxs: denomRepo.InsertBatch.
AddDenoms(r) ==
  /\ pc[r] = "update"
  /\ Docs(mem[r].page) = {}
  /\ denoms' = denoms \cup mem[r].fresh
  /\ GoesOn(r)
  /\ UNCHANGED <<outside, db, past, migrate, fixing, missed, lost, faults>>

\* An error is logged and the run goes on.
AddDenomsFails(r) ==
  /\ pc[r] = "update"
  /\ Docs(mem[r].page) = {}
  /\ Fault
  /\ \E some \in SUBSET mem[r].fresh : denoms' = denoms \cup some
  /\ lost' = lost \cup mem[r].fresh
  /\ GoesOn(r)
  /\ UNCHANGED <<outside, db, past, migrate, fixing, missed>>

\* A page cannot be read, or the process dies.
RelateAbandon(r) ==
  /\ Active(r)
  /\ Fault
  /\ lost' = lost \cup mem[r].fresh
  /\ Ends(r)
  /\ UNCHANGED <<outside, collections, migrate, fixing, missed>>

-----------------------------------------------------------------------------
(* ibc_tx_migrate_task. *)

\* The task has ended, and may be started again.
Ended == stage' = "find" /\ loop' = "setting" /\ left' = 0

\* IbcTxUsefulStatus.
Normal == {"Success", "Processing", "Refunded"}

\* migrateNormal, once migrateSetting is over, whatever became of it.
CountNormal ==
  /\ stage = "count"
  /\ LET normal == Cardinality(InStatus("latest", Normal)) IN
       IF normal >= Keep + MigrateLimit
         THEN /\ left' = (normal - Keep) \div MigrateLimit
              /\ stage' = "find"
              /\ loop' = "normal"
         ELSE Ended
  /\ UNCHANGED <<outside, collections, relate, carried, fixing, missed, lost, faults>>

ToMigrate ==
  IF loop = "setting" THEN {"Setting"} ELSE Normal

\* Where the task goes when it has done with a page, or there was an error.
LeavesLoop ==
  IF loop = "setting" THEN stage' = "count" /\ UNCHANGED <<loop, left>> ELSE Ended

Carries(page) ==
  /\ carried' = page
  /\ missed' = missed \cup {d \in Docs(page) : page[d].status = "Setting" /\ added # {}}
  /\ IF page = NoPage THEN LeavesLoop ELSE stage' = "insert" /\ UNCHANGED <<loop, left>>

FindByStatus ==
  /\ stage = "find"
  /\ \E S \in SUBSET InStatus("latest", ToMigrate) :
       /\ Cardinality(S) <= MigrateLimit
       /\ Cardinality(S) < MigrateLimit => S = InStatus("latest", ToMigrate)
       /\ Carries([d \in Doc |-> IF d \in S THEN db["latest"][d] ELSE NoEntry])
  /\ UNCHANGED <<outside, collections, relate, fixing, lost, faults>>

\* The same from a replica that lags: documents that were moved or changed
\* since may be among them.
FindStaleByStatus ==
  /\ stage = "find"
  /\ Fault
  /\ \E page \in Old("latest", ToMigrate) :
       /\ Cardinality(Docs(page)) \in 1 .. MigrateLimit
       /\ Carries(page)
  /\ UNCHANGED <<outside, collections, relate, fixing, lost>>

KeysOf(S) == {KeyOf[d] : d \in S}
Arrived(S) == [d \in Doc |-> IF d \in S THEN carried[d] ELSE db["history"][d]]

\* What sc_tx_unique lets in: one document of each key that is not there yet.
Accepted ==
  {S \in SUBSET Docs(carried) :
     /\ KeysOf(S) = KeysOf(Docs(carried)) \ KeysOf(Stored("history"))
     /\ Cardinality(S) = Cardinality(KeysOf(S))}

\* InsertBatchHistory: documents of a key that is there are left out.
InsertBatchHistory ==
  /\ stage = "insert"
  /\ \E S \in Accepted : Write("history", Arrived(S))
  /\ stage' = "delete"
  /\ UNCHANGED <<outside, denoms, relate, loop, left, carried, fixing, missed, lost, faults>>

\* An error that is logged and forgotten.
InsertHistoryForgets ==
  /\ stage = "insert"
  /\ Fault
  /\ \E S \in Accepted : \E some \in SUBSET S : Write("history", Arrived(some))
  /\ stage' = "delete"
  /\ UNCHANGED <<outside, denoms, relate, loop, left, carried, fixing, missed, lost>>

\* It fails half-way: what was inserted stays, and the loop is left.
InsertHistoryFails ==
  /\ stage = "insert"
  /\ Fault
  /\ \E S \in Accepted : \E some \in SUBSET S : Write("history", Arrived(some))
  /\ carried' = NoPage
  /\ LeavesLoop
  /\ UNCHANGED <<outside, denoms, relate, fixing, missed, lost>>

Without(S) == [d \in Doc |-> IF d \in S THEN NoEntry ELSE db["latest"][d]]

\* After a page: on to the next one, to the other loop, or home.
NextBatch ==
  LET full == Cardinality(Docs(carried)) = MigrateLimit IN
  /\ carried' = NoPage
  /\ IF full /\ (loop = "normal" => left > 1)
       THEN /\ stage' = "find"
            /\ left' = IF loop = "normal" THEN left - 1 ELSE left
            /\ UNCHANGED loop
       ELSE LeavesLoop

\* DelBatch leaves alone what has changed since it was read.
DelUnchanged ==
  /\ stage = "delete"
  /\ Write("latest", Without({d \in Docs(carried) : db["latest"][d] = carried[d]}))
  /\ NextBatch
  /\ UNCHANGED <<outside, denoms, relate, fixing, missed, lost, faults>>

\* DelBatch, by the ids of the page.
DelBatch ==
  /\ stage = "delete"
  /\ Write("latest", Without(Docs(carried)))
  /\ NextBatch
  /\ UNCHANGED <<outside, denoms, relate, fixing, missed, lost, faults>>

DelBatchFails ==
  /\ stage = "delete"
  /\ Fault
  /\ \E some \in SUBSET Docs(carried) : Write("latest", Without(some))
  /\ carried' = NoPage
  /\ LeavesLoop
  /\ UNCHANGED <<outside, denoms, relate, fixing, missed, lost>>

\* The process dies.  DoTransaction opens a transaction, but the two calls are
\* made with a context of their own and are no part of it.
MigrateAbandon ==
  /\ stage # "find" \/ loop = "normal"
  /\ Fault
  /\ Ended
  /\ carried' = NoPage
  /\ UNCHANGED <<outside, collections, relate, fixing, missed, lost>>

-----------------------------------------------------------------------------
(* ibc_sync_acknowledge_tx_task: two loops, over ex_ibc_tx_latest only. *)

\* GetNeedAcknowledgeTxs and GetNeedRecvPacketTxs: the transfers to complete.
Incomplete(f) ==
  {d \in InStatus("latest", {IF f = "ack" THEN "Success" ELSE "Refunded"}) :
     f \notin db["latest"][d].info}

FindIncomplete(f) ==
  /\ fixing[f] = NoDoc
  /\ \E d \in Incomplete(f) : fixing' = [fixing EXCEPT ![f] = d]
  /\ UNCHANGED <<outside, collections, relate, migrate, missed, lost, faults>>

\* SaveAcknowledgeTx and SaveRecvPacketTx with an upsert.
Upsert(f) ==
  /\ fixing[f] # NoDoc
  /\ IF (IF f = "ack" THEN "ack" ELSE "recv") \in facts[KeyOf[fixing[f]]]
       THEN Write("latest", [db["latest"] EXCEPT ![fixing[f]].info = @ \cup {f}])
       ELSE UNCHANGED <<db, past>>
  /\ fixing' = [fixing EXCEPT ![f] = NoDoc]
  /\ UNCHANGED <<outside, denoms, relate, migrate, missed, lost, faults>>

\* SaveAcknowledgeTx and SaveRecvPacketTx: set the one field, if the document
\* is still there.
Complete(f) ==
  /\ fixing[f] # NoDoc
  /\ IF /\ (IF f = "ack" THEN "ack" ELSE "recv") \in facts[KeyOf[fixing[f]]]
        /\ fixing[f] \in Stored("latest")
       THEN Write("latest", [db["latest"] EXCEPT ![fixing[f]].info = @ \cup {f}])
       ELSE UNCHANGED <<db, past>>
  /\ fixing' = [fixing EXCEPT ![f] = NoDoc]
  /\ UNCHANGED <<outside, denoms, relate, migrate, missed, lost, faults>>

-----------------------------------------------------------------------------

RelateStep(r) ==
  \/ RelatePage(r)
  \/ RelateEvidence(r)
  \/ UpdateIbcTx(r)
  \/ AddDenoms(r)

RelateFailure(r) ==
  \/ RelateOverlap(r)
  \/ RelateStalePage(r)
  \/ RelateBlind(r)
  \/ UpdateIbcTxFails(r)
  \/ AddDenomsFails(r)
  \/ RelateAbandon(r)

Migrate ==
  \/ FindByStatus
  \/ CountNormal
  \/ InsertBatchHistory
  \/ DelBatch

MigrateFailure ==
  \/ FindStaleByStatus
  \/ InsertHistoryFails
  \/ DelBatchFails
  \/ MigrateAbandon

Next ==
  \/ ChainStep
  \/ Configure
  \/ ReadChains
  \/ \E d \in Doc : Store(d)
  \/ \E c \in Coll : AddNewChainUpdate(c)
  \/ \E r \in Relate : RelateStart(r) \/ RelateStep(r) \/ RelateFailure(r)
  \/ Migrate
  \/ MigrateFailure
  \/ \E f \in {"dc", "ack"} : FindIncomplete(f) \/ Complete(f)

\* Cron starts the relate tasks again and again, and a run that has not failed
\* goes on.  Nothing is promised of the other tasks, the chains or the operator.
Fairness ==
  /\ \A c \in Coll : WF_vars(\E r \in Relate : Target[r] = c /\ RelateStart(r))
  /\ \A r \in Relate : WF_vars(RelateStep(r))

Spec == Init /\ [][Next]_vars
FairSpec == Spec /\ Fairness

-----------------------------------------------------------------------------

\* Whatever the tasks do to it and wherever they fail, a transfer that was
\* stored stays in one of the two collections, itself or a copy of its key
\* (ex_ibc_tx_latest.go:648-671).
NothingLost ==
  \A d \in synced : KeyOf[d] \in KeysOf(Stored("latest") \cup Stored("history"))

\* A transfer is Success only when its packet was received, and Refunded only
\* when its tokens came back: an error acknowledgement reached the source chain
\* or the packet timed out there (ibc_tx_relate_task.go:225-432).
SettledAsOnChain ==
  \A c \in Coll, d \in Doc :
    /\ db[c][d].status = "Success" => Outcome(d) = "ok" /\ "recv" \in facts[KeyOf[d]]
    /\ db[c][d].status = "Refunded" => \/ Outcome(d) = "error" /\ "ack" \in facts[KeyOf[d]]
                                       \/ Outcome(d) = "timeout" /\ "timeout" \in facts[KeyOf[d]]

\* The denom of a settled transfer is registered on the destination chain, or a
\* run has it in hand, or had it when it failed, or its hash hides it: denomMap
\* is loaded for the source chain and shared by all destinations
\* (ibc_tx_relate_task.go:134-181, 197-203).
Hidden(d) ==
  \/ DenomOf[d].hash \in SourceHash
  \/ \E e \in Doc : DenomOf[e].hash = DenomOf[d].hash /\ DenomOf[e] # DenomOf[d]

DenomRegistered ==
  \A c \in Coll : \A d \in InStatus(c, {"Success"}) \ Home :
    \/ DenomOf[d] \in denoms \cup lost
    \/ Hidden(d)
    \/ \E r \in Relate : DenomOf[d] \in mem[r].fresh

\* A document is in both collections only while the migrate task is between its
\* insert and its delete, or after a fault (ex_ibc_tx_latest.go:659-668).
MovedNotCopied ==
  \A d \in Stored("latest") \cap Stored("history") :
    faults > 0 \/ (stage = "delete" /\ d \in Docs(carried))

\* Once add_chain_task is through, a document is left in status Setting only if
\* the migrate task or the sync task had it in hand meanwhile
\* (ex_ibc_tx_latest.go:673-711, add_chain_task.go:86-147).
AddedChainReachesAll ==
  added = Coll => \A c \in Coll : InStatus(c, {"Setting"}) \subseteq missed

\* No task takes a settled transfer's status or details away where it is,
\* unless it is a relate run that overlaps with another or has read a lagging
\* replica: the tasks that share a collection do not undo each other's work
\* (ibc_tx_relate_task.go:162-204, ibc_sync_acknowledge_tx_task.go:87-182).
SettledStays ==
  [][\A c \in Coll : \A d \in InStatus(c, {"Success", "Refunded"}) :
       \/ db'[c][d] = NoEntry
       \/ db'[c][d].status = db[c][d].status /\ db[c][d].info \subseteq db'[c][d].info
       \/ \E r \in misled : pc[r] = "update"]_vars

\* A transfer in status Processing whose packet has run its course is settled
\* in the end, wherever the migrate task has taken it
\* (ibc_tx_relate_task.go:126-160, ibc_tx_relate_history_task.go:36-65).
EveryTxSettled ==
  \A d \in Doc :
    (\E c \in Coll : d \in InStatus(c, {"Processing"})
                     /\ facts[KeyOf[d]] = Evidence(Outcome(d)))
      ~> (\A c \in Coll : d \notin InStatus(c, {"Processing"}))

=============================================================================

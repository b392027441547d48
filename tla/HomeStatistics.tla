--------------------------- MODULE HomeStatistics ---------------------------
(***************************************************************************)
(* What the front end is told about the stored transfers, and how far it   *)
(* may trust it.  The collections ex_ibc_tx_latest and ex_ibc_tx change    *)
(* all the time: transfers are stored, settled and moved (here in outline, *)
(* IbcTx has the detail).  Beside that                                     *)
(*   ibc_statistic_task refreshes the figures of the home page: those of   *)
(*     the last day and of ex_ibc_tx_latest by counting again, those of    *)
(*     all transfers by counting only what is new in ex_ibc_tx.  It is run *)
(*     by the cron and, without the cron's lock, by the manual task runner *)
(*     of the REST interface, which counts everything again;               *)
(*   TransferService lists ex_ibc_tx_latest page by page and looks up one  *)
(*     transfer in one collection after the other.                         *)
(***************************************************************************)
EXTENDS Integers, SequencesExt

CONSTANTS Doc,        \* the documents of transfers
          TxTime,     \* when they happened on their chain, all different
          PathOf,     \* its two ends: [sc, dc], each [chain, channel]
          MaxTime,    \* bound: creation times
          Keep,       \* ibcTxCount: how many documents latest keeps
          PageSize,   \* of the transfer list
          Queries,    \* the chains it is asked for: none, one, or one per end
          NoDoc,      \* a null value
          Cases       \* what to look at together: figures or readers, with the
                      \* statuses transfers go through, and bounds: manual runs
                      \* and faults

\* constant.TxAllStatisticName and the others
HistoryFigures == {"tx_all", "tx_failed", "tx_success"}
LiveFigures == {"tx_latest_all", "tx_24hr_all", "channels_24hr", "chains_24hr"}
Figures == HistoryFigures \cup LiveFigures
Run == {"cron", "manual"}

Useful == {"Success", "Failed", "Processing", "Refunded"}
Status == Useful \cup {"Setting"}
Counted == [tx_all |-> Useful, tx_failed |-> {"Failed", "Refunded"},
            tx_success |-> {"Success"}]

ASSUME HomeAssumption ==
  /\ IsFiniteSet(Doc) /\ NoDoc \notin Doc
  /\ TxTime \in [Doc -> Nat]
  /\ \A d, e \in Doc : TxTime[d] = TxTime[e] => d = e
  /\ PathOf \in [Doc -> [{"sc", "dc"} -> [{"chain", "channel"} -> STRING]]]
  /\ \A c \in Cases : c \in [focus : SUBSET (Figures \cup {"pages", "detail"}),
                            life : [Doc -> Seq(Status) \ {<<>>}], manuals : Nat, faults : Nat]
  \* add_chain_task takes a transfer out of Setting, and nothing brings it back;
  \* the relate tasks settle those in Processing only.
  /\ \A c \in Cases, d \in Doc : \A i \in 1 .. Len(c.life[d]) - 1 :
       c.life[d][i] \in {"Setting", "Processing"} /\ c.life[d][i + 1] # "Setting"
  /\ MaxTime \in Nat
  /\ \A q \in Queries : q \in Seq(STRING) /\ Len(q) <= 2
  /\ Keep \in Nat /\ PageSize \in Nat \ {0}

VARIABLES
  focus,     \* what this behaviour looks at
  life,      \* the statuses its transfers go through
  \* the collections
  clock,     \* creation times are taken from it
  created,   \* create_at of every document, 0 before it is stored
  db,        \* status of the documents of either collection
  before,    \* the same before the last write: what a slow secondary answers
  carried,   \* the page of the migrate task, and where it stands with it
  day,       \* transfers older than this are out of the last 24 hours
  \* ibc_statistics
  figures,   \* count of the figures that are counted again
  record,    \* the documents of the figures of all transfers
  \* the runs of ibc_statistic_task
  todo,      \* the figures left, the current one first
  stage,     \* where it stands with that one
  mem,       \* what it has in hand
  manuals,   \* manual runs still to come
  \* a reader
  reader,
  \* histories
  reached,   \* statuses a document has had in either collection
  stale,     \* a secondary has answered a read with an older state
  faults     \* failures and stale reads still to come

env == <<clock, created, db, before, carried, day, reached>>
task == <<figures, record, todo, stage, mem, manuals>>
vars == <<focus, life, clock, created, db, before, carried, day, figures, record, todo, stage,
          mem, manuals, reader, reached, stale, faults>>

Coll == {"latest", "history"}
Content == [Coll -> [Doc -> Status \cup {"none"}]]
Empty == [c \in Coll |-> [d \in Doc |-> "none"]]
Paths == {PathOf[d] : d \in Doc}

\* count and count_latest of a record, and its IncreInfo: create_at and count.
NoRecord == [count |-> 0, latest |-> 0, at |-> 0, n |-> 0, twice |-> {}]
Record == [count : Nat, latest : Nat, at : Nat, n : Nat, twice : SUBSET Doc]
Memory == [live : Nat, inLatest : [HistoryFigures -> SUBSET Doc], rec : Record, total : Nat,
           at : Nat, n : Nat, twice : SUBSET Doc]
Fresh == [live |-> 0, inLatest |-> [f \in HistoryFigures |-> {}], rec |-> NoRecord,
          total |-> 0, at |-> 0, n |-> 0, twice |-> {}]
NoReader == [what |-> "idle", query |-> <<>>, page |-> 0, seen |-> {}, kept |-> {}, doc |-> NoDoc]

In(content, c, statuses) == {d \in Doc : content[c][d] \in statuses}

\* A document has a status in the collection it is in; figures are counts.
TypeOK ==
  /\ focus \in SUBSET (Figures \cup {"pages", "detail"})
  /\ life \in [Doc -> Seq(Status) \ {<<>>}]
  /\ clock \in Nat
  /\ created \in [Doc -> Nat]
  /\ db \in Content /\ before \in Content
  /\ carried \in [doc : Doc \cup {NoDoc}, status : Status \cup {"none"},
                  step : {"find", "insert", "delete"}]
  /\ day \in Nat
  /\ figures \in [LiveFigures -> Nat]
  /\ record \in [HistoryFigures -> Record]
  /\ todo \in [Run -> Seq(Figures)]
  /\ stage \in [Run -> {"count", "find", "call", "upto", "record", "write"}]
  /\ mem \in [Run -> Memory]
  /\ manuals \in Nat
  /\ reader \in [what : {"idle", "pages", "listed", "detail", "missing"},
                 query : Queries \cup {<<>>}, page : Nat,
                 seen : SUBSET Doc, kept : SUBSET Doc, doc : Doc \cup {NoDoc}]
  /\ reached \in [Doc -> SUBSET Status]
  /\ stale \in BOOLEAN
  /\ faults \in Nat

Init ==
  /\ \E c \in Cases : /\ focus = c.focus /\ life = c.life
                      /\ manuals = c.manuals /\ faults = c.faults
  /\ clock = 1
  /\ created = [d \in Doc |-> 0]
  /\ db = Empty /\ before = Empty
  /\ carried = [doc |-> NoDoc, status |-> "none", step |-> "find"]
  /\ day = 0
  /\ figures = [f \in LiveFigures |-> 0]
  /\ record = [f \in HistoryFigures |-> NoRecord]
  /\ todo = [p \in Run |-> <<>>]
  /\ stage = [p \in Run |-> "count"]
  /\ mem = [p \in Run |-> Fresh]
  /\ reader = NoReader
  /\ reached = [d \in Doc |-> {}]
  /\ stale = FALSE

-----------------------------------------------------------------------------
\* The collections.

\* Creation times matter to the figures of all transfers only.
Tick ==
  /\ clock < MaxTime /\ focus \cap HistoryFigures # {}
  /\ clock' = clock + 1
  /\ UNCHANGED <<focus, life, created, db, before, carried, day, reached, task, reader, stale, faults>>

\* The oldest transfer of the last 24 hours is no longer one of them.
DayPasses ==
  /\ "tx_24hr_all" \in focus
  /\ \E d \in Doc : TxTime[d] >= day
  /\ day' = 1 + CHOOSE t \in {TxTime[d] : d \in Doc} :
                  t >= day /\ \A d \in Doc : TxTime[d] >= day => t <= TxTime[d]
  /\ UNCHANGED <<focus, life, clock, created, db, before, carried, reached, task, reader, stale, faults>>

\* Collection c gets status s for document d.  What was there before matters
\* while a stale read may come.
Put(c, d, s) ==
  /\ db' = [db EXCEPT ![c][d] = s]
  /\ before' = IF faults = 0 THEN Empty ELSE db
  /\ reached' = [reached EXCEPT ![d] = IF s = "none" THEN @ ELSE @ \cup {s}]

\* The sync task stores a transfer, later ones of the chain first or last.
Sync(d) ==
  /\ created[d] = 0
  /\ created' = [created EXCEPT ![d] = clock]
  /\ Put("latest", d, Head(life[d]))
  /\ UNCHANGED <<focus, life, clock, carried, day, task, reader, stale, faults>>

\* A relate task, or add_chain_task, writes the next status.
Progress(c, d) ==
  /\ \E i \in 1 .. Len(life[d]) - 1 : /\ db[c][d] = life[d][i]
                                      /\ Put(c, d, life[d][i + 1])
  /\ UNCHANGED <<focus, life, clock, created, carried, day, task, reader, stale, faults>>

\* Mutant: sorted the other way, the newest.
OldestNot(S) == {d \in S : \A e \in S : TxTime[d] >= TxTime[e]}

Oldest(S) == {d \in S : \A e \in S : TxTime[d] <= TxTime[e]}

\* The migrate task, a document at a time: any of status Setting, and the
\* oldest of the others as long as there are more than are to be kept.
MigrateFind ==
  /\ carried.step = "find"
  /\ LET setting == In(db, "latest", {"Setting"})
         useful == In(db, "latest", Useful)
     IN  \E d \in Oldest(setting) \cup IF Cardinality(useful) > Keep
                                         THEN Oldest(useful) ELSE {} :
           carried' = [doc |-> d, status |-> db["latest"][d], step |-> "insert"]
  /\ UNCHANGED <<focus, life, clock, created, db, before, day, reached, task, reader, stale, faults>>

\* Mutant: an error of the insert goes unnoticed.
MigrateInsertNot ==
  /\ carried.step = "insert"
  /\ carried' = [carried EXCEPT !.step = "delete"]
  /\ UNCHANGED <<focus, life, clock, created, db, before, reached, day, task, reader, stale,
                 faults>>

\* InsertBatchHistory ignores a document that is there already.
MigrateInsert ==
  /\ carried.step = "insert"
  /\ IF db["history"][carried.doc] = "none"
       THEN Put("history", carried.doc, carried.status)
       ELSE UNCHANGED <<db, before, reached>>
  /\ carried' = [carried EXCEPT !.step = "delete"]
  /\ UNCHANGED <<focus, life, clock, created, day, task, reader, stale, faults>>

MigrateDelete ==
  /\ carried.step = "delete"
  /\ Put("latest", carried.doc, "none")
  /\ carried' = [doc |-> NoDoc, status |-> "none", step |-> "find"]
  /\ UNCHANGED <<focus, life, clock, created, day, task, reader, stale, faults>>

\* It fails, or is killed, and starts over in an hour.
MigrateFails ==
  /\ carried.step # "find" /\ faults > 0
  /\ carried' = [doc |-> NoDoc, status |-> "none", step |-> "find"]
  /\ faults' = faults - 1
  /\ UNCHANGED <<focus, life, clock, created, db, before, day, reached, task, reader, stale>>

-----------------------------------------------------------------------------
\* Queries.  A secondary may answer, with the state before the last write.

Read(view) ==
  \/ /\ view = db
     /\ UNCHANGED <<stale, faults>>
  \/ /\ view = before /\ view # db
     /\ faults > 0
     /\ faults' = faults - 1
     /\ stale' = TRUE

\* HistoryCountAll, HistoryCountFailAll and HistoryCountSuccessAll
HistoryCount(view, f, at) ==
  {d \in Doc : view["history"][d] \in Counted[f] /\ created[d] >= at}
\* Mutant: what has the latest creation time is not remembered as counted.
HistoryCountAtNot(view, f, at) == {}

\* The same with record set: those of that very time.
HistoryCountAt(view, f, at) ==
  {d \in Doc : view["history"][d] \in Counted[f] /\ created[d] = at}

\* HistoryLatestCreateAt, of whatever status.
CreateAts(view) == {created[d] : d \in {e \in Doc : view["history"][e] # "none"}}
Latest(times) == CHOOSE t \in times : \A u \in times : u <= t

ActiveTxs24h(view) == {d \in In(view, "latest", Useful) : TxTime[d] >= day}
\* Aggr24hActiveChannels: transfers that failed on the source chain have no part.
Aggr24hActiveChannels(view) ==
  {PathOf[d] : d \in {e \in In(view, "latest", {"Success", "Refunded"}) : TxTime[e] >= day}}
\* Aggr24hActiveChains, and the names in it
Aggr24hActiveChains(view) ==
  (UNION {{PathOf[d].sc.chain, PathOf[d].dc.chain} : d \in ActiveTxs24h(view)}) \ {""}

\* updateChannelAndChains24h: a path counts unless one of its ends is known.
\* Mutant: only the end the transfer starts from is remembered.
AddPathSource(acc, path) ==
  IF path.sc \in acc.ends
    THEN acc ELSE [ends |-> acc.ends \cup {path.sc}, n |-> acc.n + 1]

AddPath(acc, path) ==
  IF path.sc \in acc.ends \/ path.dc \in acc.ends
    THEN acc ELSE [ends |-> acc.ends \cup {path.sc, path.dc}, n |-> acc.n + 1]
CountPaths(paths) == FoldLeft(AddPath, [ends |-> {}, n |-> 0], paths).n

\* The values a count may give; the aggregation comes in any order.
Counts(view, f) ==
  CASE f = "tx_latest_all" -> {Cardinality(In(view, "latest", Useful))}
    [] f = "tx_24hr_all"   -> {Cardinality(ActiveTxs24h(view))}
    [] f = "chains_24hr"   -> {Cardinality(Aggr24hActiveChains(view))}
    [] f = "channels_24hr" -> {CountPaths(s) : s \in SetToSeqs(Aggr24hActiveChannels(view))}

-----------------------------------------------------------------------------
\* IbcStatisticCronTask.  Figures nobody looks at are passed over, or at least
\* not kept: each has a record of its own.

Wanted(f) == \/ f \in focus
             \/ f = "tx_latest_all" /\ focus \cap HistoryFigures # {}
IfWanted(f) == IF Wanted(f) THEN <<f>> ELSE <<>>
TxsPlan == IfWanted("tx_latest_all") \o IfWanted("tx_all") \o IfWanted("tx_failed")
             \o IfWanted("tx_success") \o IfWanted("tx_24hr_all")
Plan(p) == IF p = "cron" THEN IfWanted("channels_24hr") \o IfWanted("chains_24hr") \o TxsPlan
                         ELSE TxsPlan

\* The current figure, and the step the work on it begins with: NewDataTxs of
\* a manual run does not look at the record that is there.
Figure(p) == Head(todo[p])
At(p, f, s) == todo[p] # <<>> /\ Figure(p) = f /\ stage[p] = s
First(p, figs) == IF figs # <<>> /\ Head(figs) \in HistoryFigures
                    THEN IF p = "cron" THEN "find" ELSE "call"
                    ELSE "count"
Goto(p, figs) ==
  /\ todo' = [todo EXCEPT ![p] = figs]
  /\ stage' = [stage EXCEPT ![p] = First(p, figs)]

Start(p) ==
  /\ focus \cap Figures # {}
  /\ todo[p] = <<>>
  /\ p = "manual" => manuals > 0
  /\ Goto(p, Plan(p))
  /\ manuals' = IF p = "manual" THEN manuals - 1 ELSE manuals
  /\ UNCHANGED <<focus, life, env, figures, record, mem, reader, stale, faults>>

\* The figures that are counted again: the query and, in a step of its own,
\* UpdateOne.  The count of ex_ibc_tx_latest is kept, with those of the other
\* status sets (CountAll), for the figures of all transfers that follow.
Count(p) ==
  \E f \in LiveFigures, view \in {db, before} :
    /\ At(p, f, "count")
    /\ Read(view)
    /\ \E n \in Counts(view, f) :
         mem' = [mem EXCEPT ![p].live = n,
                            ![p].inLatest = [g \in HistoryFigures |->
                               IF f = "tx_latest_all" /\ g \in focus
                                 THEN In(view, "latest", Counted[g]) ELSE @[g]]]
    /\ stage' = [stage EXCEPT ![p] = "write"]
    /\ UNCHANGED <<focus, life, env, figures, record, todo, manuals, reader>>

UpdateOne(p) ==
  \E f \in LiveFigures :
    /\ At(p, f, "write")
    /\ figures' = [figures EXCEPT ![f] = IF f \in focus THEN mem[p].live ELSE @]
    /\ mem' = [mem EXCEPT ![p].live = 0]
    /\ Goto(p, Tail(todo[p]))
    /\ UNCHANGED <<focus, life, env, record, manuals, reader, stale, faults>>

\* handleHistoryTxsIncre: FindOne,
FindOne(p) ==
  \E f \in HistoryFigures :
    /\ At(p, f, "find")
    /\ mem' = [mem EXCEPT ![p].rec = record[f]]
    /\ stage' = [stage EXCEPT ![p] = "call"]
    /\ UNCHANGED <<focus, life, env, figures, record, todo, manuals, reader, stale, faults>>

\* what has come since; nothing is written unless there is more,
Call(p) ==
  \E f \in HistoryFigures, view \in {db, before} :
    /\ At(p, f, "call")
    /\ Read(view)
    /\ LET rec == mem[p].rec
           found == HistoryCount(view, f, rec.at)
       IN  IF rec = NoRecord \/ Cardinality(found) > rec.n
             THEN /\ mem' = [mem EXCEPT ![p].rec = NoRecord,
                                        ![p].total = rec.count + Cardinality(found) - rec.n,
                                        ![p].twice = mem[p].inLatest[f]
                                                     \cap In(view, "history", Counted[f])]
                  /\ stage' = [stage EXCEPT ![p] = "upto"]
                  /\ UNCHANGED todo
             ELSE /\ mem' = [mem EXCEPT ![p].rec = NoRecord, ![p].inLatest[f] = {}]
                  /\ Goto(p, Tail(todo[p]))
    /\ UNCHANGED <<focus, life, env, figures, record, manuals, reader>>

\* HistoryLatestCreateAt, an error when there is no history,
Upto(p) ==
  \E f \in HistoryFigures, view \in {db, before} :
    /\ At(p, f, "upto")
    /\ Read(view)
    /\ IF CreateAts(view) = {}
         THEN /\ mem' = [mem EXCEPT ![p] = Fresh]
              /\ Goto(p, <<>>)
         ELSE /\ mem' = [mem EXCEPT ![p].at = Latest(CreateAts(view))]
              /\ stage' = [stage EXCEPT ![p] = "record"]
              /\ UNCHANGED todo
    /\ UNCHANGED <<focus, life, env, figures, record, manuals, reader>>

\* how many have just that time,
CallRecord(p) ==
  \E f \in HistoryFigures, view \in {db, before} :
    /\ At(p, f, "record")
    /\ Read(view)
    /\ mem' = [mem EXCEPT ![p].n = Cardinality(HistoryCountAt(view, f, mem[p].at))]
    /\ stage' = [stage EXCEPT ![p] = "write"]
    /\ UNCHANGED <<focus, life, env, figures, record, todo, manuals, reader>>

\* Mutant: count_latest is added up as count is.
UpdateOneIncreAdds(p) ==
  \E f \in HistoryFigures :
    /\ At(p, f, "write")
    /\ record' = [record EXCEPT ![f] =
         [count |-> mem[p].total, latest |-> record[f].latest + Cardinality(mem[p].inLatest[f]),
          at |-> mem[p].at, n |-> mem[p].n, twice |-> mem[p].twice]]
    /\ mem' = [mem EXCEPT ![p] =
         [Fresh EXCEPT !.inLatest = [mem[p].inLatest EXCEPT ![f] = {}]]]
    /\ Goto(p, Tail(todo[p]))
    /\ UNCHANGED <<focus, life, env, figures, manuals, reader, stale, faults>>

\* Mutant: what is shown of ex_ibc_tx_latest is taken off.
UpdateOneIncreLess(p) ==
  \E f \in HistoryFigures :
    /\ At(p, f, "write")
    /\ record' = [record EXCEPT ![f] =
         [count |-> mem[p].total - Cardinality(mem[p].inLatest[f]),
          latest |-> Cardinality(mem[p].inLatest[f]),
          at |-> mem[p].at, n |-> mem[p].n, twice |-> mem[p].twice]]
    /\ mem' = [mem EXCEPT ![p] =
         [Fresh EXCEPT !.inLatest = [mem[p].inLatest EXCEPT ![f] = {}]]]
    /\ Goto(p, Tail(todo[p]))
    /\ UNCHANGED <<focus, life, env, figures, manuals, reader, stale, faults>>

\* and UpdateOneIncre.
UpdateOneIncre(p) ==
  \E f \in HistoryFigures :
    /\ At(p, f, "write")
    /\ record' = [record EXCEPT ![f] =
         [count |-> mem[p].total, latest |-> Cardinality(mem[p].inLatest[f]),
          at |-> mem[p].at, n |-> mem[p].n, twice |-> mem[p].twice]]
    /\ mem' = [mem EXCEPT ![p] =
         [Fresh EXCEPT !.inLatest = [mem[p].inLatest EXCEPT ![f] = {}]]]
    /\ Goto(p, Tail(todo[p]))
    /\ UNCHANGED <<focus, life, env, figures, manuals, reader, stale, faults>>

\* A query or a write fails, and the run returns -1; or it is killed.
Abort(p) ==
  /\ todo[p] # <<>> /\ faults > 0
  /\ faults' = faults - 1
  /\ mem' = [mem EXCEPT ![p] = Fresh]
  /\ Goto(p, <<>>)
  /\ UNCHANGED <<focus, life, env, figures, record, manuals, reader, stale>>

RunStep(p) == \/ Start(p) \/ Count(p) \/ UpdateOne(p)
              \/ FindOne(p) \/ Call(p) \/ Upto(p) \/ CallRecord(p) \/ UpdateOneIncre(p)

\* HomeService.Statistics: what is shown of a figure of all transfers
Shown(f) == record[f].count + record[f].latest

-----------------------------------------------------------------------------
\* TransferService

\* parseQuery: no chain, one at either end, or one for each end.
Matches(query, path) ==
  CASE Len(query) = 0 -> TRUE
    [] Len(query) = 1 -> query[1] \in {"allchain", path.sc.chain, path.dc.chain}
    [] Len(query) = 2 -> /\ query[1] \in {"allchain", path.sc.chain}
                         /\ query[2] \in {"allchain", path.dc.chain}

\* What a query finds in ex_ibc_tx_latest, when it names no status.
Found(view, query) == {d \in In(view, "latest", Useful) : Matches(query, PathOf[d])}

\* FindTransferTxs: sorted newest first; page k of it.
Page(view, query, k) ==
  LET found == Found(view, query)
      newer(d) == {e \in found : TxTime[e] > TxTime[d]}
  IN  {d \in found : Cardinality(newer(d)) \in k * PageSize .. (k + 1) * PageSize - 1}

\* A reader turns the pages until one is not full.  It counts on the transfers
\* that are in ex_ibc_tx_latest all the time, but not on one that came only when
\* the migrate task had a newer one in hand.
TransferTxs ==
  /\ "pages" \in focus
  /\ reader.what \in {"idle", "pages"}
  /\ \E view \in {db, before}, query \in Queries :
       /\ reader.page > 0 => query = reader.query
       /\ Read(view)
       /\ LET items == Page(view, query, reader.page)
              useful == {d \in Found(db, query) :
                           carried.step # "find" => TxTime[d] >= TxTime[carried.doc]}
          IN  reader' = [what |-> IF Cardinality(items) < PageSize THEN "listed" ELSE "pages",
                         query |-> query, page |-> reader.page + 1,
                         seen |-> reader.seen \cup items,
                         kept |-> IF reader.page = 0 THEN useful ELSE reader.kept \cap useful,
                         doc |-> NoDoc]
  /\ UNCHANGED <<focus, life, env, task>>

\* TransferTxDetailNew: TxDetail of the latest transfers and then, if there is
\* nothing, of the history.
TxDetailLatest(d) ==
  /\ "detail" \in focus
  /\ reader.what = "idle"
  /\ reached[d] \cap Useful # {}
  /\ \E view \in {db, before} :
       /\ Read(view)
       /\ reader' = IF d \in In(view, "latest", Useful)
                      THEN NoReader
                      ELSE [NoReader EXCEPT !.what = "detail", !.doc = d]
  /\ UNCHANGED <<focus, life, env, task>>

TxDetailHistory ==
  /\ reader.what = "detail"
  /\ \E view \in {db, before} :
       /\ Read(view)
       /\ reader' = IF reader.doc \in In(view, "history", Useful)
                      THEN NoReader ELSE [reader EXCEPT !.what = "missing"]
  /\ UNCHANGED <<focus, life, env, task>>

\* The reader has seen its last page and comes back another day.
Leave ==
  /\ reader.what \in {"listed", "missing"}
  /\ reader' = NoReader
  /\ UNCHANGED <<focus, life, env, task, stale, faults>>

-----------------------------------------------------------------------------
Environment ==
  \/ Tick \/ DayPasses
  \/ \E d \in Doc : Sync(d) \/ \E c \in Coll : Progress(c, d)
  \/ MigrateFind \/ MigrateInsert \/ MigrateDelete \/ MigrateFails

Readers == TransferTxs \/ (\E d \in Doc : TxDetailLatest(d)) \/ TxDetailHistory \/ Leave

Next == Environment \/ Readers \/ \E p \in Run : RunStep(p) \/ Abort(p)

Spec == Init /\ [][Next]_vars

\* The cron starts the task again every minute and its queries return.
FairSpec == Spec /\ WF_vars(RunStep("cron"))

-----------------------------------------------------------------------------
\* Properties

\* What was counted of ex_ibc_tx is there: no transfer is counted by two
\* increments, with documents arriving between the queries of one increment
\* and a manual run writing the same record, unless a secondary answered a
\* query with an older state (handleHistoryTxsIncre).
OvercountNeedsStaleRead ==
  ~stale => \A f \in HistoryFigures :
              record[f].count <= Cardinality(In(db, "history", Counted[f]))

\* ex_ibc_tx_latest is counted first and ex_ibc_tx later: what the home page
\* shows exceeds the transfers there ever were by no more than those that were
\* found in both (updateTxsIncre, Statistics).
ShownTwiceOnlyIfMoved ==
  ~stale => \A f \in HistoryFigures :
              Shown(f) <= Cardinality({d \in Doc : reached[d] \cap Counted[f] # {}})
                          + Cardinality(record[f].twice)

\* Turning the pages of the list, newest first, misses no transfer that is in
\* ex_ibc_tx_latest all the time: the migrate task takes them from the other
\* end, and new ones only push the rest on (TransferTxs, migrateNormal).
PagesSkipNothing ==
  ~stale /\ reader.what = "listed" => reader.kept \subseteq reader.seen

\* A transfer is found by its hash while it is moved: it is in ex_ibc_tx before
\* it leaves ex_ibc_tx_latest, which is asked first.  One that was moved in
\* status Setting while add_chain_task updated it may be hidden.
StoredIsFound ==
  ~stale /\ reader.what = "missing" => "Setting" \in reached[reader.doc]

\* The number a figure stands for: a path counts once for both directions.
Truth(f) ==
  IF f = "channels_24hr" THEN Cardinality({{x.sc, x.dc} : x \in Aggr24hActiveChannels(db)})
                         ELSE CHOOSE n \in Counts(db, f) : TRUE

\* Whatever the runs that failed, read old states or overlapped have left, the
\* figures that are counted again become right when the transfers rest.
LiveFiguresSettle ==
  <>[](\A f \in LiveFigures \cap focus : figures[f] = Truth(f))

=============================================================================

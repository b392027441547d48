------------------------- MODULE SegmentStatistics -------------------------
(***************************************************************************)
(* Statistics by day over the stored transfers, as the in- and outflow     *)
(* tasks and the token and channel statistics keep them.  A figure is a    *)
(* sum over the rows of one collection, a row a group of the documents of  *)
(* one day (a segment), so a collection is here how often each document is *)
(* counted in it.                                                          *)
(* A full run builds a new collection from both collections of transfers,  *)
(* first ex_ibc_tx, then ex_ibc_tx_latest, and renames it over the one in  *)
(* use.  The increments of the cron task swap the rows of today, and every *)
(* now and then those of yesterday, in the collection in use.  Meanwhile   *)
(* transfers are stored, become countable and are migrated.                *)
(***************************************************************************)
EXTENDS Integers, FiniteSets

CONSTANTS Doc,          \* the documents
          LastDay,      \* bound: the days that are modelled
          Day,          \* the day of each document's tx_time
          AtOnce,       \* documents that are countable once they are stored
          Full,         \* full runs, each started once
          Process,      \* the processes they run in
          ProcessOf,    \* which share the task object
          Increment,    \* the instances whose cron starts increments
          CheckEvery,   \* mod: every how many runs yesterday is checked again
          SkipsFailed,  \* deal goes on after a failed aggregation
          MaxFaults     \* bound: failures, crashes, stale reads and overlaps

Days == 1..LastDay
Coll == {"latest", "history"}

ASSUME StatisticsAssumption ==
  /\ IsFiniteSet(Doc)
  /\ LastDay \in Nat \ {0} /\ Day \in [Doc -> Days] /\ AtOnce \subseteq Doc
  /\ ProcessOf \in [Full -> Process]
  /\ CheckEvery \in Nat \ {0}
  /\ SkipsFailed \in BOOLEAN /\ MaxFaults \in Nat

VARIABLES
  today,
  coll,      \* ex_ibc_tx_latest and ex_ibc_tx
  countable, \* documents whose status the statistics match
  live,      \* the collection in use: how often it counts each document
  new,       \* the collection a full run builds
  newExists, \* renaming fails without it
  task,      \* the task objects: segmentMinTime, segmentStatisticsMap
  pc, run,   \* the full runs: where they stand, their segments and rows
  at, incr,  \* the increments: where they stand, their segment and rows
  checks,    \* runs that have counted themselves today, folded
  faults,
  \* histories of the full runs
  arrived,   \* documents stored or settled since a run began
  moved,     \* documents in both collections at some time since
  skipped,   \* documents that an error or a lagging replica hid from it
  leftover,  \* documents that were counted in the new collection before
  crowded,   \* runs that another one ran beside
  twice,     \* what the run that switched last may have counted twice
  \* history of the increments
  overtaken  \* documents that arrived, or were hidden, since rows were read

transfers == <<today, coll, countable>>
statistics == <<live, new, newExists>>
fullRuns == <<task, pc, run>>
increments == <<at, incr, checks>>
fullHistories == <<arrived, moved, skipped, leftover, crowded, twice>>
histories == <<fullHistories, overtaken>>
vars == <<today, coll, countable, live, new, newExists, task, pc, run, at, incr, checks,
          faults, arrived, moved, skipped, leftover, crowded, twice, overtaken>>

Segments == [from : 1..LastDay + 1, to : 0..LastDay]
NoSegments == [from |-> 1, to |-> 0]
Rows == [Doc -> Nat]
Nothing == [d \in Doc |-> 0]
NoRun == [latest |-> NoSegments, history |-> NoSegments, rows |-> Nothing]
OfDay(day) == {d \in Doc : Day[d] = day}
Stored == coll["latest"] \cup coll["history"]
Matching(c) == coll[c] \cap countable
Active == {r \in Full : pc[r] \notin {"idle", "done"}}
Saving(i) == at[i] \in {"saveToday", "saveYesterday"}

\* Collections count documents; runs and increments are at a step of the tasks.
TypeOK ==
  /\ today \in Days
  /\ coll \in [Coll -> SUBSET Doc] /\ countable \subseteq Doc
  /\ live \in Rows /\ new \in Rows /\ newExists \in BOOLEAN
  /\ task \in [Process -> [min : 1..LastDay + 1, overlap : SUBSET Doc]]
  /\ pc \in [Full -> {"idle", "segments", "historySegments", "deal", "save", "done"}]
  /\ run \in [Full -> [latest : Segments, history : Segments, rows : Rows]]
  /\ at \in [Increment -> {"idle", "today", "saveToday", "check", "yesterday", "saveYesterday"}]
  /\ incr \in [Increment -> [day : Days, rows : SUBSET Doc]]
  /\ checks \in 0..2 * CheckEvery
  /\ faults \in 0..MaxFaults
  /\ arrived \in [Full -> SUBSET Doc] /\ moved \in [Full -> SUBSET Doc]
  /\ skipped \in [Full -> SUBSET Doc] /\ leftover \in [Full -> SUBSET Doc]
  /\ crowded \subseteq Full /\ twice \subseteq Doc /\ overtaken \in [Increment -> SUBSET Doc]

Init ==
  /\ today = 1
  /\ coll = [c \in Coll |-> {}] /\ countable = {}
  /\ live = Nothing /\ new = Nothing /\ newExists = FALSE
  /\ task = [p \in Process |-> [min |-> LastDay + 1, overlap |-> {}]]
  /\ pc = [r \in Full |-> "idle"]
  /\ run = [r \in Full |-> NoRun]
  /\ at = [i \in Increment |-> "idle"]
  /\ incr = [i \in Increment |-> [day |-> 1, rows |-> {}]]
  /\ checks = 0 /\ faults = 0
  /\ arrived = [r \in Full |-> {}] /\ moved = [r \in Full |-> {}]
  /\ skipped = [r \in Full |-> {}] /\ leftover = [r \in Full |-> {}]
  /\ crowded = {} /\ twice = {} /\ overtaken = [i \in Increment |-> {}]

Fault == faults < MaxFaults /\ faults' = faults + 1

-----------------------------------------------------------------------------
(* Around the statistics.                                                  *)

Arrives(d) ==
  /\ arrived' = [r \in Full |-> IF r \in Active THEN arrived[r] \cup {d} ELSE arrived[r]]
  /\ overtaken' = [i \in Increment |-> IF Saving(i) THEN overtaken[i] \cup {d} ELSE overtaken[i]]
  /\ UNCHANGED <<moved, skipped, leftover, crowded, twice>>

Moves(d) ==
  /\ moved' = [r \in Full |-> IF r \in Active THEN moved[r] \cup {d} ELSE moved[r]]
  /\ UNCHANGED <<arrived, skipped, leftover, crowded, twice, overtaken>>

\* A transfer is stored, on its day or later: countable at once unless its
\* chain is still unknown (or, for the token statistics, until it succeeds).
Store(d) ==
  /\ d \notin Stored /\ Day[d] <= today
  /\ coll' = [coll EXCEPT !["latest"] = @ \cup {d}]
  /\ countable' = countable \cup (AtOnce \cap {d})
  /\ Arrives(d)
  /\ UNCHANGED <<today, statistics, fullRuns, increments, faults>>

\* Its status becomes one that the statistics match, wherever it is by then.
Settle(d) ==
  /\ d \in Stored \ countable
  /\ countable' = countable \cup {d}
  /\ Arrives(d)
  /\ UNCHANGED <<today, coll, statistics, fullRuns, increments, faults>>

\* The migrate task: the document is inserted into the history, and deleted
\* from latest later (see IbcTx).
InsertHistory(d) ==
  /\ d \in coll["latest"] \ coll["history"]
  /\ coll' = [coll EXCEPT !["history"] = @ \cup {d}]
  /\ Moves(d)
  /\ UNCHANGED <<today, countable, statistics, fullRuns, increments, faults>>

Delete(d) ==
  /\ d \in coll["latest"] \cap coll["history"]
  /\ coll' = [coll EXCEPT !["latest"] = @ \ {d}]
  /\ Moves(d)
  /\ UNCHANGED <<today, countable, statistics, fullRuns, increments, faults>>

\* The key of the counter names the date, so a new day counts from nothing.
Midnight ==
  /\ today < LastDay
  /\ today' = today + 1 /\ checks' = 0
  /\ UNCHANGED <<coll, countable, statistics, fullRuns, at, incr, faults, histories>>

-----------------------------------------------------------------------------
(* Reading.  A secondary that is behind hides what was written lately; of  *)
(* latest it may still show what has been deleted, all of which is in the  *)
(* history.                                                                *)

Showable(c) == IF c = "history" THEN coll["history"] ELSE Stored

\* What a query may answer that asks for the documents right, of those that
\* some secondary still or already shows.
Answers(right, shown) == IF faults < MaxFaults THEN SUBSET shown ELSE {right}
Counted(answer, right) == faults' = IF answer = right THEN faults ELSE faults + 1

-----------------------------------------------------------------------------
(* A full run.                                                             *)

Ends(r) ==
  /\ pc' = [pc EXCEPT ![r] = "done"] /\ run' = [run EXCEPT ![r] = NoRun]
  /\ arrived' = [arrived EXCEPT ![r] = {}] /\ moved' = [moved EXCEPT ![r] = {}]
  /\ skipped' = [skipped EXCEPT ![r] = {}] /\ leftover' = [leftover EXCEPT ![r] = {}]
  /\ crowded' = crowded \ {r}
  /\ UNCHANGED overtaken

\* The operator starts it over REST; a second one while the first is active
\* only after the hour that the runner's own lock lasts, or on another host.
StartFull(r) ==
  /\ pc[r] = "idle"
  /\ pc' = [pc EXCEPT ![r] = "segments"]
  /\ task' = [task EXCEPT ![ProcessOf[r]] = [min |-> LastDay + 1, overlap |-> {}]]
  /\ moved' = [moved EXCEPT ![r] = coll["latest"] \cap coll["history"]]
  /\ IF Active = {} THEN UNCHANGED <<faults, crowded>>
                    ELSE Fault /\ crowded' = crowded \cup Active \cup {r}
  /\ UNCHANGED <<transfers, statistics, run, increments, arrived, skipped, leftover, twice, overtaken>>

\* getTxTimeSegment: a segment for every day from that of the oldest document
\* to today.
GetMinTxTime(answer, first) ==
  /\ \E d \in answer : Day[d] = first
  /\ \A d \in answer : first <= Day[d]

\* A fault of the next definition, for comparison: one day too many.
SegmentToolTomorrow(first) == [from |-> first, to |-> today + 1]

SegmentTool(first) == [from |-> first, to |-> today]

\* GetMinTxTime of latest and then of the history.  An empty one is an error,
\* and ends the run.
LatestSegments(r, answer, first) ==
  /\ pc[r] = "segments"
  /\ answer \in Answers(coll["latest"], Stored) /\ Counted(answer, coll["latest"])
  /\ IF answer = {}
       THEN Ends(r)
       ELSE /\ GetMinTxTime(answer, first)
            /\ pc' = [pc EXCEPT ![r] = "historySegments"]
            /\ run' = [run EXCEPT ![r].latest = SegmentTool(first)]
            /\ skipped' = [skipped EXCEPT ![r] = @ \cup (coll["latest"] \ answer)]
            /\ UNCHANGED <<arrived, moved, leftover, crowded, overtaken>>
  /\ UNCHANGED <<transfers, statistics, task, increments, twice>>

\* The first day of latest is remembered, and the new collection created: only
\* its indexes are, what a failed run has left in it is still there.
HistorySegments(r, answer, first) ==
  /\ pc[r] = "historySegments"
  /\ answer \in Answers(coll["history"], coll["history"]) /\ Counted(answer, coll["history"])
  /\ IF answer = {}
       THEN Ends(r) /\ UNCHANGED <<task, newExists>>
       ELSE /\ GetMinTxTime(answer, first)
            /\ pc' = [pc EXCEPT ![r] = "deal"]
            /\ run' = [run EXCEPT ![r].history = SegmentTool(first)]
            /\ task' = [task EXCEPT ![ProcessOf[r]].min = run[r].latest.from]
            /\ newExists' = TRUE
            /\ skipped' = [skipped EXCEPT ![r] = @ \cup (coll["history"] \ answer)]
            /\ leftover' = [leftover EXCEPT ![r] = {d \in Doc : new[d] > 0}]
            /\ UNCHANGED <<arrived, moved, crowded, overtaken>>
  /\ UNCHANGED <<transfers, live, new, increments, twice>>

\* The history is dealt with first, then latest, both in the order of days.
Left(segments) == segments.from <= segments.to
Pass(r) == IF Left(run[r].history) THEN "history" ELSE "latest"
Dealing(r) == Left(run[r].history) \/ Left(run[r].latest)
Segment(r) == IF Left(run[r].history) THEN run[r].history.from ELSE run[r].latest.from
Dealt(r) == IF Left(run[r].history)
              THEN [run EXCEPT ![r].history.from = @ + 1, ![r].rows = Nothing]
              ELSE [run EXCEPT ![r].latest.from = @ + 1, ![r].rows = Nothing]

RowsOf(page) == [d \in Doc |-> IF d \in page THEN 1 ELSE 0]

\* A fault of the next definition, for comparison.
IntegrationLatestOnly(page, recorded) == RowsOf(page)

\* The rows of a segment of latest, together with those the pass over the
\* history has recorded for it.
IntegrationStatisticsData(page, recorded) ==
  [d \in Doc |-> RowsOf(page)[d] + RowsOf(recorded)[d]]

Aggregate(r, page) ==
  LET c == Pass(r)
      p == ProcessOf[r]
      segment == OfDay(Segment(r))
      right == Matching(c) \cap segment
  IN /\ pc[r] = "deal" /\ Dealing(r)
     /\ page \in Answers(right, Showable(c) \cap countable \cap segment) /\ Counted(page, right)
     /\ skipped' = [skipped EXCEPT ![r] = @ \cup (right \ page)]
     /\ moved' = [moved EXCEPT ![r] = @ \cup (page \ right)]
     /\ IF page = {}
          THEN run' = Dealt(r) /\ UNCHANGED <<pc, task>>
          ELSE /\ pc' = [pc EXCEPT ![r] = "save"]
               /\ IF c = "history"
                    THEN /\ run' = [run EXCEPT ![r].rows = RowsOf(page)]
                         /\ task' = IF Segment(r) >= task[p].min
                                      THEN [task EXCEPT ![p].overlap = (@ \ segment) \cup page]
                                      ELSE task
                    ELSE /\ run' = [run EXCEPT ![r].rows =
                                      IntegrationStatisticsData(page, task[p].overlap \cap segment)]
                         /\ UNCHANGED task
     /\ UNCHANGED <<transfers, statistics, increments, arrived, leftover, crowded, twice, overtaken>>

\* The flow tasks log a failed aggregation and go on with the next segment;
\* the token and channel statistics end the run.
AggregateFails(r) ==
  /\ pc[r] = "deal" /\ Dealing(r) /\ Fault
  /\ IF SkipsFailed
       THEN /\ run' = Dealt(r)
            /\ skipped' = [skipped EXCEPT ![r] = @ \cup OfDay(Segment(r))]
            /\ UNCHANGED <<pc, arrived, moved, leftover, crowded, overtaken>>
       ELSE Ends(r)
  /\ UNCHANGED <<transfers, statistics, task, increments, twice>>

\* saveData: rows of the history are inserted, those of latest take the place
\* of the segment's rows, in one transaction.
InsertManyToNew(rows) == [d \in Doc |-> new[d] + rows[d]]

\* A fault of the next definition, for comparison.
InsertSwapNew(rows, day) == InsertManyToNew(rows)

BatchSwapNew(rows, day) == [d \in Doc |-> IF Day[d] = day THEN rows[d] ELSE new[d]]

Save(r) ==
  LET rows == run[r].rows
  IN /\ pc[r] = "save"
     /\ new' = IF Pass(r) = "history" THEN InsertManyToNew(rows) ELSE BatchSwapNew(rows, Segment(r))
     /\ newExists' = TRUE
     /\ run' = Dealt(r)
     /\ pc' = [pc EXCEPT ![r] = "deal"]
     /\ UNCHANGED <<transfers, live, task, increments, faults, histories>>

\* A failed insert may have inserted some of the rows, a failed transaction
\* none.  The error is logged.
SaveFails(r, stored) ==
  LET rows == run[r].rows
      all == {d \in Doc : rows[d] > 0}
  IN /\ pc[r] = "save" /\ Fault
     /\ stored \subseteq all /\ (Pass(r) = "latest" => stored = {})
     /\ new' = [d \in Doc |-> IF d \in stored THEN new[d] + rows[d] ELSE new[d]]
     /\ newExists' = (newExists \/ stored # {})
     /\ skipped' = [skipped EXCEPT ![r] = @ \cup (all \ stored)]
     /\ run' = Dealt(r)
     /\ pc' = [pc EXCEPT ![r] = "deal"]
     /\ UNCHANGED <<transfers, live, task, increments, arrived, moved, leftover, crowded, twice, overtaken>>

\* renameCollection with dropTarget.
SwitchColl(r) ==
  /\ pc[r] = "deal" /\ ~Dealing(r) /\ newExists
  /\ live' = new /\ new' = Nothing /\ newExists' = FALSE
  /\ twice' = IF r \in crowded THEN Doc ELSE moved[r] \cup leftover[r]
  /\ Ends(r)
  /\ UNCHANGED <<transfers, task, increments, faults>>

\* Another run has switched before: there is nothing to rename.
NothingToSwitch(r) ==
  /\ pc[r] = "deal" /\ ~Dealing(r) /\ ~newExists
  /\ Ends(r)
  /\ UNCHANGED <<transfers, statistics, task, increments, faults, twice>>

\* A failed query for the segments, a failed rename or index, a crash.
AbandonFull(r) ==
  /\ r \in Active /\ Fault
  /\ Ends(r)
  /\ UNCHANGED <<transfers, statistics, task, increments, twice>>

-----------------------------------------------------------------------------
(* An increment: Run of the flow tasks, and the same two steps within Run  *)
(* of the token and the channel task.                                      *)

Idle(i) == /\ at' = [at EXCEPT ![i] = "idle"]
           /\ incr' = [incr EXCEPT ![i] = [day |-> 1, rows |-> {}]]
           /\ overtaken' = [overtaken EXCEPT ![i] = {}]

\* todayStatistics.  A second one at the same time only if the cron lock has
\* expired (see CronTaskLock).
TodayStatistics(i) ==
  /\ at[i] = "idle"
  /\ at' = [at EXCEPT ![i] = "today"]
  /\ incr' = [incr EXCEPT ![i].day = today]
  /\ IF \A other \in Increment : at[other] = "idle" THEN UNCHANGED faults ELSE Fault
  /\ UNCHANGED <<transfers, statistics, fullRuns, checks, histories>>

\* whetherCheckYesterdayStatistics: a counter in Redis that starts anew every
\* day.  Counts above 2 * CheckEvery are folded: what is asked of them stays
\* the same.
Incr(count) == IF count = 2 * CheckEvery THEN CheckEvery + 1 ELSE count + 1

\* A fault of the next definition, for comparison.
ChecksOnce(count) == count = 1

ChecksYesterday(count) == count = 1 \/ count % CheckEvery = 0

YesterdayStatistics(i) ==
  /\ at[i] = "check"
  /\ checks' = Incr(checks)
  /\ IF ChecksYesterday(checks') /\ today > 1
       THEN /\ at' = [at EXCEPT ![i] = "yesterday"]
            /\ incr' = [incr EXCEPT ![i].day = today - 1]
            /\ UNCHANGED overtaken
       ELSE Idle(i)
  /\ UNCHANGED <<transfers, statistics, fullRuns, faults, fullHistories>>

\* Today's segment is followed by yesterday's, whatever came of it.
Goes(i) == IF at[i] \in {"today", "saveToday"}
             THEN /\ at' = [at EXCEPT ![i] = "check"]
                  /\ incr' = [incr EXCEPT ![i].rows = {}]
                  /\ overtaken' = [overtaken EXCEPT ![i] = {}]
             ELSE Idle(i)

\* deal: a segment without rows is left as it is.
AggregateDay(i, page) ==
  LET segment == OfDay(incr[i].day)
      right == Matching("latest") \cap segment
  IN /\ at[i] \in {"today", "yesterday"}
     /\ page \in Answers(right, Showable("latest") \cap countable \cap segment) /\ Counted(page, right)
     /\ IF page = {}
          THEN Goes(i)
          ELSE /\ at' = [at EXCEPT ![i] = IF @ = "today" THEN "saveToday" ELSE "saveYesterday"]
               /\ incr' = [incr EXCEPT ![i].rows = page]
               /\ overtaken' = [overtaken EXCEPT ![i] = right \ page]
     /\ UNCHANGED <<transfers, statistics, fullRuns, checks, fullHistories>>

\* A fault of the next definition, for comparison: it removes more than the
\* rows of the segment.
SwapFromDay(rows, day) == [d \in Doc |-> IF Day[d] >= day THEN RowsOf(rows)[d] ELSE live[d]]

\* Removes the rows of the segment and inserts the new ones, in one transaction.
BatchSwap(rows, day) == [d \in Doc |-> IF Day[d] = day THEN RowsOf(rows)[d] ELSE live[d]]

SaveDay(i) ==
  /\ Saving(i)
  /\ live' = BatchSwap(incr[i].rows, incr[i].day)
  /\ Goes(i)
  /\ UNCHANGED <<transfers, new, newExists, fullRuns, checks, faults, fullHistories>>

\* An error of a query, of the counter or of a write is logged.
FailDay(i) ==
  /\ at[i] # "idle" /\ Fault
  /\ IF at[i] = "check" THEN Idle(i) ELSE Goes(i)
  /\ UNCHANGED <<transfers, statistics, fullRuns, checks, fullHistories>>

\* The process dies.
AbandonIncrement(i) ==
  /\ at[i] # "idle" /\ Fault
  /\ Idle(i)
  /\ UNCHANGED <<transfers, statistics, fullRuns, checks, fullHistories>>

-----------------------------------------------------------------------------
FullStep(r) ==
  \/ \E answer \in SUBSET Doc, first \in Days :
       LatestSegments(r, answer, first) \/ HistorySegments(r, answer, first)
  \/ \E page \in SUBSET Doc : Aggregate(r, page)
  \/ Save(r) \/ SwitchColl(r) \/ NothingToSwitch(r)

IncrementStep(i) ==
  \/ \E page \in SUBSET Doc : AggregateDay(i, page)
  \/ SaveDay(i) \/ YesterdayStatistics(i)

Next ==
  \/ \E d \in Doc : Store(d) \/ Settle(d) \/ InsertHistory(d) \/ Delete(d)
  \/ Midnight
  \/ \E r \in Full : StartFull(r) \/ FullStep(r) \/ AggregateFails(r) \/ AbandonFull(r)
                    \/ \E stored \in SUBSET Doc : SaveFails(r, stored)
  \/ \E i \in Increment : TodayStatistics(i) \/ IncrementStep(i) \/ FailDay(i) \/ AbandonIncrement(i)

Spec == Init /\ [][Next]_vars

\* Cron starts increments for ever (utils.RunTimer), and one that has not
\* failed goes on.
Fairness ==
  /\ WF_vars(\E i \in Increment : TodayStatistics(i))
  /\ \A i \in Increment : WF_vars(IncrementStep(i))

FairSpec == Spec /\ Fairness

-----------------------------------------------------------------------------
(* Properties.                                                             *)

Switches(r) == newExists /\ ~newExists' /\ pc'[r] # pc[r]

\* When a full run publishes its collection, every transfer that it had a
\* chance to see is counted in it, once, on whichever side of the migration
\* it was.  It had none if the transfer arrived or moved meanwhile or an error
\* hid it, and only what an earlier run has left behind is counted again.
FullCountsEach ==
  [][\A r \in Full : Switches(r) /\ r \notin crowded =>
       \A d \in (Stored \cap countable) \ (arrived[r] \cup moved[r] \cup skipped[r]) :
         live'[d] >= 1 /\ (live'[d] > 1 => d \in leftover[r])]_vars

\* No transfer is counted twice, unless a full run met it in both collections,
\* built upon what a failed run had left, or ran beside another one.
NotTwice == \A d \in Doc : live[d] > 1 => d \in twice

\* What is counted stays counted.  The swap of a day drops what has been
\* migrated or has arrived since the rows were read; a switch drops what the
\* full run could not see, such as transfers that an increment has counted
\* meanwhile.
CountedStays ==
  [][\A d \in Doc : live[d] > 0 /\ live'[d] = 0 =>
       \/ \E i \in Increment : Saving(i) /\ at'[i] # at[i] /\ d \in coll["history"] \cup overtaken[i]
       \/ \E r \in Full : Switches(r) /\ (r \in crowded \/ d \in arrived[r] \cup moved[r] \cup skipped[r])]_vars

\* In the end the increments count every transfer of today or yesterday that is
\* in latest, however late it came and whatever failed.
RecentCounted ==
  \A d \in Doc : <>[](d \in Matching("latest") \ coll["history"] /\ Day[d] >= today - 1 => live[d] = 1)
=============================================================================

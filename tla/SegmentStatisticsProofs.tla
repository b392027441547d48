--------------------- MODULE SegmentStatisticsProofs ---------------------
(* Every full run counts each transfer once, with the named exceptions, and *)
(* what is counted stays counted: for any documents, days, runs and faults. *)
EXTENDS SegmentStatistics, TLAPS

USE StatisticsAssumption

\* A run has something left to deal with while it holds rows.
SaveDeals == \A r \in Full : pc[r] = "save" => Dealing(r)

Typed == TypeOK /\ SaveDeals

Runs == [latest : Segments, history : Segments, rows : Rows]

-----------------------------------------------------------------------------
(* Typing. *)

LEMMA RunTyped ==
  ASSUME Typed, NEW r \in Full
  PROVE  /\ run \in [Full -> Runs] /\ run[r] \in Runs
         /\ run[r].latest \in Segments /\ run[r].history \in Segments /\ run[r].rows \in Rows
         /\ run[r].latest.from \in 1..LastDay + 1 /\ run[r].latest.to \in 0..LastDay
         /\ run[r].history.from \in 1..LastDay + 1 /\ run[r].history.to \in 0..LastDay
<1>1. run \in [Full -> Runs] /\ run[r] \in Runs
  BY DEF Typed, TypeOK, Runs
<1> QED
  BY <1>1 DEF Runs, Segments

LEMMA RowsTyped ==
  /\ Nothing \in Rows
  /\ \A page : RowsOf(page) \in Rows
  /\ \A page, recorded : IntegrationStatisticsData(page, recorded) \in Rows
BY DEF Nothing, Rows, RowsOf, IntegrationStatisticsData

LEMMA NoRunTyped == NoRun \in Runs
BY RowsTyped DEF NoRun, NoSegments, Runs, Segments, Days

\* The next segment of a run.
LEMMA DealtTyped ==
  ASSUME Typed, NEW r \in Full, Dealing(r)
  PROVE  /\ Dealt(r) \in [Full -> Runs]
         /\ Segment(r) \in Days
         /\ \A x \in Full \ {r} : Dealt(r)[x] = run[x]
         /\ Dealt(r)[r].rows = Nothing
         /\ Dealt(r)[r].latest.to = run[r].latest.to
         /\ Dealt(r)[r].history.to = run[r].history.to
         /\ Left(run[r].history) =>
              /\ Dealt(r)[r].history.from = run[r].history.from + 1
              /\ Dealt(r)[r].latest.from = run[r].latest.from
         /\ ~ Left(run[r].history) =>
              /\ Dealt(r)[r].history.from = run[r].history.from
              /\ Dealt(r)[r].latest.from = run[r].latest.from + 1
<1>1. run \in [Full -> Runs]
  BY DEF Typed, TypeOK, Runs
<1>2. /\ run[r] \in Runs
      /\ run[r].latest.from \in 1..LastDay + 1 /\ run[r].latest.to \in 0..LastDay
      /\ run[r].history.from \in 1..LastDay + 1 /\ run[r].history.to \in 0..LastDay
  BY RunTyped
<1>3. CASE Left(run[r].history)
  <2> DEFINE new_ == [run[r] EXCEPT !.history.from = @ + 1, !.rows = Nothing]
  <2>1. Dealt(r) = [run EXCEPT ![r] = new_]
    BY <1>1, <1>3 DEF Dealt
  <2>2. run[r].history.from + 1 \in 1..LastDay + 1 /\ run[r].history.from \in Days
    BY <1>2, <1>3 DEF Left, Days
  <2>3. new_ \in Runs
    BY <1>2, <2>2, RowsTyped DEF Runs, Segments
  <2>4. /\ new_.rows = Nothing /\ new_.latest = run[r].latest
        /\ new_.history.to = run[r].history.to /\ new_.history.from = run[r].history.from + 1
    BY <1>2 DEF Runs, Segments
  <2> HIDE DEF new_
  <2> QED
    BY <1>1, <1>3, <2>1, <2>2, <2>3, <2>4 DEF Segment
<1>4. CASE ~ Left(run[r].history)
  <2> DEFINE new_ == [run[r] EXCEPT !.latest.from = @ + 1, !.rows = Nothing]
  <2>1. Dealt(r) = [run EXCEPT ![r] = new_]
    BY <1>1, <1>4 DEF Dealt
  <2>2. run[r].latest.from + 1 \in 1..LastDay + 1 /\ run[r].latest.from \in Days
    BY <1>2, <1>4 DEF Left, Days, Dealing
  <2>3. new_ \in Runs
    BY <1>2, <2>2, RowsTyped DEF Runs, Segments
  <2>4. /\ new_.rows = Nothing /\ new_.history = run[r].history
        /\ new_.latest.to = run[r].latest.to /\ new_.latest.from = run[r].latest.from + 1
    BY <1>2 DEF Runs, Segments
  <2> HIDE DEF new_
  <2> QED
    BY <1>1, <1>4, <2>1, <2>2, <2>3, <2>4 DEF Segment
<1> QED
  BY <1>3, <1>4

LEMMA InitTyped == Init => Typed
<1> SUFFICES ASSUME Init PROVE Typed
  OBVIOUS
<1>1. run \in [Full -> Runs]
  BY NoRunTyped DEF Init
<1>2. /\ 1 \in Days /\ checks \in 0..2 * CheckEvery /\ faults \in 0..MaxFaults
      /\ LastDay + 1 \in 1..LastDay + 1
  BY DEF Init, Days
<1>3. TypeOK
  BY <1>1, <1>2, RowsTyped DEF Init, TypeOK, Runs
<1>4. SaveDeals
  BY DEF Init, SaveDeals
<1> QED
  BY <1>3, <1>4 DEF Typed

\* A run that only keeps the rows it has read.
LEMMA KeepsRows ==
  ASSUME Typed, NEW r \in Full, NEW rows \in Rows
  PROVE  LET kept == [run EXCEPT ![r].rows = rows]
         IN /\ kept \in [Full -> Runs]
            /\ \A x \in Full \ {r} : kept[x] = run[x]
            /\ kept[r].rows = rows /\ kept[r].latest = run[r].latest /\ kept[r].history = run[r].history
<1>1. run \in [Full -> Runs] /\ run[r] \in Runs
  BY RunTyped DEF Typed, TypeOK, Runs
<1> QED
  BY <1>1 DEF Runs

LEMMA EndsTyped ==
  ASSUME Typed, NEW r \in Full, Ends(r)
  PROVE  /\ pc' \in [Full -> {"idle", "segments", "historySegments", "deal", "save", "done"}]
         /\ run' \in [Full -> Runs]
         /\ arrived' \in [Full -> SUBSET Doc] /\ moved' \in [Full -> SUBSET Doc]
         /\ skipped' \in [Full -> SUBSET Doc] /\ leftover' \in [Full -> SUBSET Doc]
         /\ crowded' \subseteq Full /\ overtaken' = overtaken
         /\ SaveDeals'
<1>1. run \in [Full -> Runs]
  BY DEF Typed, TypeOK, Runs
<1>2. run' \in [Full -> Runs] /\ \A x \in Full \ {r} : run'[x] = run[x] /\ pc'[x] = pc[x]
  BY <1>1, NoRunTyped DEF Ends, Typed, TypeOK
<1>3. SaveDeals'
  BY <1>2 DEF Typed, TypeOK, SaveDeals, Dealing, Ends
<1> QED
  BY <1>2, <1>3 DEF Ends, Typed, TypeOK

\* What an increment may leave behind.
LEMMA GoesTyped ==
  ASSUME Typed, NEW i \in Increment, Goes(i) \/ Idle(i)
  PROVE  /\ at' \in [Increment -> {"idle", "today", "saveToday", "check", "yesterday", "saveYesterday"}]
         /\ incr' \in [Increment -> [day : Days, rows : SUBSET Doc]]
         /\ overtaken' \in [Increment -> SUBSET Doc]
<1>1. incr[i] \in [day : Days, rows : SUBSET Doc] /\ 1 \in Days
  BY DEF Typed, TypeOK, Days
<1>2. CASE Idle(i)
  BY <1>1, <1>2 DEF Idle, Typed, TypeOK
<1>3. CASE Goes(i) /\ ~ Idle(i)
  <2>1. /\ at' = [at EXCEPT ![i] = "check"]
        /\ incr' = [incr EXCEPT ![i].rows = {}]
        /\ overtaken' = [overtaken EXCEPT ![i] = {}]
    BY <1>3 DEF Goes
  <2>2. [incr[i] EXCEPT !.rows = {}] \in [day : Days, rows : SUBSET Doc]
    BY <1>1
  <2> QED
    BY <2>1, <2>2 DEF Typed, TypeOK
<1> QED
  BY <1>2, <1>3

LEMMA SegmentTyped ==
  ASSUME Typed, NEW first \in Days
  PROVE  /\ SegmentTool(first) \in Segments
         /\ SegmentTool(first).from = first /\ SegmentTool(first).to = today
BY DEF Typed, TypeOK, SegmentTool, Segments, Days

LEMMA TaskTyped ==
  ASSUME Typed
  PROVE  /\ task \in [Process -> [min : 1..LastDay + 1, overlap : SUBSET Doc]]
         /\ \A r \in Full : /\ ProcessOf[r] \in Process
                            /\ task[ProcessOf[r]].min \in 1..LastDay + 1
                            /\ task[ProcessOf[r]].overlap \subseteq Doc
<1>1. task \in [Process -> [min : 1..LastDay + 1, overlap : SUBSET Doc]]
  BY DEF Typed, TypeOK
<1> QED
  BY <1>1

LEMMA IncrTyped ==
  ASSUME Typed, NEW i \in Increment
  PROVE  incr \in [Increment -> [day : Days, rows : SUBSET Doc]] /\ incr[i] \in [day : Days, rows : SUBSET Doc]
<1>1. incr \in [Increment -> [day : Days, rows : SUBSET Doc]]
  BY DEF Typed, TypeOK
<1> QED
  BY <1>1

LEMMA TypedStep == Typed /\ [Next]_vars => Typed'
<1> SUFFICES ASSUME Typed, [Next]_vars PROVE Typed'
  OBVIOUS
<1> USE DEF Typed
<1>1. CASE UNCHANGED vars
  BY <1>1 DEF vars, TypeOK, SaveDeals, Dealing, Left
<1>2. ASSUME NEW d \in Doc, Store(d) \/ Settle(d) \/ InsertHistory(d) \/ Delete(d)
      PROVE  Typed'
  <2>1. coll' \in [Coll -> SUBSET Doc] /\ countable' \subseteq Doc
    BY <1>2 DEF TypeOK, transfers, Coll, Store, Settle, InsertHistory, Delete
  <2>2. /\ arrived' \in [Full -> SUBSET Doc] /\ moved' \in [Full -> SUBSET Doc]
        /\ overtaken' \in [Increment -> SUBSET Doc]
        /\ UNCHANGED <<skipped, leftover, crowded, twice>>
    <3>1. CASE Arrives(d)
      BY <3>1 DEF Arrives, TypeOK
    <3>2. CASE Moves(d)
      BY <3>2 DEF Moves, TypeOK
    <3> QED
      BY <1>2, <3>1, <3>2 DEF Store, Settle, InsertHistory, Delete
  <2>3. UNCHANGED <<today, statistics, fullRuns, increments, faults>>
    BY <1>2 DEF Store, Settle, InsertHistory, Delete
  <2> QED
    BY <2>1, <2>2, <2>3 DEF TypeOK, SaveDeals, Dealing, Left, statistics, fullRuns, increments
<1>3. CASE Midnight
  <2>1. today' \in Days /\ checks' \in 0..2 * CheckEvery
    BY <1>3 DEF Midnight, TypeOK, Days
  <2> QED
    BY <1>3, <2>1 DEF Midnight, TypeOK, SaveDeals, Dealing, Left, statistics, fullRuns, histories, fullHistories
<1>4. ASSUME NEW r \in Full, StartFull(r)
      PROVE  Typed'
  <2>1. task' \in [Process -> [min : 1..LastDay + 1, overlap : SUBSET Doc]]
    <3>1. [min |-> LastDay + 1, overlap |-> {}] \in [min : 1..LastDay + 1, overlap : SUBSET Doc]
      OBVIOUS
    <3> QED
      BY <1>4, <3>1 DEF StartFull, TypeOK
  <2>2. faults' \in 0..MaxFaults /\ crowded' \subseteq Full
    BY <1>4 DEF StartFull, Fault, TypeOK, Active
  <2>3. moved' \in [Full -> SUBSET Doc]
    BY <1>4 DEF StartFull, TypeOK, Coll
  <2>4. SaveDeals'
    BY <1>4 DEF StartFull, TypeOK, SaveDeals, Dealing, Left
  <2> QED
    BY <1>4, <2>1, <2>2, <2>3, <2>4 DEF StartFull, TypeOK, transfers, statistics, increments
<1>5. ASSUME NEW r \in Full, NEW answer \in SUBSET Doc, NEW first \in Days,
             LatestSegments(r, answer, first)
      PROVE  Typed'
  <2>1. faults' \in 0..MaxFaults
    BY <1>5 DEF LatestSegments, Answers, Counted, TypeOK
  <2>2. CASE answer = {}
    <3>1. Ends(r) /\ UNCHANGED <<transfers, statistics, task, increments, twice>>
      BY <1>5, <2>2 DEF LatestSegments
    <3> QED
      BY <2>1, <3>1, EndsTyped DEF TypeOK, transfers, statistics, increments, Runs
  <2>3. CASE answer # {}
    <3> run \in [Full -> Runs]
      BY RunTyped
    <3>1. [run[r] EXCEPT !.latest = SegmentTool(first)] \in Runs
      BY SegmentTyped DEF Runs
    <3>2. run' \in [Full -> Runs] /\ \A x \in Full \ {r} : run'[x] = run[x]
      BY <1>5, <2>3, <3>1 DEF LatestSegments
    <3>3. /\ pc' = [pc EXCEPT ![r] = "historySegments"]
          /\ skipped' = [skipped EXCEPT ![r] = @ \cup (coll["latest"] \ answer)]
          /\ UNCHANGED <<transfers, statistics, task, increments, twice, arrived, moved, leftover, crowded, overtaken>>
      BY <1>5, <2>3 DEF LatestSegments
    <3>4. skipped' \in [Full -> SUBSET Doc]
      BY <3>3 DEF TypeOK, Coll
    <3>5. SaveDeals'
      BY <3>2, <3>3 DEF TypeOK, SaveDeals, Dealing, Left
    <3> QED
      BY <2>1, <3>2, <3>3, <3>4, <3>5 DEF TypeOK, transfers, statistics, increments, Runs
  <2> QED
    BY <2>2, <2>3
<1>6. ASSUME NEW r \in Full, NEW answer \in SUBSET Doc, NEW first \in Days,
             HistorySegments(r, answer, first)
      PROVE  Typed'
  <2>1. faults' \in 0..MaxFaults
    BY <1>6 DEF HistorySegments, Answers, Counted, TypeOK
  <2>2. CASE answer = {}
    <3>1. Ends(r) /\ UNCHANGED <<transfers, statistics, task, increments, twice>>
      BY <1>6, <2>2 DEF HistorySegments, statistics
    <3> QED
      BY <2>1, <3>1, EndsTyped DEF TypeOK, transfers, statistics, increments, Runs
  <2>3. CASE answer # {}
    <3> run \in [Full -> Runs]
      BY RunTyped
    <3>1. [run[r] EXCEPT !.history = SegmentTool(first)] \in Runs
      BY SegmentTyped DEF Runs
    <3>2. run' \in [Full -> Runs] /\ \A x \in Full \ {r} : run'[x] = run[x]
      BY <1>6, <2>3, <3>1 DEF HistorySegments
    <3>3. /\ pc' = [pc EXCEPT ![r] = "deal"]
          /\ task' = [task EXCEPT ![ProcessOf[r]].min = run[r].latest.from]
          /\ newExists' = TRUE
          /\ skipped' = [skipped EXCEPT ![r] = @ \cup (coll["history"] \ answer)]
          /\ leftover' = [leftover EXCEPT ![r] = {d \in Doc : new[d] > 0}]
          /\ UNCHANGED <<transfers, live, new, increments, twice, arrived, moved, crowded, overtaken>>
      BY <1>6, <2>3 DEF HistorySegments
    <3>4. skipped' \in [Full -> SUBSET Doc] /\ leftover' \in [Full -> SUBSET Doc]
      BY <3>3 DEF TypeOK, Coll
    <3>5. SaveDeals'
      BY <3>2, <3>3 DEF TypeOK, SaveDeals, Dealing, Left
    <3>6. task' \in [Process -> [min : 1..LastDay + 1, overlap : SUBSET Doc]]
      <4>1. run[r].latest.from \in 1..LastDay + 1
        BY RunTyped
      <4> QED
        BY <3>3, <4>1, TaskTyped
    <3> QED
      BY <2>1, <3>2, <3>3, <3>4, <3>5, <3>6 DEF TypeOK, transfers, increments, Runs
  <2> QED
    BY <2>2, <2>3
<1>7. ASSUME NEW r \in Full, NEW page \in SUBSET Doc, Aggregate(r, page)
      PROVE  Typed'
  <2> DEFINE c == Pass(r)
             p == ProcessOf[r]
             segment == OfDay(Segment(r))
             right == Matching(c) \cap segment
  <2>1. /\ pc[r] = "deal" /\ Dealing(r)
        /\ skipped' = [skipped EXCEPT ![r] = @ \cup (right \ page)]
        /\ moved' = [moved EXCEPT ![r] = @ \cup (page \ right)]
        /\ UNCHANGED <<transfers, statistics, increments, arrived, leftover, crowded, twice, overtaken>>
    BY <1>7 DEF Aggregate
  <2>2. faults' \in 0..MaxFaults
    BY <1>7 DEF Aggregate, Answers, Counted, TypeOK
  <2>3. skipped' \in [Full -> SUBSET Doc] /\ moved' \in [Full -> SUBSET Doc]
    BY <2>1 DEF TypeOK, OfDay
  <2>4. /\ run' \in [Full -> Runs]
        /\ \A x \in Full \ {r} : run'[x] = run[x]
        /\ pc' = pc \/ (pc' = [pc EXCEPT ![r] = "save"]
                         /\ run'[r].latest = run[r].latest /\ run'[r].history = run[r].history)
    <3>1. CASE page = {}
      BY <1>7, <2>1, <3>1, DealtTyped DEF Aggregate
    <3>2. CASE page # {}
      <4>1. PICK rows \in Rows : run' = [run EXCEPT ![r].rows = rows]
        BY <1>7, <3>2, RowsTyped DEF Aggregate
      <4>2. pc' = [pc EXCEPT ![r] = "save"]
        BY <1>7, <3>2 DEF Aggregate
      <4> QED
        BY <4>1, <4>2, KeepsRows
    <3> QED
      BY <3>1, <3>2
  <2>5. task' \in [Process -> [min : 1..LastDay + 1, overlap : SUBSET Doc]]
    <3>1. task' = task \/ task' = [task EXCEPT ![p].overlap = (@ \ segment) \cup page]
      BY <1>7 DEF Aggregate
    <3>2. (task[p].overlap \ segment) \cup page \in SUBSET Doc
      BY TaskTyped DEF OfDay
    <3> HIDE DEF segment, p
    <3> QED
      BY <3>1, <3>2, TaskTyped
  <2>6. SaveDeals'
    BY <2>1, <2>4 DEF SaveDeals, Dealing, TypeOK
  <2>7. pc' \in [Full -> {"idle", "segments", "historySegments", "deal", "save", "done"}]
    BY <2>4 DEF TypeOK
  <2> QED
    BY <2>1, <2>2, <2>3, <2>4, <2>5, <2>6, <2>7 DEF TypeOK, transfers, statistics, increments, Runs
<1>8. ASSUME NEW r \in Full, AggregateFails(r)
      PROVE  Typed'
  <2>1. faults' \in 0..MaxFaults /\ UNCHANGED <<transfers, statistics, task, increments, twice>>
    BY <1>8 DEF AggregateFails, Fault, TypeOK
  <2>2. CASE Ends(r)
    BY <2>1, <2>2, EndsTyped DEF TypeOK, transfers, statistics, increments, Runs
  <2>3. CASE ~ Ends(r)
    <3>1. /\ pc[r] = "deal" /\ Dealing(r) /\ run' = Dealt(r)
          /\ skipped' = [skipped EXCEPT ![r] = @ \cup OfDay(Segment(r))]
          /\ UNCHANGED <<pc, arrived, moved, leftover, crowded, overtaken>>
      BY <1>8, <2>3 DEF AggregateFails
    <3>2. run' \in [Full -> Runs] /\ \A x \in Full \ {r} : run'[x] = run[x]
      BY <3>1, DealtTyped
    <3>3. SaveDeals'
      BY <3>1, <3>2 DEF SaveDeals, Dealing
    <3>4. skipped' \in [Full -> SUBSET Doc]
      BY <3>1 DEF TypeOK, OfDay
    <3> QED
      BY <2>1, <3>1, <3>2, <3>3, <3>4 DEF TypeOK, transfers, statistics, increments, Runs
  <2> QED
    BY <2>2, <2>3
<1>9. ASSUME NEW r \in Full, NEW stored \in SUBSET Doc, Save(r) \/ SaveFails(r, stored)
      PROVE  Typed'
  <2>1. pc[r] = "save" /\ Dealing(r) /\ run' = Dealt(r) /\ pc' = [pc EXCEPT ![r] = "deal"]
    BY <1>9 DEF Save, SaveFails, SaveDeals
  <2>2. run' \in [Full -> Runs] /\ \A x \in Full \ {r} : run'[x] = run[x]
    BY <2>1, DealtTyped
  <2>3. SaveDeals'
    BY <2>1, <2>2 DEF SaveDeals, Dealing, TypeOK
  <2>4. run[r].rows \in Rows /\ new \in Rows
    BY RunTyped DEF TypeOK
  <2>5. CASE Save(r)
    <3>1. new' \in Rows
      <4>1. InsertManyToNew(run[r].rows) \in Rows /\ BatchSwapNew(run[r].rows, Segment(r)) \in Rows
        BY <2>4 DEF InsertManyToNew, BatchSwapNew, Rows
      <4> QED
        BY <2>5, <4>1 DEF Save
    <3> QED
      BY <2>1, <2>2, <2>3, <2>5, <3>1
      DEF TypeOK, Save, transfers, increments, histories, fullHistories, Runs
  <2>6. CASE SaveFails(r, stored)
    <3>1. new' \in Rows
      BY <2>4, <2>6 DEF SaveFails, Rows
    <3>2. faults' \in 0..MaxFaults /\ newExists' \in BOOLEAN
      BY <2>6 DEF SaveFails, Fault, TypeOK
    <3>3. skipped' \in [Full -> SUBSET Doc]
      BY <2>6 DEF SaveFails, TypeOK
    <3> QED
      BY <2>1, <2>2, <2>3, <2>6, <3>1, <3>2, <3>3 DEF TypeOK, SaveFails, transfers, increments, Runs
  <2> QED
    BY <1>9, <2>5, <2>6
<1>10. ASSUME NEW r \in Full, SwitchColl(r) \/ NothingToSwitch(r) \/ AbandonFull(r)
       PROVE  Typed'
  <2>1. Ends(r) /\ UNCHANGED <<transfers, task, increments>>
    BY <1>10 DEF SwitchColl, NothingToSwitch, AbandonFull
  <2>2. faults' \in 0..MaxFaults
    BY <1>10 DEF SwitchColl, NothingToSwitch, AbandonFull, Fault, TypeOK
  <2>3. CASE SwitchColl(r)
    <3>1. live' \in Rows /\ new' \in Rows /\ newExists' \in BOOLEAN /\ twice' \subseteq Doc
      BY <2>3, RowsTyped DEF SwitchColl, TypeOK
    <3> QED
      BY <2>1, <2>2, <3>1, EndsTyped DEF TypeOK, transfers, increments, Runs
  <2>4. CASE ~ SwitchColl(r)
    <3>1. UNCHANGED <<statistics, twice>>
      BY <1>10, <2>4 DEF NothingToSwitch, AbandonFull
    <3> QED
      BY <2>1, <2>2, <3>1, EndsTyped DEF TypeOK, transfers, statistics, increments, Runs
  <2> QED
    BY <2>3, <2>4
<1>11. ASSUME NEW i \in Increment, TodayStatistics(i)
       PROVE  Typed'
  <2>1. [incr[i] EXCEPT !.day = today] \in [day : Days, rows : SUBSET Doc]
    <3>1. incr[i] \in [day : Days, rows : SUBSET Doc] /\ today \in Days
      BY IncrTyped DEF TypeOK
    <3> QED
      BY <3>1
  <2>2. incr' \in [Increment -> [day : Days, rows : SUBSET Doc]]
    BY <1>11, <2>1 DEF TodayStatistics, TypeOK
  <2>3. faults' \in 0..MaxFaults
    BY <1>11 DEF TodayStatistics, Fault, TypeOK
  <2> QED
    BY <1>11, <2>2, <2>3 DEF TodayStatistics, TypeOK, SaveDeals, Dealing, Left, transfers, statistics,
      fullRuns, histories, fullHistories
<1>12. ASSUME NEW i \in Increment, YesterdayStatistics(i)
       PROVE  Typed'
  <2>1. checks' \in 0..2 * CheckEvery
    <3>1. checks' = Incr(checks) /\ checks \in 0..2 * CheckEvery
      BY <1>12 DEF YesterdayStatistics, TypeOK
    <3> QED
      BY <3>1 DEF Incr
  <2>2. /\ at' \in [Increment -> {"idle", "today", "saveToday", "check", "yesterday", "saveYesterday"}]
        /\ incr' \in [Increment -> [day : Days, rows : SUBSET Doc]]
        /\ overtaken' \in [Increment -> SUBSET Doc]
    <3>1. CASE Idle(i)
      BY <3>1, GoesTyped
    <3>2. CASE ~ Idle(i)
      <4>1. /\ today > 1 /\ at' = [at EXCEPT ![i] = "yesterday"]
            /\ incr' = [incr EXCEPT ![i].day = today - 1]
            /\ UNCHANGED overtaken
        BY <1>12, <3>2 DEF YesterdayStatistics
      <4>2. today - 1 \in Days
        BY <4>1 DEF TypeOK, Days
      <4>3. [incr[i] EXCEPT !.day = today - 1] \in [day : Days, rows : SUBSET Doc]
        BY <4>2, IncrTyped
      <4> QED
        BY <4>1, <4>3 DEF TypeOK
    <3> QED
      BY <3>1, <3>2
  <2> QED
    BY <1>12, <2>1, <2>2 DEF YesterdayStatistics, TypeOK, SaveDeals, Dealing, Left, transfers, statistics,
      fullRuns, fullHistories
<1>13. ASSUME NEW i \in Increment, NEW page \in SUBSET Doc, AggregateDay(i, page)
       PROVE  Typed'
  <2>1. faults' \in 0..MaxFaults
    BY <1>13 DEF AggregateDay, Answers, Counted, TypeOK
  <2>2. /\ at' \in [Increment -> {"idle", "today", "saveToday", "check", "yesterday", "saveYesterday"}]
        /\ incr' \in [Increment -> [day : Days, rows : SUBSET Doc]]
        /\ overtaken' \in [Increment -> SUBSET Doc]
    <3>1. CASE page = {}
      BY <1>13, <3>1, GoesTyped DEF AggregateDay
    <3>2. CASE page # {}
      <4> DEFINE right == Matching("latest") \cap OfDay(incr[i].day)
      <4>1. /\ at' = [at EXCEPT ![i] = IF @ = "today" THEN "saveToday" ELSE "saveYesterday"]
            /\ incr' = [incr EXCEPT ![i].rows = page]
            /\ overtaken' = [overtaken EXCEPT ![i] = right \ page]
        BY <1>13, <3>2 DEF AggregateDay
      <4>2. [incr[i] EXCEPT !.rows = page] \in [day : Days, rows : SUBSET Doc]
        BY IncrTyped
      <4>3. right \subseteq Doc
        BY DEF OfDay
      <4> HIDE DEF right
      <4> QED
        BY <4>1, <4>2, <4>3 DEF TypeOK
    <3> QED
      BY <3>1, <3>2
  <2> QED
    BY <1>13, <2>1, <2>2 DEF AggregateDay, TypeOK, SaveDeals, Dealing, Left, transfers, statistics,
      fullRuns, fullHistories
<1>14. ASSUME NEW i \in Increment, SaveDay(i) \/ FailDay(i) \/ AbandonIncrement(i)
       PROVE  Typed'
  <2>1. Goes(i) \/ Idle(i)
    BY <1>14 DEF SaveDay, FailDay, AbandonIncrement
  <2>2. faults' \in 0..MaxFaults
    BY <1>14 DEF SaveDay, FailDay, AbandonIncrement, Fault, TypeOK
  <2>3. live' \in Rows
    <3>1. BatchSwap(incr[i].rows, incr[i].day) \in Rows
      BY RowsTyped DEF TypeOK, BatchSwap, Rows
    <3> QED
      BY <1>14, <3>1 DEF SaveDay, FailDay, AbandonIncrement, statistics, TypeOK
  <2>4. UNCHANGED <<transfers, new, newExists, fullRuns, checks, fullHistories>>
    BY <1>14 DEF SaveDay, FailDay, AbandonIncrement, statistics
  <2> QED
    BY <2>1, <2>2, <2>3, <2>4, GoesTyped DEF TypeOK, SaveDeals, Dealing, Left, transfers, fullRuns, fullHistories
<1> QED
  BY <1>1, <1>2, <1>3, <1>4, <1>5, <1>6, <1>7, <1>8, <1>9, <1>10, <1>11, <1>12, <1>13, <1>14
  DEF Next, FullStep, IncrementStep

\* The state of the statistics is well typed (all of SegmentStatistics).
THEOREM StatisticsTypeCorrect == Spec => []TypeOK
<1>1. Spec => []Typed
  BY InitTyped, TypedStep, PTL DEF Spec
<1> QED
  BY <1>1, PTL DEF Typed

-----------------------------------------------------------------------------
(* The invariant. *)

Solo(r) == r \in Active /\ r \notin crowded
Begun(r) == pc[r] \in {"historySegments", "deal", "save"}
Ready(r) == pc[r] \in {"deal", "save"}
Excused(r) == arrived[r] \cup moved[r] \cup skipped[r]
First(r) == task[ProcessOf[r]].min
Overlap(r) == task[ProcessOf[r]].overlap

Places ==
  /\ countable \subseteq Stored
  /\ \A d \in Stored : Day[d] <= today

\* Whatever is counted somewhere is countable; the overlap is of the history.
Counting ==
  /\ \A d \in Doc : live[d] > 0 \/ new[d] > 0 => d \in countable
  /\ \A r \in Full : \A d \in Doc : run[r].rows[d] > 0 => d \in countable
  /\ \A i \in Increment : incr[i].rows \subseteq countable
  /\ \A p \in Process : task[p].overlap \subseteq coll["history"] \cap countable

Alone == \A r \in Full : Solo(r) => Active = {r}

Migrating == \A r \in Active : coll["latest"] \cap coll["history"] \subseteq moved[r]

\* The segments of a run reach to the day of every document it has to count.
Span(r) ==
  /\ Begun(r) => /\ run[r].latest.to <= today
                 /\ \A d \in Stored \ arrived[r] : Day[d] <= run[r].latest.to
  /\ Ready(r) => run[r].latest.to <= run[r].history.to

\* What a run has counted: once, on a day that it has passed.
AtMostOnce(r) ==
  Solo(r) /\ Ready(r) =>
    \A d \in Doc \ (moved[r] \cup leftover[r]) :
      /\ new[d] <= 1
      /\ new[d] = 1 => \/ d \in coll["history"] /\ Day[d] < run[r].history.from
                       \/ d \in coll["latest"] /\ Day[d] < run[r].latest.from
      /\ pc[r] = "save" /\ run[r].rows[d] > 0 =>
           /\ run[r].rows[d] = 1 /\ Day[d] = Segment(r) /\ d \in Stored
           /\ Left(run[r].history) => d \in coll["history"]

\* What a run has to count: it is counted, or its day is still to come.  The
\* days that latest will replace are also in the overlap.
AtLeastOnce(r) ==
  Solo(r) /\ Begun(r) =>
    /\ Ready(r) => First(r) <= run[r].latest.from
    /\ \A d \in countable \ Excused(r) :
         /\ d \in coll["latest"] => Day[d] >= run[r].latest.from \/ (Ready(r) /\ new[d] >= 1)
         /\ Ready(r) /\ d \in coll["history"] =>
              \/ Day[d] >= run[r].history.from
              \/ new[d] >= 1 /\ (Day[d] >= First(r) => d \in Overlap(r))
         /\ pc[r] = "save" /\ Day[d] = Segment(r) =>
              /\ Left(run[r].history) /\ d \in coll["history"] =>
                   run[r].rows[d] >= 1 /\ (Day[d] >= First(r) => d \in Overlap(r))
              /\ ~ Left(run[r].history) => run[r].rows[d] >= 1

\* The rows of an increment are those of its day, except what came later.
Overtaking ==
  \A i \in Increment : Saving(i) =>
    \A d \in Matching("latest") : Day[d] = incr[i].day => d \in incr[i].rows \cup overtaken[i]

RunInv == \A r \in Full : Span(r) /\ AtMostOnce(r) /\ AtLeastOnce(r)

IInv == Typed /\ Places /\ Counting /\ Alone /\ Migrating /\ RunInv /\ Overtaking /\ NotTwice

-----------------------------------------------------------------------------
(* The steps around the statistics. *)

DocStep(d) == Store(d) \/ Settle(d) \/ InsertHistory(d) \/ Delete(d)

\* What such a step may do to a document.
LEMMA DocSteps ==
  ASSUME Typed, Places, NEW x \in Doc, DocStep(x)
  PROVE  /\ UNCHANGED <<today, statistics, fullRuns, increments, skipped, leftover, crowded, twice>>
         /\ countable \subseteq countable' /\ coll["history"] \subseteq coll["history"]'
         /\ Stored \subseteq Stored' /\ countable' \subseteq Stored'
         /\ \A d \in Stored' : Day[d] <= today
         /\ \A r \in Full : arrived[r] \subseteq arrived'[r] /\ moved[r] \subseteq moved'[r]
         /\ \A r \in Active : \A d \in Doc :
              /\ d \notin arrived'[r] =>
                   /\ d \in Stored' <=> d \in Stored
                   /\ d \in countable' <=> d \in countable
                   /\ d \in coll'["latest"] => d \in coll["latest"]
              /\ d \notin moved'[r] =>
                   /\ d \in coll'["history"] <=> d \in coll["history"]
                   /\ d \in coll["latest"] => d \in coll'["latest"]
         /\ \A i \in Increment : overtaken[i] \subseteq overtaken'[i]
         /\ \A i \in Increment : Saving(i) =>
              \A d \in Doc : d \in coll'["latest"] \cap countable' =>
                d \in (coll["latest"] \cap countable) \cup overtaken'[i]
<1> USE DEF Typed
<1>0. /\ coll \in [Coll -> SUBSET Doc] /\ "latest" \in Coll /\ "history" \in Coll
      /\ countable \subseteq Doc /\ Active \subseteq Full
      /\ arrived \in [Full -> SUBSET Doc] /\ moved \in [Full -> SUBSET Doc]
      /\ overtaken \in [Increment -> SUBSET Doc]
  BY DEF TypeOK, Coll, Active
<1>1. ASSUME Arrives(x)
      PROVE  /\ \A r \in Full : arrived[r] \subseteq arrived'[r] /\ moved[r] = moved'[r]
             /\ \A r \in Active : arrived'[r] = arrived[r] \cup {x}
             /\ \A i \in Increment : overtaken[i] \subseteq overtaken'[i]
             /\ \A i \in Increment : Saving(i) => x \in overtaken'[i]
             /\ UNCHANGED <<skipped, leftover, crowded, twice>>
  BY <1>0, <1>1 DEF Arrives
<1>2. ASSUME Moves(x)
      PROVE  /\ \A r \in Full : arrived[r] = arrived'[r] /\ moved[r] \subseteq moved'[r]
             /\ \A r \in Active : x \in moved'[r]
             /\ UNCHANGED <<skipped, leftover, crowded, twice, overtaken>>
  BY <1>0, <1>2 DEF Moves
<1>3. CASE Store(x) \/ Settle(x)
  <2>1. /\ coll'["history"] = coll["history"]
        /\ \A d : d # x => (d \in coll'["latest"] <=> d \in coll["latest"])
        /\ coll["latest"] \subseteq coll'["latest"]
        /\ countable \subseteq countable' /\ countable' \subseteq countable \cup {x}
        /\ x \in Stored' /\ Day[x] <= today
        /\ UNCHANGED <<today, statistics, fullRuns, increments>>
        /\ Arrives(x)
    BY <1>0, <1>3 DEF Store, Settle, Stored, Places
  <2> HIDE DEF Typed
  <2> QED
    BY <1>0, <1>1, <2>1 DEF Stored, Places
<1>4. CASE InsertHistory(x) \/ Delete(x)
  <2>1. /\ Stored' = Stored /\ countable' = countable
        /\ coll'["latest"] \subseteq coll["latest"]
        /\ \A d : d # x => (d \in coll'["latest"] <=> d \in coll["latest"])
        /\ coll["history"] \subseteq coll'["history"]
        /\ \A d : d # x => (d \in coll'["history"] <=> d \in coll["history"])
        /\ UNCHANGED <<today, statistics, fullRuns, increments>>
        /\ Moves(x)
    BY <1>0, <1>4 DEF InsertHistory, Delete, Stored
  <2> HIDE DEF Typed
  <2> QED
    BY <1>0, <1>2, <2>1 DEF Places
<1> QED
  BY <1>3, <1>4 DEF DocStep

LEMMA DocStepKeeps ==
  ASSUME IInv, Typed', NEW x \in Doc, DocStep(x)
  PROVE  IInv'
<1> USE DEF IInv
<1>1. /\ UNCHANGED <<today, live, new, newExists, task, pc, run, at, incr, checks, skipped, leftover, crowded, twice>>
      /\ Active' = Active
      /\ \A r \in Full : /\ Solo(r)' <=> Solo(r)
                         /\ Begun(r)' <=> Begun(r)
                         /\ Ready(r)' <=> Ready(r)
                         /\ First(r)' = First(r)
                         /\ Overlap(r)' = Overlap(r)
                         /\ Segment(r)' = Segment(r)
      /\ \A i \in Increment : Saving(i)' <=> Saving(i)
  BY DocSteps DEF statistics, fullRuns, increments, Active, Solo, Begun, Ready, First, Overlap, Segment, Left, Saving
<1>2. Places'
  BY DocSteps, <1>1 DEF Places
<1>3. Counting'
  BY DocSteps, <1>1 DEF Counting
<1>4. Alone' /\ NotTwice'
  BY <1>1 DEF Alone, NotTwice
<1>5. Migrating'
  <2> SUFFICES ASSUME NEW r \in Active, NEW d \in coll'["latest"] \cap coll'["history"], d \notin moved'[r]
               PROVE  FALSE
    BY <1>1 DEF Migrating
  <2>1. d \in Doc /\ d \notin moved[r] /\ d \in coll["history"] /\ d \notin coll["latest"]
    BY DocSteps DEF Typed, TypeOK, Coll, Active, Migrating
  <2>2. d \in Stored
    BY <2>1 DEF Stored
  <2>3. CASE Store(x) \/ Settle(x)
    BY <2>1, <2>2, <2>3 DEF Store, Settle, Stored, Typed, TypeOK, Coll
  <2>4. CASE InsertHistory(x) \/ Delete(x)
    BY <2>1, <2>4 DEF InsertHistory, Delete, Typed, TypeOK, Coll
  <2> QED
    BY <2>3, <2>4 DEF DocStep
<1>6. RunInv'
  <2> SUFFICES ASSUME NEW r \in Full PROVE Span(r)' /\ AtMostOnce(r)' /\ AtLeastOnce(r)'
    BY DEF RunInv
  <2>0. Begun(r) => r \in Active
    BY DEF Begun, Active
  <2>1. Span(r)'
    BY <1>1, <2>0, DocSteps DEF Span, RunInv, Stored, Typed, TypeOK, Coll
  <2>2. AtMostOnce(r)'
    <3> SUFFICES ASSUME Solo(r), Ready(r), NEW d \in Doc \ (moved'[r] \cup leftover[r])
                 PROVE  /\ new[d] <= 1
                        /\ new[d] = 1 => \/ d \in coll'["history"] /\ Day[d] < run[r].history.from
                                         \/ d \in coll'["latest"] /\ Day[d] < run[r].latest.from
                        /\ pc[r] = "save" /\ run[r].rows[d] > 0 =>
                             /\ run[r].rows[d] = 1 /\ Day[d] = Segment(r) /\ d \in Stored'
                             /\ Left(run[r].history) => d \in coll'["history"]
      BY <1>1 DEF AtMostOnce
    <3>1. d \in Doc \ (moved[r] \cup leftover[r]) /\ Stored \subseteq Stored'
      BY DocSteps
    <3>2. d \in coll'["history"] <=> d \in coll["history"]
      BY DocSteps DEF Solo
    <3>3. d \in coll["latest"] => d \in coll'["latest"]
      BY DocSteps DEF Solo
    <3> QED
      BY <3>1, <3>2, <3>3 DEF RunInv, AtMostOnce
  <2>3. AtLeastOnce(r)'
    <3>1. \A d \in countable' \ Excused(r)' : r \in Active =>
            /\ d \in countable \ Excused(r)
            /\ d \in coll'["history"] <=> d \in coll["history"]
            /\ d \in coll'["latest"] => d \in coll["latest"]
      BY <1>1, DocSteps DEF Excused, Typed, TypeOK
    <3>2. AtLeastOnce(r)
      BY DEF RunInv
    <3> HIDE DEF IInv
    <3> QED
      BY <1>1, <2>0, <3>1, <3>2 DEF AtLeastOnce
  <2> QED
    BY <2>1, <2>2, <2>3
<1>7. Overtaking'
  BY <1>1, DocSteps DEF Overtaking, Matching, Typed, TypeOK, Coll
<1> QED
  BY <1>2, <1>3, <1>4, <1>5, <1>6, <1>7

LEMMA MidnightKeeps ==
  ASSUME IInv, Typed', Midnight
  PROVE  IInv'
<1> USE DEF IInv
<1>1. /\ UNCHANGED <<coll, countable, live, new, task, pc, run, at, incr, arrived, moved, skipped, leftover,
                     crowded, twice, overtaken>>
      /\ today <= today' /\ today \in Int /\ today' \in Int
  BY DEF Midnight, Typed, TypeOK, Days, statistics, fullRuns, histories, fullHistories
<1>2. Places' /\ Counting' /\ Alone' /\ Migrating' /\ Overtaking' /\ NotTwice'
  <2>1. \A d \in Stored : Day[d] \in Int
    BY DEF Stored, Typed, TypeOK, Coll, Days
  <2> QED
    BY <1>1, <2>1 DEF Places, Counting, Alone, Migrating, Overtaking, NotTwice, Stored, Solo, Active, Saving, Matching
<1>3. RunInv'
  <2> SUFFICES ASSUME NEW r \in Full PROVE Span(r)' /\ AtMostOnce(r)' /\ AtLeastOnce(r)'
    BY DEF RunInv
  <2>1. run[r].latest.to \in Int
    BY RunTyped
  <2>2. Span(r)'
    BY <1>1, <2>1 DEF RunInv, Span, Begun, Ready, Stored
  <2>3. AtMostOnce(r)'
    BY <1>1 DEF RunInv, AtMostOnce, Solo, Active, Ready, Segment, Left, Stored
  <2>4. AtLeastOnce(r)'
    BY <1>1 DEF RunInv, AtLeastOnce, Solo, Active, Begun, Ready, Segment, Left, Excused, First, Overlap
  <2> QED
    BY <2>2, <2>3, <2>4
<1> QED
  BY <1>2, <1>3

-----------------------------------------------------------------------------
(* The increments. *)

IncrementDoes(i, page) ==
  TodayStatistics(i) \/ YesterdayStatistics(i) \/ AggregateDay(i, page) \/ SaveDay(i) \/ FailDay(i)
    \/ AbandonIncrement(i)

LEMMA IncrementKeeps ==
  ASSUME IInv, Typed', NEW i \in Increment, NEW page \in SUBSET Doc, IncrementDoes(i, page)
  PROVE  IInv'
<1> USE DEF IInv
<1>1. UNCHANGED <<today, coll, countable, new, newExists, task, pc, run, arrived, moved, skipped, leftover,
                  crowded, twice>>
  BY DEF IncrementDoes, TodayStatistics, YesterdayStatistics, AggregateDay, SaveDay, FailDay, AbandonIncrement,
    transfers, statistics, fullRuns, histories, fullHistories
<1>2. Places' /\ Alone' /\ Migrating'
  BY <1>1 DEF Places, Alone, Migrating, Solo, Active, Stored
<1>3. RunInv'
  BY <1>1 DEF RunInv, Span, AtMostOnce, AtLeastOnce, Solo, Active, Begun, Ready, Segment, Left, Excused, First,
    Overlap, Stored
<1>4. /\ incr \in [Increment -> [day : Days, rows : SUBSET Doc]]
      /\ at \in [Increment -> {"idle", "today", "saveToday", "check", "yesterday", "saveYesterday"}]
      /\ overtaken \in [Increment -> SUBSET Doc]
      /\ live \in Rows /\ coll["latest"] \subseteq Doc
  BY DEF Typed, TypeOK, Coll
<1>5. /\ incr'[i].rows \subseteq countable
      /\ Saving(i)' =>
           \A d \in Matching("latest") : Day[d] = incr'[i].day => d \in incr'[i].rows \cup overtaken'[i]
  <2>0. incr[i].rows \subseteq countable /\ incr[i] \in [day : Days, rows : SUBSET Doc]
    BY <1>4 DEF Counting
  <2>1. CASE Goes(i) \/ Idle(i)
    <3>1. at'[i] \in {"check", "idle"} /\ incr'[i].rows = {}
      BY <1>4, <2>0, <2>1 DEF Goes, Idle
    <3> QED
      BY <3>1 DEF Saving
  <2>2. CASE TodayStatistics(i)
    <3>1. at'[i] = "today" /\ incr'[i].rows = incr[i].rows
      BY <1>4, <2>0, <2>2 DEF TodayStatistics
    <3> QED
      BY <2>0, <3>1 DEF Saving
  <2>3. CASE YesterdayStatistics(i) /\ ~ Idle(i)
    <3>1. at'[i] = "yesterday" /\ incr'[i].rows = incr[i].rows
      BY <1>4, <2>0, <2>3 DEF YesterdayStatistics
    <3> QED
      BY <2>0, <3>1 DEF Saving
  <2>4. CASE AggregateDay(i, page) /\ ~ Goes(i)
    <3>1. /\ incr'[i].rows = page /\ incr'[i].day = incr[i].day
          /\ overtaken'[i] = (Matching("latest") \cap OfDay(incr[i].day)) \ page
      BY <1>4, <2>0, <2>4 DEF AggregateDay
    <3>2. page \subseteq countable
      BY <2>4 DEF AggregateDay, Answers, Matching
    <3> QED
      BY <1>4, <3>1, <3>2 DEF OfDay, Matching
  <2> QED
    BY <2>1, <2>2, <2>3, <2>4 DEF IncrementDoes, SaveDay, FailDay, AbandonIncrement
<1>6. \A j \in Increment \ {i} : incr'[j] = incr[j] /\ at'[j] = at[j] /\ overtaken'[j] = overtaken[j]
  <2>1. CASE Goes(i) \/ Idle(i)
    BY <1>4, <2>1 DEF Goes, Idle
  <2>2. CASE ~ (Goes(i) \/ Idle(i))
    BY <1>4, <2>2 DEF IncrementDoes, TodayStatistics, YesterdayStatistics, AggregateDay, SaveDay, FailDay,
      AbandonIncrement, histories
  <2> QED
    BY <2>1, <2>2
<1>7. Overtaking'
  BY <1>1, <1>5, <1>6 DEF Overtaking, Saving, Matching
<1>8. \A d \in Doc : \/ live'[d] = live[d]
                     \/ live'[d] = 1 /\ d \in incr[i].rows
                     \/ live'[d] = 0
  <2>1. CASE SaveDay(i)
    BY <1>4, <2>1 DEF SaveDay, BatchSwap, RowsOf
  <2>2. CASE ~ SaveDay(i)
    BY <2>2 DEF IncrementDoes, TodayStatistics, YesterdayStatistics, AggregateDay, FailDay, AbandonIncrement,
      statistics
  <2> QED
    BY <2>1, <2>2
<1>9. Counting'
  BY <1>1, <1>5, <1>6, <1>8 DEF Counting
<1>10. NotTwice'
  BY <1>1, <1>8 DEF NotTwice
<1> QED
  BY <1>2, <1>3, <1>7, <1>9, <1>10

-----------------------------------------------------------------------------
(* The full runs. *)

LEMMA StartKeeps ==
  ASSUME IInv, Typed', NEW r \in Full, StartFull(r)
  PROVE  IInv'
<1> USE DEF IInv
<1>1. /\ UNCHANGED <<today, coll, countable, live, new, newExists, run, at, incr, checks, arrived, skipped, leftover,
                     twice, overtaken>>
      /\ pc[r] = "idle" /\ pc'[r] = "segments"
      /\ \A x \in Full \ {r} : pc'[x] = pc[x] /\ moved'[x] = moved[x]
      /\ moved'[r] = coll["latest"] \cap coll["history"]
      /\ \A p \in Process : task'[p] = task[p] \/ task'[p].overlap = {}
      /\ IF Active = {} THEN crowded' = crowded ELSE crowded' = crowded \cup Active \cup {r}
  BY DEF StartFull, transfers, statistics, increments, Typed, TypeOK
<1>2. Active' = Active \cup {r}
  BY <1>1 DEF Active
<1>3. Places' /\ Overtaking' /\ NotTwice'
  BY <1>1 DEF Places, Overtaking, NotTwice, Stored, Saving, Matching
<1>4. Counting'
  BY <1>1 DEF Counting
<1>5. Alone'
  BY <1>1, <1>2 DEF Alone, Solo
<1>6. Migrating'
  <2>1. coll' = coll /\ Active \subseteq Full
    BY <1>1 DEF Active
  <2> QED
    BY <1>1, <1>2, <2>1 DEF Migrating
<1>7. RunInv'
  <2> SUFFICES ASSUME NEW x \in Full PROVE Span(x)' /\ AtMostOnce(x)' /\ AtLeastOnce(x)'
    BY DEF RunInv
  <2>1. CASE x = r
    BY <1>1, <2>1 DEF Span, AtMostOnce, AtLeastOnce, Begun, Ready
  <2>2. CASE x # r
    <3>1. ~ Solo(x)'
      BY <1>1, <1>2, <2>2 DEF Solo
    <3>2. Span(x)'
      BY <1>1, <2>2 DEF RunInv, Span, Begun, Ready, Stored
    <3> QED
      BY <3>1, <3>2 DEF AtMostOnce, AtLeastOnce
  <2> QED
    BY <2>1, <2>2
<1> QED
  BY <1>3, <1>4, <1>5, <1>6, <1>7

\* The other runs neither move nor, beside one that does, are alone.
OthersStay(r) ==
  /\ UNCHANGED <<today, coll, countable, at, incr, checks, overtaken>>
  /\ \A x \in Full \ {r} : /\ pc'[x] = pc[x] /\ run'[x] = run[x] /\ arrived'[x] = arrived[x]
                           /\ moved'[x] = moved[x]
  /\ \A x \in Full : x \in crowded /\ x \in Active' => x \in crowded'
  /\ Active' \subseteq Active

LEMMA OthersKeep ==
  ASSUME IInv, NEW r \in Active, OthersStay(r)
  PROVE  /\ \A x \in Full \ {r} : ~ Solo(x)' /\ Span(x)'
         /\ Alone'
         /\ Places' /\ Overtaking'
<1> USE DEF IInv
<1>1. \A x \in Full \ {r} : ~ Solo(x)'
  BY DEF OthersStay, Solo, Alone
<1>2. \A x \in Full \ {r} : Span(x)'
  BY DEF OthersStay, RunInv, Span, Begun, Ready, Stored
<1>3. Alone'
  <2> SUFFICES ASSUME NEW x \in Full, Solo(x)' PROVE Active' = {x}
    BY DEF Alone
  <2>1. x = r
    BY <1>1
  <2>2. \A y \in Active' : y = x
    <3> SUFFICES ASSUME NEW y \in Active', y # r PROVE FALSE
      BY <2>1
    <3>1. y \in Active /\ r \in Full
      BY DEF OthersStay, Active
    <3>2. ~ Solo(r)
      BY <3>1 DEF Alone
    <3>3. r \in crowded /\ r \in Active'
      BY <2>1, <3>2 DEF Solo
    <3> QED
      BY <2>1, <3>1, <3>3 DEF OthersStay, Solo
  <2> QED
    BY <2>2 DEF Solo
<1>4. Places' /\ Overtaking'
  BY DEF OthersStay, Places, Overtaking, Stored, Saving, Matching
<1> QED
  BY <1>1, <1>2, <1>3, <1>4

\* A run that ends leaves the others as they are.
LEMMA EndsStay ==
  ASSUME Typed, NEW r \in Active, Ends(r), UNCHANGED <<transfers, increments>>
  PROVE  /\ OthersStay(r) /\ pc'[r] = "done" /\ ~ Solo(r)' /\ run'[r].rows = Nothing
         /\ \A x \in Active' : moved'[x] = moved[x]
<1>1. /\ \A x \in Full \ {r} : /\ pc'[x] = pc[x] /\ run'[x] = run[x] /\ arrived'[x] = arrived[x]
                               /\ moved'[x] = moved[x]
      /\ pc'[r] = "done" /\ run'[r].rows = Nothing /\ overtaken' = overtaken /\ crowded' = crowded \ {r}
      /\ r \in Full
  BY DEF Ends, Typed, TypeOK, Active, NoRun
<1>2. Active' = Active \ {r}
  BY <1>1 DEF Active
<1> QED
  BY <1>1, <1>2 DEF OthersStay, transfers, increments, Solo, Active

LEMMA EndsKeeps ==
  ASSUME IInv, Typed', NEW r \in Active, Ends(r), UNCHANGED <<transfers, increments, task>>,
         \/ UNCHANGED <<live, new, twice>>
         \/ SwitchColl(r)
  PROVE  IInv'
<1> USE DEF IInv
<1>1. OthersStay(r) /\ pc'[r] = "done" /\ ~ Solo(r)' /\ run'[r].rows = Nothing /\ r \in Full
  BY EndsStay DEF Active
<1>2. /\ \A x \in Full \ {r} : ~ Solo(x)' /\ Span(x)'
      /\ Alone' /\ Places' /\ Overtaking'
  BY <1>1, OthersKeep
<1>3. RunInv'
  <2>1. Span(r)'
    BY <1>1 DEF Span, Begun, Ready
  <2> QED
    BY <1>1, <1>2, <2>1 DEF RunInv, AtMostOnce, AtLeastOnce
<1>4. Migrating'
  BY EndsStay, <1>1 DEF OthersStay, Migrating
<1>5. Counting'
  <2>1. \A d \in Doc : live'[d] > 0 \/ new'[d] > 0 => d \in countable
    BY DEF SwitchColl, Nothing, Counting, Typed, TypeOK, Rows
  <2>2. \A x \in Full : \A d \in Doc : run'[x].rows[d] > 0 => d \in countable
    BY <1>1 DEF OthersStay, Counting, Nothing
  <2> QED
    BY <1>1, <2>1, <2>2 DEF Counting, transfers, increments
<1>6. NotTwice'
  <2>1. CASE UNCHANGED <<live, new, twice>>
    BY <2>1 DEF NotTwice
  <2>2. CASE SwitchColl(r)
    <3> SUFFICES ASSUME NEW d \in Doc, new[d] > 1 PROVE d \in twice'
      BY <2>2 DEF NotTwice, SwitchColl
    <3>1. r \notin crowded => d \in moved[r] \cup leftover[r]
      <4>1. Ready(r) /\ AtMostOnce(r) /\ new[d] \in Int /\ ~ (new[d] <= 1)
        BY <1>1, <2>2 DEF Ready, SwitchColl, RunInv, Typed, TypeOK, Rows
      <4> QED
        BY <4>1 DEF AtMostOnce, Solo
    <3> QED
      BY <2>2, <3>1 DEF SwitchColl
  <2> QED
    BY <2>1, <2>2
<1> QED
  BY <1>2, <1>3, <1>4, <1>5, <1>6

\* A step of a run that goes on.
GoesOn(r) ==
  /\ UNCHANGED <<today, coll, countable, live, at, incr, checks, crowded, twice, overtaken, arrived>>
  /\ \A x \in Full \ {r} : pc'[x] = pc[x] /\ run'[x] = run[x] /\ moved'[x] = moved[x]
  /\ pc'[r] \notin {"idle", "done"} /\ moved[r] \subseteq moved'[r] /\ skipped[r] \subseteq skipped'[r]

LEMMA GoesOnKeeps ==
  ASSUME IInv, Typed', NEW r \in Active, GoesOn(r),
         \A d \in Doc : new'[d] > 0 \/ run'[r].rows[d] > 0 => d \in countable,
         \A p \in Process : task'[p].overlap \subseteq coll["history"] \cap countable,
         Span(r)', Solo(r) => AtMostOnce(r)' /\ AtLeastOnce(r)'
  PROVE  IInv'
<1> USE DEF IInv
<1>1. r \in Full /\ Active' = Active
  BY DEF GoesOn, Active
<1>2. OthersStay(r)
  BY <1>1 DEF GoesOn, OthersStay
<1>3. /\ \A x \in Full \ {r} : ~ Solo(x)' /\ Span(x)'
      /\ Alone' /\ Places' /\ Overtaking'
  BY <1>2, OthersKeep
<1>4. Solo(r)' <=> Solo(r)
  BY <1>1 DEF GoesOn, Solo
<1>5. RunInv'
  <2>1. AtMostOnce(r)' /\ AtLeastOnce(r)'
    BY <1>4 DEF AtMostOnce, AtLeastOnce
  <2> QED
    BY <1>3, <2>1 DEF RunInv, AtMostOnce, AtLeastOnce
<1>6. Migrating'
  BY <1>1 DEF GoesOn, Migrating, Active
<1>7. Counting'
  BY DEF GoesOn, Counting
<1>8. NotTwice'
  BY DEF GoesOn, NotTwice
<1> QED
  BY <1>3, <1>5, <1>6, <1>7, <1>8

LEMMA LatestSegmentsKeeps ==
  ASSUME IInv, Typed', NEW r \in Full, NEW answer \in SUBSET Doc, NEW first \in Days,
         LatestSegments(r, answer, first)
  PROVE  IInv'
<1> USE DEF IInv
<1>0. r \in Active
  BY DEF LatestSegments, Active
<1>1. CASE answer = {}
  <2>1. Ends(r) /\ UNCHANGED <<transfers, increments, task, live, new, twice>>
    BY <1>1 DEF LatestSegments, statistics
  <2> QED
    BY <1>0, <2>1, EndsKeeps
<1>2. CASE answer # {}
  <2>1. /\ pc' = [pc EXCEPT ![r] = "historySegments"]
        /\ run' = [run EXCEPT ![r].latest = SegmentTool(first)]
        /\ skipped' = [skipped EXCEPT ![r] = @ \cup (coll["latest"] \ answer)]
        /\ UNCHANGED <<transfers, statistics, task, increments, twice, arrived, moved, leftover, crowded, overtaken>>
        /\ \A d \in answer : first <= Day[d]
    BY <1>2 DEF LatestSegments, GetMinTxTime
  <2>2. /\ run'[r].latest = SegmentTool(first) /\ run'[r].rows = run[r].rows
        /\ \A x \in Full \ {r} : run'[x] = run[x]
    <3>1. run \in [Full -> Runs] /\ run[r] \in Runs
      BY RunTyped
    <3> QED
      BY <2>1, <3>1 DEF Runs
  <2>3. GoesOn(r) /\ pc'[r] = "historySegments"
    BY <2>1, <2>2 DEF GoesOn, transfers, statistics, increments, Typed, TypeOK
  <2>4. Span(r)'
    <3>1. run'[r].latest.to = today /\ today \in Int
      BY <2>2, SegmentTyped DEF Typed, TypeOK, Days
    <3> QED
      BY <2>1, <2>3, <3>1 DEF Span, Begun, Ready, Places, Stored, transfers
  <2>5. Solo(r) => AtMostOnce(r)' /\ AtLeastOnce(r)'
    <3>1. ~ Ready(r)' /\ pc'[r] # "save"
      BY <2>3 DEF Ready
    <3>2. \A d \in coll["latest"] \ skipped'[r] : Day[d] >= run'[r].latest.from
      <4>1. run'[r].latest.from = first
        BY <2>2, SegmentTyped
      <4> QED
        BY <2>1, <4>1 DEF Typed, TypeOK, Days, Coll
    <3> QED
      BY <2>1, <3>1, <3>2 DEF AtMostOnce, AtLeastOnce, Excused, transfers
  <2> QED
    BY <1>0, <2>1, <2>2, <2>3, <2>4, <2>5, GoesOnKeeps DEF Counting, statistics
<1> QED
  BY <1>1, <1>2

LEMMA HistorySegmentsKeeps ==
  ASSUME IInv, Typed', NEW r \in Full, NEW answer \in SUBSET Doc, NEW first \in Days,
         HistorySegments(r, answer, first)
  PROVE  IInv'
<1> USE DEF IInv
<1>0. r \in Active
  BY DEF HistorySegments, Active
<1>1. CASE answer = {}
  <2>1. Ends(r) /\ UNCHANGED <<transfers, increments, task, live, new, twice>>
    BY <1>1 DEF HistorySegments
  <2> QED
    BY <1>0, <2>1, EndsKeeps
<1>2. CASE answer # {}
  <2>1. /\ pc[r] = "historySegments"
        /\ pc' = [pc EXCEPT ![r] = "deal"]
        /\ run' = [run EXCEPT ![r].history = SegmentTool(first)]
        /\ task' = [task EXCEPT ![ProcessOf[r]].min = run[r].latest.from]
        /\ skipped' = [skipped EXCEPT ![r] = @ \cup (coll["history"] \ answer)]
        /\ leftover' = [leftover EXCEPT ![r] = {d \in Doc : new[d] > 0}]
        /\ UNCHANGED <<transfers, live, new, increments, twice, arrived, moved, crowded, overtaken>>
        /\ \A d \in answer : first <= Day[d]
    BY <1>2 DEF HistorySegments, GetMinTxTime
  <2>2. /\ run'[r].history = SegmentTool(first) /\ run'[r].latest = run[r].latest /\ run'[r].rows = run[r].rows
        /\ \A x \in Full \ {r} : run'[x] = run[x]
    <3>1. run \in [Full -> Runs] /\ run[r] \in Runs
      BY RunTyped
    <3> QED
      BY <2>1, <3>1 DEF Runs
  <2>3. GoesOn(r) /\ pc'[r] = "deal"
    BY <2>1, <2>2 DEF GoesOn, transfers, increments, Typed, TypeOK
  <2>4. First(r)' = run[r].latest.from /\ \A p \in Process : task'[p].overlap = task[p].overlap
    BY <2>1, TaskTyped DEF First
  <2>5. Span(r)'
    <3>1. run'[r].history.to = today
      BY <2>2, SegmentTyped
    <3>2. Span(r) /\ Begun(r)
      BY <2>1 DEF RunInv, Begun
    <3> QED
      BY <2>1, <2>2, <3>1, <3>2 DEF Span, Stored, transfers
  <2>6. AtMostOnce(r)'
    <3>1. \A d \in Doc \ leftover'[r] : new'[d] = 0
      BY <2>1 DEF Typed, TypeOK, Rows
    <3> QED
      BY <2>3, <3>1 DEF AtMostOnce
  <2>7. Solo(r) => AtLeastOnce(r)'
    <3> SUFFICES ASSUME Solo(r) PROVE AtLeastOnce(r)'
      OBVIOUS
    <3>1. \A d \in coll["history"] \ skipped'[r] : Day[d] >= run'[r].history.from
      <4>1. run'[r].history.from = first
        BY <2>2, SegmentTyped
      <4> QED
        BY <2>1, <4>1 DEF Typed, TypeOK, Days, Coll
    <3>2. \A d \in countable \ Excused(r) : d \in coll["latest"] => Day[d] >= run[r].latest.from
      BY <2>1 DEF RunInv, AtLeastOnce, Begun, Ready
    <3>3. Excused(r) \subseteq Excused(r)'
      BY <2>1, <2>3 DEF Excused, GoesOn
    <3>4. run[r].latest.from <= run[r].latest.from
      BY RunTyped
    <3> QED
      BY <2>1, <2>2, <2>3, <2>4, <3>1, <3>2, <3>3, <3>4 DEF AtLeastOnce, Excused, transfers
  <2> QED
    BY <1>0, <2>1, <2>2, <2>3, <2>4, <2>5, <2>6, <2>7, GoesOnKeeps DEF Counting
<1> QED
  BY <1>1, <1>2

\* A run is done with a segment: what it has counted of the day, and what it
\* has not.
LEMMA PassesKeeps ==
  ASSUME IInv, Typed', NEW r \in Active, Ready(r), Dealing(r),
         GoesOn(r), pc'[r] = "deal", run' = Dealt(r), task' = task, leftover'[r] = leftover[r],
         \A d \in Doc : new'[d] > 0 => d \in countable,
         \A d \in Doc \ (moved'[r] \cup leftover[r]) : Solo(r) =>
           \/ new'[d] = new[d] \/ new'[d] = 0
           \/ /\ new'[d] = 1 /\ Day[d] = Segment(r) /\ d \in Stored
              /\ Left(run[r].history) => d \in coll["history"],
         \A d \in countable \ Excused(r)' : Solo(r) =>
           /\ new[d] >= 1 => new'[d] >= 1
           /\ Day[d] = Segment(r) /\ Left(run[r].history) /\ d \in coll["history"] =>
                new'[d] >= 1 /\ (Day[d] >= First(r) => d \in Overlap(r))
           /\ Day[d] = Segment(r) /\ ~ Left(run[r].history) /\ d \in coll["latest"] => new'[d] >= 1
  PROVE  IInv'
<1> USE DEF IInv
<1>1. /\ r \in Full
      /\ run[r].latest.from \in Int /\ run[r].latest.to \in Int
      /\ run[r].history.from \in Int /\ run[r].history.to \in Int
      /\ run[r].latest.to <= run[r].history.to
      /\ \A d \in Doc : Day[d] \in Int /\ new[d] \in Int /\ new'[d] \in Int
      /\ First(r) \in Int
  <2>1. r \in Full
    BY DEF Active
  <2>2. First(r) \in Int
    BY <2>1, TaskTyped DEF First
  <2>3. run[r].latest.to <= run[r].history.to
    BY <2>1 DEF RunInv, Span
  <2> QED
    BY <2>1, <2>2, <2>3, RunTyped DEF Typed, TypeOK, Rows, Days
<1>2. /\ run'[r].rows = Nothing
      /\ run'[r].latest.to = run[r].latest.to /\ run'[r].history.to = run[r].history.to
      /\ \/ /\ Left(run[r].history) /\ Segment(r) = run[r].history.from
            /\ run'[r].history.from = run[r].history.from + 1 /\ run'[r].latest.from = run[r].latest.from
         \/ /\ ~ Left(run[r].history) /\ Segment(r) = run[r].latest.from
            /\ run[r].latest.from <= run[r].latest.to /\ run[r].history.to < run[r].history.from
            /\ run'[r].history.from = run[r].history.from /\ run'[r].latest.from = run[r].latest.from + 1
  BY <1>1, DealtTyped DEF Segment, Dealing, Left
<1>3. Span(r)'
  <2>1. Span(r) /\ Begun(r)
    BY <1>1 DEF RunInv, Begun, Ready
  <2> QED
    BY <1>2, <2>1 DEF Span, GoesOn, Stored
<1>4. Solo(r) => AtMostOnce(r)'
  <2> SUFFICES ASSUME Solo(r), NEW d \in Doc \ (moved'[r] \cup leftover[r])
               PROVE  /\ new'[d] <= 1
                      /\ new'[d] = 1 => \/ d \in coll["history"] /\ Day[d] < run'[r].history.from
                                        \/ d \in coll["latest"] /\ Day[d] < run'[r].latest.from
    BY DEF AtMostOnce, GoesOn
  <2>1. CASE new'[d] = new[d]
    <3>1. d \notin moved[r]
      BY DEF GoesOn
    <3>2. /\ new[d] <= 1
          /\ new[d] = 1 => \/ d \in coll["history"] /\ Day[d] < run[r].history.from
                           \/ d \in coll["latest"] /\ Day[d] < run[r].latest.from
      BY <1>1, <3>1 DEF RunInv, AtMostOnce
    <3> QED
      BY <1>1, <1>2, <2>1, <3>2
  <2>2. CASE new'[d] = 1 /\ Day[d] = Segment(r) /\ d \in Stored /\ (Left(run[r].history) => d \in coll["history"])
    BY <1>1, <1>2, <2>2 DEF Stored
  <2>3. CASE new'[d] = 0
    BY <2>3
  <2> QED
    BY <2>1, <2>2, <2>3
<1>5. Solo(r) => AtLeastOnce(r)'
  <2> SUFFICES ASSUME Solo(r) PROVE AtLeastOnce(r)'
    OBVIOUS
  <2>1. Begun(r) /\ AtLeastOnce(r)
    BY <1>1 DEF RunInv, Begun, Ready
  <2>2. Excused(r) \subseteq Excused(r)'
    BY DEF Excused, GoesOn
  <2>3. First(r)' = First(r) /\ Overlap(r)' = Overlap(r) /\ Ready(r)' /\ pc'[r] # "save"
    BY DEF First, Overlap, Ready
  <2>4. First(r) <= run'[r].latest.from
    BY <1>1, <1>2, <2>1 DEF AtLeastOnce
  <2>5. ASSUME NEW d \in countable \ Excused(r)'
        PROVE  /\ d \in coll["latest"] => Day[d] >= run'[r].latest.from \/ new'[d] >= 1
               /\ d \in coll["history"] =>
                    \/ Day[d] >= run'[r].history.from
                    \/ new'[d] >= 1 /\ (Day[d] >= First(r) => d \in Overlap(r))
    <3>1. d \in countable \ Excused(r) /\ d \in Doc
      BY <2>2 DEF Typed, TypeOK
    <3>2. /\ d \in coll["latest"] => Day[d] >= run[r].latest.from \/ new[d] >= 1
          /\ d \in coll["history"] =>
               \/ Day[d] >= run[r].history.from
               \/ new[d] >= 1 /\ (Day[d] >= First(r) => d \in Overlap(r))
      BY <2>1, <3>1 DEF AtLeastOnce
    <3>3. /\ Day[d] \in Int /\ Segment(r) \in Int
          /\ run[r].latest.from \in Int /\ run[r].history.from \in Int
      BY <1>1, <1>2, <3>1
    <3> QED
      BY <1>2, <2>5, <3>1, <3>2, <3>3
  <2> QED
    BY <2>3, <2>4, <2>5 DEF AtLeastOnce, GoesOn
<1>6. \A d \in Doc : new'[d] > 0 \/ run'[r].rows[d] > 0 => d \in countable
  BY <1>2 DEF Nothing
<1>7. \A p \in Process : task'[p].overlap \subseteq coll["history"] \cap countable
  BY DEF Counting
<1> QED
  BY <1>3, <1>4, <1>5, <1>6, <1>7, GoesOnKeeps

LEMMA AggregateFailsKeeps ==
  ASSUME IInv, Typed', NEW r \in Full, AggregateFails(r)
  PROVE  IInv'
<1> USE DEF IInv
<1>1. /\ pc[r] = "deal" /\ Dealing(r) /\ r \in Active /\ Ready(r)
      /\ UNCHANGED <<transfers, statistics, task, increments, twice>>
  BY DEF AggregateFails, Active, Ready
<1>2. CASE Ends(r)
  BY <1>1, <1>2, EndsKeeps DEF statistics
<1>3. CASE ~ Ends(r)
  <2>1. /\ run' = Dealt(r)
        /\ skipped' = [skipped EXCEPT ![r] = @ \cup OfDay(Segment(r))]
        /\ UNCHANGED <<pc, arrived, moved, leftover, crowded, overtaken>>
    BY <1>3 DEF AggregateFails
  <2>2. OfDay(Segment(r)) \subseteq skipped'[r] /\ skipped[r] \subseteq skipped'[r]
    BY <2>1 DEF Typed, TypeOK
  <2>3. GoesOn(r)
    BY <1>1, <2>1, <2>2, DealtTyped DEF GoesOn, transfers, statistics, increments
  <2>4. \A d \in countable \ Excused(r)' : Day[d] # Segment(r)
    BY <2>2 DEF Excused, OfDay, Typed, TypeOK
  <2>5. new' = new /\ \A d \in Doc : new'[d] > 0 => d \in countable
    BY <1>1 DEF statistics, Counting
  <2> HIDE DEF IInv
  <2> QED
    BY <1>1, <2>1, <2>3, <2>4, <2>5, PassesKeeps
<1> QED
  BY <1>2, <1>3

\* The rows that a run saves, and what they leave of the day.
LEMMA SaveKeeps ==
  ASSUME IInv, Typed', NEW r \in Full, NEW stored \in SUBSET Doc, Save(r) \/ SaveFails(r, stored)
  PROVE  IInv'
<1> USE DEF IInv
<1>1. /\ pc[r] = "save" /\ pc' = [pc EXCEPT ![r] = "deal"] /\ run' = Dealt(r)
      /\ UNCHANGED <<today, coll, countable, live, at, incr, checks, crowded, twice, overtaken, arrived, task, moved, leftover>>
  BY DEF Save, SaveFails, transfers, increments, histories, fullHistories
<1>2. r \in Active /\ Ready(r) /\ Begun(r) /\ Dealing(r)
  BY <1>1 DEF Active, Ready, Begun, Typed, SaveDeals
<1>3. skipped[r] \subseteq skipped'[r]
  BY DEF Save, SaveFails, histories, fullHistories, Typed, TypeOK
<1>4. GoesOn(r) /\ pc'[r] = "deal"
  BY <1>1, <1>2, <1>3, DealtTyped DEF GoesOn, Typed, TypeOK
<1>5. /\ \A d \in Doc : new[d] \in Nat /\ run[r].rows[d] \in Nat /\ Day[d] \in Int
      /\ run[r].latest.from \in Int /\ run[r].history.from \in Int /\ countable \subseteq Doc
  <2>1. run[r].rows \in Rows /\ new \in Rows
    BY RunTyped DEF Typed, TypeOK
  <2> QED
    BY <2>1, RunTyped DEF Rows, Days, Typed, TypeOK
<1>6. CASE Left(run[r].history)
  <2>1. /\ Segment(r) = run[r].history.from /\ Pass(r) = "history"
    BY <1>6 DEF Segment, Pass
  <2>2. \A d \in Doc : \/ new'[d] = new[d] + run[r].rows[d]
                       \/ new'[d] = new[d] /\ (run[r].rows[d] > 0 => d \in skipped'[r])
    <3>1. CASE Save(r)
      BY <2>1, <3>1 DEF Save, InsertManyToNew
    <3>2. CASE SaveFails(r, stored)
      BY <3>2 DEF SaveFails, Typed, TypeOK
    <3> QED
      BY <3>1, <3>2
  <2>3. \A d \in Doc : new'[d] > 0 => d \in countable
    BY <1>5, <2>2 DEF Counting
  <2>4. ASSUME Solo(r), NEW d \in Doc \ (moved[r] \cup leftover[r])
        PROVE  \/ new'[d] = new[d]
               \/ new'[d] = 1 /\ Day[d] = Segment(r) /\ d \in Stored /\ d \in coll["history"]
    <3>1. /\ new[d] <= 1
          /\ new[d] = 1 => \/ d \in coll["history"] /\ Day[d] < run[r].history.from
                           \/ d \in coll["latest"] /\ Day[d] < run[r].latest.from
          /\ run[r].rows[d] > 0 =>
               run[r].rows[d] = 1 /\ Day[d] = Segment(r) /\ d \in Stored /\ d \in coll["history"]
      BY <1>1, <1>2, <1>6, <2>4 DEF RunInv, AtMostOnce
    <3>2. d \notin coll["latest"] \cap coll["history"]
      BY <1>2 DEF Migrating
    <3> QED
      BY <1>5, <2>1, <2>2, <3>1, <3>2
  <2>5. ASSUME Solo(r), NEW d \in countable \ Excused(r)'
        PROVE  /\ new[d] >= 1 => new'[d] >= 1
               /\ Day[d] = Segment(r) /\ d \in coll["history"] =>
                    new'[d] >= 1 /\ (Day[d] >= First(r) => d \in Overlap(r))
    <3>1. d \in Doc /\ d \in countable \ Excused(r) /\ d \notin skipped'[r]
      BY <1>1, <1>3, <1>5 DEF Excused
    <3>2. Day[d] = Segment(r) /\ d \in coll["history"] =>
            run[r].rows[d] >= 1 /\ (Day[d] >= First(r) => d \in Overlap(r))
      BY <1>1, <1>2, <1>6, <2>5, <3>1 DEF RunInv, AtLeastOnce
    <3> QED
      BY <1>5, <2>2, <3>1, <3>2
  <2> HIDE DEF IInv
  <2> QED
    BY <1>1, <1>2, <1>4, <1>6, <2>3, <2>4, <2>5, PassesKeeps
<1>7. CASE ~ Left(run[r].history)
  <2>1. /\ Segment(r) = run[r].latest.from /\ Pass(r) = "latest"
    BY <1>7 DEF Segment, Pass
  <2>2. \A d \in Doc : \/ new'[d] = new[d] /\ (run[r].rows[d] > 0 /\ Day[d] = Segment(r) => d \in skipped'[r])
                       \/ new'[d] = run[r].rows[d] /\ Day[d] = Segment(r)
    <3>1. CASE Save(r)
      BY <2>1, <3>1 DEF Save, BatchSwapNew
    <3>2. CASE SaveFails(r, stored)
      BY <2>1, <3>2 DEF SaveFails, Typed, TypeOK
    <3> QED
      BY <3>1, <3>2
  <2>3. \A d \in Doc : new'[d] > 0 => d \in countable
    BY <1>5, <2>2 DEF Counting
  <2>4. ASSUME Solo(r), NEW d \in Doc \ (moved[r] \cup leftover[r])
        PROVE  \/ new'[d] = new[d] \/ new'[d] = 0
               \/ new'[d] = 1 /\ Day[d] = Segment(r) /\ d \in Stored
    <3>1. run[r].rows[d] > 0 => run[r].rows[d] = 1 /\ Day[d] = Segment(r) /\ d \in Stored
      BY <1>1, <1>2, <2>4 DEF RunInv, AtMostOnce
    <3> QED
      BY <1>5, <2>2, <3>1
  <2>5. ASSUME Solo(r), NEW d \in countable \ Excused(r)'
        PROVE  /\ new[d] >= 1 => new'[d] >= 1
               /\ Day[d] = Segment(r) => new'[d] >= 1
    <3>1. d \in Doc /\ d \in countable \ Excused(r) /\ d \notin skipped'[r]
      BY <1>1, <1>3, <1>5 DEF Excused
    <3>2. Day[d] = Segment(r) => run[r].rows[d] >= 1
      BY <1>1, <1>2, <1>7, <2>5, <3>1 DEF RunInv, AtLeastOnce
    <3> QED
      BY <1>5, <2>2, <3>1, <3>2
  <2> HIDE DEF IInv
  <2> QED
    BY <1>1, <1>2, <1>4, <1>7, <2>3, <2>4, <2>5, PassesKeeps
<1> QED
  BY <1>6, <1>7

LEMMA AggregateKeeps ==
  ASSUME IInv, Typed', NEW r \in Full, NEW page \in SUBSET Doc, Aggregate(r, page)
  PROVE  IInv'
<1> USE DEF IInv
<1> DEFINE c == Pass(r)
           p == ProcessOf[r]
           segment == OfDay(Segment(r))
           right == Matching(c) \cap segment
<1>1. /\ pc[r] = "deal" /\ Dealing(r)
      /\ skipped' = [skipped EXCEPT ![r] = @ \cup (right \ page)]
      /\ moved' = [moved EXCEPT ![r] = @ \cup (page \ right)]
      /\ UNCHANGED <<transfers, statistics, increments, arrived, leftover, crowded, twice, overtaken>>
  BY DEF Aggregate
<1>2. r \in Active /\ Ready(r) /\ Begun(r)
  BY <1>1 DEF Active, Ready, Begun
<1>3. /\ skipped'[r] = skipped[r] \cup (right \ page)
      /\ moved'[r] = moved[r] \cup (page \ right)
      /\ \A x \in Full \ {r} : moved'[x] = moved[x]
  BY <1>1 DEF Typed, TypeOK
<1>4. page \subseteq countable /\ page \subseteq segment /\ (c = "history" => page \subseteq coll["history"])
  BY DEF Aggregate, Answers, Showable, Matching
<1>5. CASE page = {}
  <2>1. run' = Dealt(r) /\ UNCHANGED <<pc, task>>
    BY <1>5 DEF Aggregate
  <2>2. GoesOn(r)
    BY <1>1, <1>3, <2>1, DealtTyped DEF GoesOn, transfers, statistics, increments
  <2>3. \A d \in countable \ Excused(r)' : Day[d] = Segment(r) => d \notin coll[c]
    BY <1>3, <1>5 DEF Excused, Matching, OfDay, Typed, TypeOK
  <2>4. new' = new /\ \A d \in Doc : new'[d] > 0 => d \in countable
    BY <1>1 DEF statistics, Counting
  <2>5. /\ Left(run[r].history) => c = "history"
        /\ ~ Left(run[r].history) => c = "latest"
    BY DEF Pass
  <2> HIDE DEF IInv, c, segment, right
  <2> QED
    BY <1>1, <1>2, <2>1, <2>2, <2>3, <2>4, <2>5, PassesKeeps
<1>6. CASE page # {}
  <2>1. pc' = [pc EXCEPT ![r] = "save"]
    BY <1>6 DEF Aggregate
  <2>2. /\ c = "history" =>
             /\ run' = [run EXCEPT ![r].rows = RowsOf(page)]
             /\ task' = IF Segment(r) >= task[p].min
                          THEN [task EXCEPT ![p].overlap = (@ \ segment) \cup page]
                          ELSE task
        /\ c # "history" =>
             /\ run' = [run EXCEPT ![r].rows = IntegrationStatisticsData(page, task[p].overlap \cap segment)]
             /\ task' = task
    BY <1>6 DEF Aggregate
  <2>3. PICK rows \in Rows :
          /\ run' = [run EXCEPT ![r].rows = rows]
          /\ c = "history" => rows = RowsOf(page)
          /\ c # "history" => rows = IntegrationStatisticsData(page, task[p].overlap \cap segment)
    BY <2>2, RowsTyped
  <2>4. /\ run'[r].rows = rows /\ run'[r].latest = run[r].latest /\ run'[r].history = run[r].history
        /\ \A x \in Full \ {r} : run'[x] = run[x]
    BY <2>3, KeepsRows
  <2>5. GoesOn(r) /\ pc'[r] = "save"
    BY <1>1, <1>3, <2>1, <2>4 DEF GoesOn, transfers, statistics, increments, Typed, TypeOK
  <2>6. Segment(r)' = Segment(r) /\ (Left(run[r].history)' <=> Left(run[r].history)) /\ Ready(r)'
    BY <2>4, <2>5 DEF Segment, Left, Ready
  <2>7. /\ First(r)' = First(r)
        /\ \/ Overlap(r)' = Overlap(r)
           \/ c = "history" /\ Overlap(r)' = (Overlap(r) \ segment) \cup page
        /\ c = "history" /\ Segment(r) >= First(r) => Overlap(r)' = (Overlap(r) \ segment) \cup page
        /\ \A q \in Process : task'[q].overlap \subseteq task[q].overlap \cup page
        /\ c # "history" => task' = task
    <3> HIDE DEF segment, c
    <3> QED
      BY <2>2, TaskTyped DEF First, Overlap
  <2>8. \A q \in Process : task'[q].overlap \subseteq coll["history"] \cap countable
    BY <1>4, <2>7 DEF Counting
  <2>9. /\ Left(run[r].history) => c = "history" /\ Segment(r) = run[r].history.from
        /\ ~ Left(run[r].history) => c = "latest" /\ Segment(r) = run[r].latest.from
    BY DEF Pass, Segment
  <2>10. \A d \in Doc : /\ rows[d] > 0 => d \in countable /\ Day[d] = Segment(r)
                        /\ c = "history" => (rows[d] > 0 => rows[d] = 1 /\ d \in page)
                        /\ d \in page => rows[d] >= 1
                        /\ c = "latest" => /\ rows[d] > 0 => d \in page \/ d \in Overlap(r)
                                           /\ rows[d] > 1 => d \in page /\ d \in Overlap(r)
                                           /\ d \in Overlap(r) /\ Day[d] = Segment(r) => rows[d] >= 1
    <3>1. Overlap(r) \subseteq countable
      BY TaskTyped DEF Counting, Overlap
    <3>2. segment = {d \in Doc : Day[d] = Segment(r)}
      BY DEF OfDay
    <3> HIDE DEF segment
    <3>3. CASE c = "history"
      BY <1>4, <2>3, <3>2, <3>3 DEF RowsOf
    <3>4. CASE c # "history"
      BY <1>4, <2>3, <3>1, <3>2, <3>4 DEF RowsOf, IntegrationStatisticsData, Overlap
    <3> QED
      BY <3>3, <3>4
  <2>11. Span(r)'
    <3>1. Span(r)
      BY DEF RunInv
    <3> QED
      BY <1>2, <2>4, <2>5, <3>1 DEF Span, GoesOn, Stored
  <2>12. /\ new' = new /\ leftover' = leftover /\ coll' = coll /\ countable' = countable /\ arrived' = arrived
    BY <1>1 DEF transfers, statistics
  <2>13. /\ run[r].latest.from \in Int /\ run[r].latest.to \in Int
         /\ run[r].history.from \in Int /\ run[r].history.to \in Int
         /\ run[r].latest.to <= run[r].history.to
         /\ countable \subseteq Doc /\ \A d \in Doc : Day[d] \in Int /\ rows[d] \in Nat
    <3>1. run[r].latest.to <= run[r].history.to
      BY <1>2 DEF RunInv, Span
    <3> QED
      BY <3>1, RunTyped DEF Typed, TypeOK, Days, Rows
  <2>14. Solo(r) => AtMostOnce(r)'
    <3> SUFFICES ASSUME Solo(r), NEW d \in Doc \ (moved'[r] \cup leftover[r])
                 PROVE  /\ new[d] <= 1
                        /\ new[d] = 1 => \/ d \in coll["history"] /\ Day[d] < run[r].history.from
                                         \/ d \in coll["latest"] /\ Day[d] < run[r].latest.from
                        /\ rows[d] > 0 =>
                             /\ rows[d] = 1 /\ Day[d] = Segment(r) /\ d \in Stored
                             /\ Left(run[r].history) => d \in coll["history"]
      BY <2>4, <2>5, <2>6, <2>12 DEF AtMostOnce, Stored
    <3>1. d \in Doc \ (moved[r] \cup leftover[r])
      BY <1>3
    <3>2. d \in page => d \in coll[c]
      BY <1>3 DEF Matching
    <3>3. d \notin coll["latest"] \cap coll["history"]
      BY <1>2, <3>1 DEF Migrating
    <3>4. d \in Overlap(r) => d \in coll["history"]
      BY TaskTyped DEF Counting, Overlap
    <3>5. /\ new[d] <= 1
          /\ new[d] = 1 => \/ d \in coll["history"] /\ Day[d] < run[r].history.from
                           \/ d \in coll["latest"] /\ Day[d] < run[r].latest.from
      BY <1>2, <3>1 DEF RunInv, AtMostOnce
    <3>6. rows[d] > 0 => /\ rows[d] = 1 /\ Day[d] = Segment(r) /\ d \in Stored
                         /\ Left(run[r].history) => d \in coll["history"]
      <4> HIDE DEF c
      <4>1. CASE Left(run[r].history)
        BY <1>4, <2>9, <2>10, <4>1 DEF Stored
      <4>2. CASE ~ Left(run[r].history)
        BY <2>9, <2>10, <2>13, <3>2, <3>3, <3>4, <4>2 DEF Stored
      <4> QED
        BY <4>1, <4>2
    <3> QED
      BY <3>5, <3>6
  <2>15. Solo(r) => AtLeastOnce(r)'
    <3> SUFFICES ASSUME Solo(r) PROVE AtLeastOnce(r)'
      OBVIOUS
    <3>1. AtLeastOnce(r) /\ First(r) <= run[r].latest.from
      BY <1>2 DEF RunInv, AtLeastOnce
    <3>2. ASSUME NEW d \in countable \ Excused(r)'
          PROVE  /\ d \in coll["latest"] => Day[d] >= run[r].latest.from \/ new[d] >= 1
                 /\ d \in coll["history"] =>
                      \/ Day[d] >= run[r].history.from
                      \/ new[d] >= 1 /\ (Day[d] >= First(r) => d \in Overlap(r)')
                 /\ Day[d] = Segment(r) =>
                      /\ Left(run[r].history) /\ d \in coll["history"] =>
                           rows[d] >= 1 /\ (Day[d] >= First(r) => d \in Overlap(r)')
                      /\ ~ Left(run[r].history) => rows[d] >= 1
      <4>1. d \in Doc /\ d \in countable \ Excused(r)
        BY <1>3, <2>12, <2>13 DEF Excused
      <4>2. /\ d \in coll["latest"] => Day[d] >= run[r].latest.from \/ new[d] >= 1
            /\ d \in coll["history"] =>
                 \/ Day[d] >= run[r].history.from
                 \/ new[d] >= 1 /\ (Day[d] >= First(r) => d \in Overlap(r))
        BY <1>2, <3>1, <4>1 DEF AtLeastOnce
      <4>3. Day[d] = Segment(r) /\ d \in coll[c] => d \in page
        BY <1>3, <4>1 DEF Excused, Matching, OfDay
      <4>4. d \in segment <=> Day[d] = Segment(r)
        BY <4>1 DEF OfDay
      <4> HIDE DEF segment, c
      <4>5. CASE Left(run[r].history)
        <5>1. c = "history" /\ Segment(r) = run[r].history.from /\ Segment(r) \in Int
          BY <2>9, <2>13, <4>5
        <5>2. d \in coll["history"] =>
                \/ Day[d] >= run[r].history.from
                \/ new[d] >= 1 /\ (Day[d] >= First(r) => d \in Overlap(r)')
          <6>1. ~ (Day[d] >= run[r].history.from) => d \notin segment
            BY <2>13, <4>1, <4>4, <5>1
          <6>2. d \in Overlap(r) /\ d \notin segment => d \in Overlap(r)'
            BY <2>7
          <6> QED
            BY <4>2, <6>1, <6>2
        <5>3. Day[d] = Segment(r) /\ d \in coll["history"] =>
                rows[d] >= 1 /\ (Day[d] >= First(r) => d \in Overlap(r)')
          BY <2>7, <2>10, <4>1, <4>3, <5>1
        <5> QED
          BY <4>2, <4>5, <5>2, <5>3
      <4>6. CASE ~ Left(run[r].history)
        <5>1. /\ c = "latest" /\ Segment(r) = run[r].latest.from /\ Overlap(r)' = Overlap(r)
              /\ run[r].latest.from <= run[r].latest.to /\ run[r].history.to < run[r].history.from
          BY <1>1, <2>7, <2>9, <2>13, <4>6 DEF Dealing, Left
        <5>2. Day[d] = Segment(r) => rows[d] >= 1
          <6>1. d \in coll["latest"] \/ d \in coll["history"]
            BY <4>1 DEF Places, Stored
          <6>2. d \in coll["history"] /\ Day[d] = Segment(r) => d \in Overlap(r)
            BY <2>13, <3>1, <4>1, <4>2, <5>1
          <6> QED
            BY <2>10, <4>1, <4>3, <5>1, <6>1, <6>2
        <5> QED
          BY <4>2, <4>6, <5>1, <5>2
      <4> QED
        BY <4>5, <4>6
    <3> QED
      BY <2>4, <2>5, <2>6, <2>7, <2>12, <3>1, <3>2 DEF AtLeastOnce
  <2>16. \A d \in Doc : new'[d] > 0 \/ run'[r].rows[d] > 0 => d \in countable
    BY <2>4, <2>10, <2>12 DEF Counting
  <2> HIDE DEF IInv
  <2> QED
    BY <1>2, <2>5, <2>8, <2>11, <2>14, <2>15, <2>16, GoesOnKeeps
<1> QED
  BY <1>5, <1>6

-----------------------------------------------------------------------------
(* The theorems. *)

LEMMA InitInv == Init => IInv
<1> SUFFICES ASSUME Init PROVE IInv
  OBVIOUS
<1>1. Typed
  BY InitTyped
<1>2. /\ Active = {} /\ Stored = {} /\ \A i \in Increment : ~ Saving(i)
      /\ \A r \in Full : ~ Solo(r) /\ ~ Begun(r) /\ ~ Ready(r)
  BY DEF Init, Active, Stored, Saving, Solo, Begun, Ready, Coll
<1>3. Places /\ Alone /\ Migrating /\ Overtaking /\ RunInv
  BY <1>2 DEF Init, Places, Alone, Migrating, Overtaking, RunInv, Span, AtMostOnce, AtLeastOnce
<1>4. Counting /\ NotTwice
  BY DEF Init, Counting, NotTwice, Nothing, NoRun
<1> QED
  BY <1>1, <1>3, <1>4 DEF IInv

LEMMA InvStep == IInv /\ [Next]_vars => IInv'
<1> SUFFICES ASSUME IInv, [Next]_vars PROVE IInv'
  OBVIOUS
<1>0. Typed'
  BY TypedStep DEF IInv
<1>1. CASE UNCHANGED vars
  <2>1. Places' /\ Counting' /\ Alone' /\ Migrating' /\ Overtaking' /\ NotTwice'
    BY <1>1 DEF vars, IInv, Places, Counting, Alone, Migrating, Overtaking, NotTwice, Stored, Solo, Active, Saving,
      Matching
  <2>2. RunInv'
    BY <1>1 DEF vars, IInv, RunInv, Span, AtMostOnce, AtLeastOnce, Solo, Active, Begun, Ready, Segment, Left, Excused,
      First, Overlap, Stored
  <2> QED
    BY <1>0, <2>1, <2>2 DEF IInv
<1>2. ASSUME NEW d \in Doc, Store(d) \/ Settle(d) \/ InsertHistory(d) \/ Delete(d) PROVE IInv'
  BY <1>0, <1>2, DocStepKeeps DEF DocStep
<1>3. CASE Midnight
  BY <1>0, <1>3, MidnightKeeps
<1>4. ASSUME NEW r \in Full, StartFull(r) PROVE IInv'
  BY <1>0, <1>4, StartKeeps
<1>5. ASSUME NEW r \in Full, NEW answer \in SUBSET Doc, NEW first \in Days,
             LatestSegments(r, answer, first) \/ HistorySegments(r, answer, first)
      PROVE  IInv'
  BY <1>0, <1>5, LatestSegmentsKeeps, HistorySegmentsKeeps
<1>6. ASSUME NEW r \in Full, NEW page \in SUBSET Doc, Aggregate(r, page) PROVE IInv'
  BY <1>0, <1>6, AggregateKeeps
<1>7. ASSUME NEW r \in Full, AggregateFails(r) PROVE IInv'
  BY <1>0, <1>7, AggregateFailsKeeps
<1>8. ASSUME NEW r \in Full, NEW stored \in SUBSET Doc, Save(r) \/ SaveFails(r, stored) PROVE IInv'
  BY <1>0, <1>8, SaveKeeps
<1>9. ASSUME NEW r \in Full, SwitchColl(r) \/ NothingToSwitch(r) \/ AbandonFull(r) PROVE IInv'
  <2>1. /\ r \in Active /\ Ends(r) /\ UNCHANGED <<transfers, increments, task>>
        /\ UNCHANGED <<live, new, twice>> \/ SwitchColl(r)
    BY <1>9 DEF SwitchColl, NothingToSwitch, AbandonFull, Active, statistics
  <2> QED
    BY <1>0, <2>1, EndsKeeps
<1>10. ASSUME NEW i \in Increment, NEW page \in SUBSET Doc, IncrementDoes(i, page) PROVE IInv'
  BY <1>0, <1>10, IncrementKeeps
<1> QED
  BY <1>1, <1>2, <1>3, <1>4, <1>5, <1>6, <1>7, <1>8, <1>9, <1>10 DEF Next, FullStep, IncrementStep, IncrementDoes

\* Nothing is counted twice, but for the documents that the run that switched
\* last is excused for (SwitchColl and what leads to it).
THEOREM NotTwiceThm == Spec => []NotTwice
<1>1. Spec => []IInv
  BY InitInv, InvStep, PTL DEF Spec
<1> QED
  BY <1>1, PTL DEF IInv

\* Who writes the collection in use, and who ends the new one.
LEMMA Writers ==
  ASSUME [Next]_vars
  PROVE  \/ live' = live /\ (newExists => newExists')
         \/ (\E i \in Increment : SaveDay(i)) /\ newExists' = newExists
         \/ \E r \in Full : SwitchColl(r)
<1>1. CASE UNCHANGED vars
  BY <1>1 DEF vars
<1>2. ASSUME NEW d \in Doc, Store(d) \/ Settle(d) \/ InsertHistory(d) \/ Delete(d)
      PROVE  UNCHANGED <<live, newExists>>
  BY <1>2 DEF Store, Settle, InsertHistory, Delete, statistics
<1>3. CASE Midnight
  BY <1>3 DEF Midnight, statistics
<1>4. ASSUME NEW r \in Full, NEW answer \in SUBSET Doc, NEW first \in Days,
             LatestSegments(r, answer, first) \/ HistorySegments(r, answer, first)
      PROVE  live' = live /\ (newExists => newExists')
  BY <1>4 DEF LatestSegments, HistorySegments, statistics
<1>5. ASSUME NEW r \in Full, NEW page \in SUBSET Doc,
             StartFull(r) \/ Aggregate(r, page) \/ AggregateFails(r) \/ NothingToSwitch(r) \/ AbandonFull(r)
      PROVE  UNCHANGED <<live, newExists>>
  BY <1>5 DEF StartFull, Aggregate, AggregateFails, NothingToSwitch, AbandonFull, statistics
<1>6. ASSUME NEW r \in Full, NEW stored \in SUBSET Doc, Save(r) \/ SaveFails(r, stored)
      PROVE  live' = live /\ (newExists => newExists')
  BY <1>6 DEF Save, SaveFails
<1>7. ASSUME NEW i \in Increment, NEW page \in SUBSET Doc, IncrementDoes(i, page), ~ SaveDay(i)
      PROVE  UNCHANGED <<live, newExists>>
  BY <1>7 DEF IncrementDoes, TodayStatistics, YesterdayStatistics, AggregateDay, FailDay, AbandonIncrement, statistics
<1>8. ASSUME NEW i \in Increment, SaveDay(i)
      PROVE  newExists' = newExists
  BY <1>8 DEF SaveDay
<1> QED
  BY <1>1, <1>2, <1>3, <1>4, <1>5, <1>6, <1>7, <1>8 DEF Next, FullStep, IncrementStep, IncrementDoes

\* Only the switch of a run ends the existence of the new collection.
LEMMA SwitchOnly ==
  ASSUME IInv, [Next]_vars, NEW r \in Full, Switches(r)
  PROVE  SwitchColl(r)
<1>1. PICK x \in Full : SwitchColl(x)
  BY Writers DEF Switches
<1>2. \A y \in Full \ {x} : pc'[y] = pc[y]
  BY <1>1 DEF SwitchColl, Ends, IInv, Typed, TypeOK
<1> QED
  BY <1>1, <1>2 DEF Switches

\* What a run without company switches to: everything it had to count, once.
LEMMA SwitchCounts ==
  ASSUME IInv, NEW r \in Full, SwitchColl(r), r \notin crowded
  PROVE  /\ \A d \in countable \ Excused(r) : new[d] >= 1
         /\ \A d \in Doc \ (moved[r] \cup leftover[r]) : new[d] <= 1
<1> USE DEF IInv
<1>1. Solo(r) /\ Ready(r) /\ Begun(r) /\ ~ Dealing(r)
  BY DEF SwitchColl, Solo, Active, Ready, Begun
<1>2. /\ run[r].latest.from \in Int /\ run[r].latest.to \in Int
      /\ run[r].history.from \in Int /\ run[r].history.to \in Int
      /\ \A d \in Doc : Day[d] \in Int
      /\ countable \subseteq Doc
  BY RunTyped DEF Days, Typed, TypeOK
<1>3. run[r].latest.to < run[r].latest.from /\ run[r].latest.to < run[r].history.from
  <2>1. run[r].latest.to <= run[r].history.to
    BY <1>1 DEF RunInv, Span
  <2> QED
    BY <1>1, <1>2, <2>1 DEF Dealing, Left
<1>4. ASSUME NEW d \in countable \ Excused(r) PROVE new[d] >= 1
  <2>1. d \in Stored \ arrived[r]
    BY DEF Places, Excused
  <2>2. Day[d] <= run[r].latest.to
    BY <1>1, <2>1 DEF RunInv, Span
  <2>3. /\ d \in coll["latest"] => Day[d] >= run[r].latest.from \/ new[d] >= 1
        /\ d \in coll["history"] => Day[d] >= run[r].history.from \/ new[d] >= 1
    BY <1>1 DEF RunInv, AtLeastOnce
  <2> QED
    BY <1>2, <1>3, <2>1, <2>2, <2>3 DEF Stored
<1>5. \A d \in Doc \ (moved[r] \cup leftover[r]) : new[d] <= 1
  BY <1>1 DEF RunInv, AtMostOnce
<1> QED
  BY <1>4, <1>5

\* The switch of a run without company publishes everything it had to count,
\* once, for both kinds of tasks (RunFullStatistics and its relatives).
THEOREM FullCountsEachThm == Spec => FullCountsEach
<1>1. ASSUME IInv, [Next]_vars, NEW r \in Full, Switches(r), r \notin crowded,
             NEW d \in (Stored \cap countable) \ (arrived[r] \cup moved[r] \cup skipped[r])
      PROVE  live'[d] >= 1 /\ (live'[d] > 1 => d \in leftover[r])
  <2>1. SwitchColl(r) /\ live' = new
    BY <1>1, SwitchOnly DEF SwitchColl
  <2>2. d \in Doc /\ new[d] \in Int
    BY <1>1 DEF IInv, Typed, TypeOK, Rows
  <2>3. new[d] >= 1
    BY <1>1, <2>1, SwitchCounts DEF Excused
  <2>4. d \notin leftover[r] => new[d] <= 1
    BY <1>1, <2>1, <2>2, SwitchCounts
  <2> QED
    BY <2>1, <2>2, <2>3, <2>4
<1>2. Spec => []IInv
  BY InitInv, InvStep, PTL DEF Spec
<1>3. IInv /\ [Next]_vars =>
        [\A r \in Full : Switches(r) /\ r \notin crowded =>
           \A d \in (Stored \cap countable) \ (arrived[r] \cup moved[r] \cup skipped[r]) :
             live'[d] >= 1 /\ (live'[d] > 1 => d \in leftover[r])]_vars
  BY <1>1
<1> QED
  BY <1>2, <1>3, PTL DEF Spec, FullCountsEach

\* What is counted is dropped only by the swap of a day, after the document
\* was migrated or came late, or by a switch to what a full run could not see
\* (BatchSwap, SwitchColl).
THEOREM CountedStaysThm == Spec => CountedStays
<1>1. ASSUME IInv, [Next]_vars, NEW d \in Doc, live[d] > 0, live'[d] = 0
      PROVE  \/ \E i \in Increment : Saving(i) /\ at'[i] # at[i] /\ d \in coll["history"] \cup overtaken[i]
             \/ \E r \in Full : Switches(r) /\ (r \in crowded \/ d \in arrived[r] \cup moved[r] \cup skipped[r])
  <2>1. d \in countable /\ d \in Stored /\ live[d] \in Int
    BY <1>1 DEF IInv, Counting, Places, Typed, TypeOK, Rows
  <2>2. \/ \E i \in Increment : SaveDay(i)
        \/ \E r \in Full : SwitchColl(r)
    <3>1. live' # live
      BY <1>1, <2>1
    <3> QED
      BY <1>1, <3>1, Writers
  <2>3. ASSUME NEW i \in Increment, SaveDay(i)
        PROVE  Saving(i) /\ at'[i] # at[i] /\ d \in coll["history"] \cup overtaken[i]
    <3>1. Saving(i) /\ at'[i] # at[i]
      BY <1>1, <2>3 DEF SaveDay, Goes, Idle, Saving, IInv, Typed, TypeOK
    <3>2. Day[d] = incr[i].day /\ d \notin incr[i].rows
      BY <1>1, <2>1, <2>3 DEF SaveDay, BatchSwap, RowsOf
    <3>3. d \in coll["latest"] => d \in overtaken[i]
      BY <1>1, <2>1, <3>1, <3>2 DEF IInv, Overtaking, Matching
    <3> QED
      BY <2>1, <3>1, <3>3 DEF Stored
  <2>4. ASSUME NEW r \in Full, SwitchColl(r)
        PROVE  Switches(r) /\ (r \in crowded \/ d \in arrived[r] \cup moved[r] \cup skipped[r])
    <3>1. Switches(r)
      BY <1>1, <2>4 DEF SwitchColl, Ends, Switches, IInv, Typed, TypeOK
    <3>2. new[d] = 0
      BY <1>1, <2>4 DEF SwitchColl
    <3>3. r \notin crowded => d \in Excused(r)
      BY <1>1, <2>1, <2>4, <3>2, SwitchCounts
    <3> QED
      BY <3>1, <3>3 DEF Excused
  <2> QED
    BY <2>2, <2>3, <2>4
<1>2. Spec => []IInv
  BY InitInv, InvStep, PTL DEF Spec
<1>3. IInv /\ [Next]_vars =>
        [\A d \in Doc : live[d] > 0 /\ live'[d] = 0 =>
           \/ \E i \in Increment : Saving(i) /\ at'[i] # at[i] /\ d \in coll["history"] \cup overtaken[i]
           \/ \E r \in Full : Switches(r) /\ (r \in crowded \/ d \in arrived[r] \cup moved[r] \cup skipped[r])]_vars
  BY <1>1
<1> QED
  BY <1>2, <1>3, PTL DEF Spec, CountedStays
=============================================================================

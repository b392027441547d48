------------------------- MODULE HomeStatisticsProofs -------------------------
(* What HomeStatistics guarantees for any transfers, any statuses they go    *)
(* through, any number of manual runs and of faults, and any page size.      *)
EXTENDS HomeStatistics, FiniteSetTheorems, SequenceTheorems, TLAPS

-----------------------------------------------------------------------------
\* Numbers, finite sets and folds

NatLess == {p \in Nat \X Nat : p[1] < p[2]}

LEMMA NatLessWellFounded == IsWellFoundedOn(NatLess, Nat)
<1>1. OpToRel(<, Nat) = NatLess
  BY DEF OpToRel, NatLess
<1> QED
  BY <1>1, NatLessThanWellFounded

\* A set of numbers that is not empty has a least one.
LEMMA LeastExists ==
  ASSUME NEW T, T \subseteq Nat, T # {}
  PROVE  \E x \in T : \A y \in T : x <= y
<1>1. PICK x \in T : \A y \in T : <<y, x>> \notin NatLess
  BY NatLessWellFounded, WFMin
<1>2. ASSUME NEW y \in T
      PROVE  x <= y
  <2>1. <<y, x>> \notin NatLess
    BY <1>1
  <2>2. y \in Nat /\ x \in Nat
    OBVIOUS
  <2> QED
    BY <2>1, <2>2 DEF NatLess
<1> QED
  BY <1>2

\* A set of numbers that has a bound and is not empty has a greatest one.
LEMMA GreatestExists ==
  ASSUME NEW T, T \subseteq Nat, T # {}, NEW b \in Nat, \A y \in T : y <= b
  PROVE  \E x \in T : \A y \in T : y <= x
<1> DEFINE Bounds == {n \in Nat : \A y \in T : y <= n}
<1>1. PICK m \in Bounds : \A n \in Bounds : m <= n
  <2>1. b \in Bounds /\ Bounds \subseteq Nat
    OBVIOUS
  <2> HIDE DEF Bounds
  <2> QED
    BY <2>1, LeastExists
<1>2. ASSUME m \notin T
      PROVE  FALSE
  <2>1. PICK y \in T : TRUE
    OBVIOUS
  <2>2. m - 1 \in Nat
    BY <1>1, <1>2, <2>1
  <2>3. \A z \in T : z <= m - 1
    BY <1>1, <1>2
  <2> QED
    BY <1>1, <2>2, <2>3
<1> QED
  BY <1>1, <1>2

LEMMA ImageFinite ==
  ASSUME NEW S, IsFiniteSet(S), NEW g
  PROVE  IsFiniteSet({g[x] : x \in S})
<1> DEFINE T == {g[x] : x \in S}
           h == [x \in S |-> g[x]]
<1>1. h \in Surjection(S, T)
  BY DEF Surjection
<1> QED
  BY <1>1, FS_Surjection

\* The greatest of a finite set of numbers
LEMMA FiniteHasGreatest ==
  ASSUME NEW T, T \subseteq Nat, T # {}, IsFiniteSet(T)
  PROVE  \E x \in T : \A y \in T : y <= x
<1> DEFINE Bad == {U \in FiniteSubsetsOf(T) : \A b \in Nat : \E y \in U : ~(y <= b)}
<1>1. CASE Bad = {}
  <2>1. T \in FiniteSubsetsOf(T)
    BY DEF FiniteSubsetsOf
  <2>2. \E b \in Nat : \A y \in T : y <= b
    BY <1>1, <2>1
  <2> QED
    BY <2>2, GreatestExists
<1>2. CASE Bad # {}
  <2>1. Bad \subseteq FiniteSubsetsOf(T)
    OBVIOUS
  <2>2. PICK U \in Bad : \A V \in Bad : <<V, U>> \notin StrictSubsetOrdering(T)
    <3> HIDE DEF Bad
    <3> QED
      BY <1>2, <2>1, FS_StrictSubsetOrderingWellFounded, WFMin
  <2>3. PICK u \in U : TRUE
    OBVIOUS
  <2>4. U \ {u} \in FiniteSubsetsOf(T)
    BY FS_RemoveElement DEF FiniteSubsetsOf
  <2>5. U \ {u} \notin Bad
    BY <2>2, <2>3, <2>4 DEF StrictSubsetOrdering, FiniteSubsetsOf
  <2>6. PICK b \in Nat : \A y \in U \ {u} : y <= b
    BY <2>4, <2>5
  <2>7. u \in Nat
    BY <2>3 DEF FiniteSubsetsOf
  <2>8. \A y \in U : y <= b + u
    <3>1. \A y \in U : y \in Nat
      BY DEF FiniteSubsetsOf
    <3> QED
      BY <2>6, <2>7, <3>1
  <2> QED
    BY <2>7, <2>8
<1> QED
  BY <1>1, <1>2

\* The functions that satisfy the recursive equation of a fold, the step and the
\* choice given as functions
FoldsOf(S, A, base, op, pick) ==
  {g \in [SUBSET S -> A] : \A U \in SUBSET S :
     g[U] = IF U = {} THEN base ELSE op[<<pick[U], g[U \ {pick[U]}]>>]}

\* There is one for a finite set: on its small subsets first.
LEMMA FoldExists ==
  ASSUME NEW S, IsFiniteSet(S), NEW A, NEW base, base \in A, NEW op, op \in [S \X A -> A],
         NEW pick, \A U \in SUBSET S : U # {} => pick[U] \in U
  PROVE  \E g : g \in FoldsOf(S, A, base, op, pick)
<1> DEFINE Rhs(g, U) == IF U = {} THEN base ELSE op[<<pick[U], g[U \ {pick[U]}]>>]
           Defined(n) == \E g \in [SUBSET S -> A] :
                           \A U \in SUBSET S : Cardinality(U) <= n => g[U] = Rhs(g, U)
           Bad == {n \in Nat : ~Defined(n)}
<1>1. \A U \in SUBSET S : IsFiniteSet(U) /\ Cardinality(U) \in Nat
  BY FS_Subset, FS_CardinalityType
<1>2. Defined(0)
  <2> DEFINE g == [U \in SUBSET S |-> base]
  <2>1. \A U \in SUBSET S : Cardinality(U) <= 0 => U = {}
    BY <1>1, FS_EmptySet
  <2>2. g \in [SUBSET S -> A] /\ \A U \in SUBSET S : Cardinality(U) <= 0 => g[U] = Rhs(g, U)
    BY <2>1
  <2> QED
    BY <2>2
<1>3. ASSUME NEW n \in Nat, Defined(n)
      PROVE  Defined(n + 1)
  <2>1. PICK g \in [SUBSET S -> A] :
          \A U \in SUBSET S : Cardinality(U) <= n => g[U] = Rhs(g, U)
    BY <1>3
  <2> DEFINE h == [U \in SUBSET S |-> Rhs(g, U)]
  <2>2. h \in [SUBSET S -> A]
    <3>1. ASSUME NEW U \in SUBSET S
          PROVE  Rhs(g, U) \in A
      BY <2>1
    <3> QED
      BY <3>1
  <2>3. ASSUME NEW U \in SUBSET S, Cardinality(U) <= n + 1
        PROVE  h[U] = Rhs(h, U)
    <3>1. CASE U = {}
      BY <3>1
    <3>2. CASE U # {}
      <4> DEFINE V == U \ {pick[U]}
      <4>1. pick[U] \in U /\ V \in SUBSET S
        BY <3>2
      <4>2. Cardinality(V) <= n
        <5>1. Cardinality(V) = Cardinality(U) - 1
          BY <1>1, <4>1, FS_RemoveElement
        <5> QED
          BY <1>1, <2>3, <5>1
      <4>3. h[V] = g[V]
        BY <2>1, <4>1, <4>2
      <4> QED
        BY <3>2, <4>1, <4>3
    <3> QED
      BY <3>1, <3>2
  <2> HIDE DEF h
  <2> QED
    BY <2>2, <2>3
<1>4. Bad = {}
  <2>1. SUFFICES ASSUME Bad # {}
                 PROVE  FALSE
    OBVIOUS
  <2>2. PICK n \in Bad : \A m \in Bad : n <= m
    <3>1. Bad \subseteq Nat
      OBVIOUS
    <3> HIDE DEF Bad
    <3> QED
      BY <2>1, <3>1, LeastExists
  <2> HIDE DEF Defined
  <2>3. n # 0
    BY <1>2
  <2>4. n - 1 \in Nat /\ n - 1 \notin Bad
    BY <2>2, <2>3
  <2>5. Defined((n - 1) + 1)
    BY <1>3, <2>4
  <2> QED
    BY <2>5
<1>5. Defined(Cardinality(S))
  BY <1>1, <1>4
<1>6. \A U \in SUBSET S : Cardinality(U) <= Cardinality(S)
  BY FS_Subset
<1> QED
  BY <1>5, <1>6 DEF FoldsOf

\* What a fold gives is of a type that the step keeps.
LEMMA FoldTyped ==
  ASSUME NEW S, IsFiniteSet(S), NEW A, NEW g, g[{}] \in A,
         \A U \in SUBSET S : U # {} => \E x \in U : g[U \ {x}] \in A => g[U] \in A
  PROVE  g[S] \in A
<1> DEFINE Bad == {U \in SUBSET S : g[U] \notin A}
<1>1. SUFFICES ASSUME Bad # {}
               PROVE  FALSE
  BY DEF Bad
<1>2. FiniteSubsetsOf(S) = SUBSET S
  BY FS_FiniteSubsetsOfFinite
<1>3. PICK U \in Bad : \A V \in Bad : <<V, U>> \notin StrictSubsetOrdering(S)
  <2>1. Bad \subseteq FiniteSubsetsOf(S)
    BY <1>2
  <2> HIDE DEF Bad
  <2> QED
    BY <1>1, <2>1, FS_StrictSubsetOrderingWellFounded, WFMin
<1>4. U # {}
  OBVIOUS
<1>5. PICK x \in U : g[U \ {x}] \in A => g[U] \in A
  BY <1>4
<1>6. <<U \ {x}, U>> \in StrictSubsetOrdering(S)
  BY <1>5 DEF StrictSubsetOrdering
<1>7. U \ {x} \notin Bad
  BY <1>3, <1>6
<1> QED
  BY <1>5, <1>7

\* What updateChannelAndChains24h counts is a number.
LEMMA PathsCounted ==
  ASSUME NEW k \in Nat, NEW E, NEW paths \in [1 .. k -> [sc : E, dc : E]]
  PROVE  CountPaths(paths) \in Nat
<1> DEFINE S == DOMAIN paths
           Acc == [ends : SUBSET E, n : Nat]
           base == [ends |-> {}, n |-> 0]
           op == [q \in S \X Acc |-> AddPath(q[2], paths[q[1]])]
           pick == [U \in SUBSET S |-> Max(U)]
           Rhs(g, U) == IF U = {} THEN base ELSE AddPath(g[U \ {Max(U)}], paths[Max(U)])
           it == CHOOSE g : g = [U \in SUBSET S |-> Rhs(g, U)]
<1>1. S = 1 .. k /\ IsFiniteSet(S)
  BY FS_Interval
<1>2. ASSUME NEW U \in SUBSET S, U # {}
      PROVE  Max(U) \in U
  <2>1. U \subseteq Nat /\ \A y \in U : y <= k
    BY <1>1
  <2>2. PICK x \in U : \A y \in U : y <= x
    BY <1>2, <2>1, GreatestExists
  <2>3. \A y \in U : x >= y
    BY <2>1, <2>2
  <2> QED
    BY <2>3 DEF Max
<1>3. ASSUME NEW acc \in Acc, NEW x \in S
      PROVE  AddPath(acc, paths[x]) \in Acc
  <2>1. paths[x].sc \in E /\ paths[x].dc \in E
    OBVIOUS
  <2> QED
    BY <2>1 DEF AddPath
<1>4. \E g : g = [U \in SUBSET S |-> Rhs(g, U)]
  <2>1. base \in Acc /\ op \in [S \X Acc -> Acc]
    BY <1>3
  <2>2. \A U \in SUBSET S : U # {} => pick[U] \in U
    BY <1>2
  <2>3. PICK g : g \in FoldsOf(S, Acc, base, op, pick)
    <3>1. IsFiniteSet(S)
      BY <1>1
    <3> HIDE DEF S, Acc, base, op, pick
    <3> QED
      BY <2>1, <2>2, <3>1, FoldExists
  <2>4. ASSUME NEW U \in SUBSET S
        PROVE  g[U] = Rhs(g, U)
    <3>1. CASE U = {}
      BY <2>3, <3>1 DEF FoldsOf
    <3>2. CASE U # {}
      <4>1. Max(U) \in S /\ U \ {Max(U)} \in SUBSET S
        BY <1>2, <3>2
      <4>2. g[U \ {Max(U)}] \in Acc
        BY <2>3, <4>1 DEF FoldsOf
      <4>3. op[<<Max(U), g[U \ {Max(U)}]>>] = AddPath(g[U \ {Max(U)}], paths[Max(U)])
        BY <4>1, <4>2
      <4> QED
        BY <2>3, <3>2, <4>3 DEF FoldsOf
    <3> QED
      BY <3>1, <3>2
  <2>5. g \in [SUBSET S -> Acc]
    BY <2>3 DEF FoldsOf
  <2>6. g = [U \in SUBSET S |-> Rhs(g, U)]
    <3> HIDE DEF Acc, S, Rhs
    <3> QED
      BY <2>4, <2>5
  <2> QED
    BY <2>6
<1>5. it = [U \in SUBSET S |-> Rhs(it, U)]
  BY <1>4
<1> HIDE DEF it
<1>6. it[{}] \in Acc
  <2>1. it[{}] = base
    BY <1>5
  <2> QED
    BY <2>1
<1>7. ASSUME NEW U \in SUBSET S, U # {}
      PROVE  \E x \in U : it[U \ {x}] \in Acc => it[U] \in Acc
  <2>1. Max(U) \in U
    BY <1>2, <1>7
  <2>2. it[U] = AddPath(it[U \ {Max(U)}], paths[Max(U)])
    BY <1>5, <1>7
  <2>3. Max(U) \in S
    BY <2>1
  <2> HIDE DEF Acc, S
  <2> QED
    BY <1>3, <2>1, <2>2, <2>3
<1>8. it[S] \in Acc
  <2> HIDE DEF Acc, S
  <2> QED
    BY <1>1, <1>6, <1>7, FoldTyped
<1>9. CountPaths(paths) = it[S].n
  BY DEF it, CountPaths, FoldLeft, MapThenFoldSet
<1> QED
  BY <1>8, <1>9

-----------------------------------------------------------------------------
(* Typing *)

Kinds == {"idle", "pages", "listed", "detail", "missing"}
Reader == [what : Kinds, query : Queries \cup {<<>>}, page : Nat,
           seen : SUBSET Doc, kept : SUBSET Doc, doc : Doc \cup {NoDoc}]
Steps == {"count", "find", "call", "upto", "record", "write"}

\* Sets of documents are finite.
LEMMA DocsFinite ==
  ASSUME NEW S \in SUBSET Doc
  PROVE  IsFiniteSet(S) /\ Cardinality(S) \in Nat
BY HomeAssumption, FS_Subset, FS_CardinalityType

LEMMA CountedUseful ==
  \A f \in HistoryFigures : Counted[f] \subseteq Useful /\ Counted[f] \subseteq Status
BY DEF HistoryFigures, Counted, Useful, Status

LEMMA PutTyped ==
  ASSUME TypeOK, NEW c \in Coll, NEW d, NEW s \in Status \cup {"none"}, Put(c, d, s)
  PROVE  db' \in Content /\ before' \in Content /\ reached' \in [Doc -> SUBSET Status]
<1> DEFINE new == [db EXCEPT ![c][d] = s]
<1>1. new \in Content
  <2>1. db \in [Coll -> [Doc -> Status \cup {"none"}]]
    BY DEF TypeOK, Content
  <2>2. [db[c] EXCEPT ![d] = s] \in [Doc -> Status \cup {"none"}]
    BY <2>1
  <2>3. new = [db EXCEPT ![c] = [db[c] EXCEPT ![d] = s]]
    BY <2>1
  <2> QED
    BY <2>1, <2>2, <2>3 DEF Content
<1>2. Empty \in Content
  BY DEF Empty, Content
<1>3. before' \in Content
  BY <1>2 DEF Put, TypeOK
<1>4. reached' \in [Doc -> SUBSET Status]
  BY DEF Put, TypeOK
<1> QED
  BY <1>1, <1>3, <1>4 DEF Put

LEMMA ReadTyped ==
  ASSUME TypeOK, NEW view \in {db, before}, Read(view)
  PROVE  view \in Content /\ stale' \in BOOLEAN /\ faults' \in Nat
<1>1. CASE view = db /\ UNCHANGED <<stale, faults>>
  BY <1>1 DEF TypeOK
<1>2. CASE view = before /\ faults > 0 /\ faults' = faults - 1 /\ stale' = TRUE
  BY <1>2 DEF TypeOK
<1> QED
  BY <1>1, <1>2 DEF Read

LEMMA ContentTyped ==
  ASSUME NEW view \in Content, NEW c \in Coll, NEW d \in Doc
  PROVE  view[c][d] \in Status \cup {"none"}
BY DEF Content

\* What is counted again is a number.
LEMMA CountsTyped ==
  ASSUME TypeOK, NEW view \in {db, before}, NEW f \in LiveFigures, NEW n \in Counts(view, f)
  PROVE  n \in Nat
<1>1. CASE f = "tx_latest_all"
  <2>1. In(view, "latest", Useful) \in SUBSET Doc
    BY DEF In
  <2> QED
    BY <1>1, <2>1, DocsFinite DEF Counts
<1>2. CASE f = "tx_24hr_all"
  <2>1. ActiveTxs24h(view) \in SUBSET Doc
    BY DEF ActiveTxs24h, In
  <2> QED
    BY <1>2, <2>1, DocsFinite DEF Counts
<1>3. CASE f = "chains_24hr"
  <2> DEFINE g == [d \in Doc |-> {PathOf[d].sc.chain, PathOf[d].dc.chain}]
             chains == {g[d] : d \in ActiveTxs24h(view)}
  <2>1. ActiveTxs24h(view) \in SUBSET Doc
    BY DEF ActiveTxs24h, In
  <2>2. IsFiniteSet(chains)
    <3>1. IsFiniteSet(ActiveTxs24h(view))
      BY <2>1, DocsFinite
    <3> HIDE DEF g
    <3> QED
      BY <3>1, ImageFinite
  <2>3. \A T \in chains : IsFiniteSet(T)
    <3> SUFFICES ASSUME NEW T \in chains
                 PROVE  IsFiniteSet(T)
      OBVIOUS
    <3>1. PICK d \in Doc : T = {PathOf[d].sc.chain, PathOf[d].dc.chain}
      BY <2>1
    <3>2. T = {PathOf[d].sc.chain} \cup {PathOf[d].dc.chain}
      BY <3>1
    <3> HIDE DEF chains
    <3> QED
      BY <3>2, FS_Singleton, FS_Union
  <2>4. IsFiniteSet(UNION chains)
    <3> HIDE DEF chains
    <3> QED
      BY <2>2, <2>3, FS_UNION
  <2>5. Aggr24hActiveChains(view) = (UNION chains) \ {""}
    <3>1. chains = {{PathOf[d].sc.chain, PathOf[d].dc.chain} : d \in ActiveTxs24h(view)}
      BY <2>1
    <3> QED
      BY <3>1 DEF Aggr24hActiveChains
  <2>6. IsFiniteSet(Aggr24hActiveChains(view))
    <3> HIDE DEF chains
    <3> QED
      BY <2>4, <2>5, FS_Difference
  <2> QED
    BY <1>3, <2>6, FS_CardinalityType DEF Counts
<1>4. CASE f = "channels_24hr"
  <2> DEFINE E == [{"chain", "channel"} -> STRING]
             paths == Aggr24hActiveChannels(view)
             docs == {e \in In(view, "latest", {"Success", "Refunded"}) : TxTime[e] >= day}
  <2>1. docs \in SUBSET Doc /\ IsFiniteSet(docs)
    <3>1. docs \in SUBSET Doc
      BY DEF In
    <3> QED
      BY <3>1, DocsFinite
  <2>2. paths = {PathOf[d] : d \in docs}
    BY DEF Aggr24hActiveChannels
  <2>3. IsFiniteSet(paths)
    <3> HIDE DEF docs
    <3> QED
      BY <2>1, <2>2, ImageFinite
  <2>4. paths \subseteq [sc : E, dc : E]
    <3>1. \A d \in docs : PathOf[d] \in [sc : E, dc : E]
      BY <2>1, HomeAssumption
    <3> QED
      BY <2>2, <3>1
  <2>5. PICK s \in SetToSeqs(paths) : n = CountPaths(s)
    BY <1>4 DEF Counts
  <2>6. s \in [1 .. Cardinality(paths) -> [sc : E, dc : E]] /\ Cardinality(paths) \in Nat
    <3>1. s \in [1 .. Cardinality(paths) -> paths]
      BY <2>5 DEF SetToSeqs
    <3>2. Cardinality(paths) \in Nat
      BY <2>3, FS_CardinalityType
    <3> HIDE DEF paths, E
    <3> QED
      BY <2>4, <3>1, <3>2
  <2> QED
    BY <2>5, <2>6, PathsCounted
<1> QED
  BY <1>1, <1>2, <1>3, <1>4 DEF LiveFigures

\* The latest creation time is one of them.
LEMMA LatestTyped ==
  ASSUME TypeOK, NEW view, CreateAts(view) # {}
  PROVE  /\ Latest(CreateAts(view)) \in CreateAts(view)
         /\ \A t \in CreateAts(view) : t <= Latest(CreateAts(view))
         /\ CreateAts(view) \subseteq Nat
<1> DEFINE docs == {e \in Doc : view["history"][e] # "none"}
<1>1. docs \in SUBSET Doc /\ IsFiniteSet(docs)
  BY DocsFinite
<1>2. CreateAts(view) = {created[d] : d \in docs}
  BY DEF CreateAts
<1>3. IsFiniteSet(CreateAts(view))
  <2>1. IsFiniteSet(docs)
    BY <1>1
  <2> HIDE DEF docs
  <2> QED
    BY <1>2, <2>1, ImageFinite
<1>4. CreateAts(view) \subseteq Nat
  BY <1>1, <1>2 DEF TypeOK
<1>5. \E t \in CreateAts(view) : \A u \in CreateAts(view) : u <= t
  BY <1>3, <1>4, FiniteHasGreatest
<1> QED
  BY <1>4, <1>5 DEF Latest

LEMMA PlanTyped ==
  ASSUME NEW p \in Run
  PROVE  Plan(p) \in Seq(Figures)
<1>1. ASSUME NEW f \in Figures
      PROVE  IfWanted(f) \in Seq(Figures)
  BY <1>1 DEF IfWanted
<1>2. ASSUME NEW s \in Seq(Figures), NEW t \in Seq(Figures)
      PROVE  s \o t \in Seq(Figures)
  BY <1>2
<1>3. TxsPlan \in Seq(Figures)
  <2>1. /\ IfWanted("tx_latest_all") \in Seq(Figures) /\ IfWanted("tx_all") \in Seq(Figures)
        /\ IfWanted("tx_failed") \in Seq(Figures) /\ IfWanted("tx_success") \in Seq(Figures)
        /\ IfWanted("tx_24hr_all") \in Seq(Figures)
    BY <1>1 DEF Figures, HistoryFigures, LiveFigures
  <2> QED
    BY <1>2, <2>1 DEF TxsPlan
<1>4. /\ IfWanted("channels_24hr") \in Seq(Figures) /\ IfWanted("chains_24hr") \in Seq(Figures)
  BY <1>1 DEF Figures, LiveFigures
<1> QED
  BY <1>2, <1>3, <1>4 DEF Plan

LEMMA GotoTyped ==
  ASSUME TypeOK, NEW p \in Run, NEW figs \in Seq(Figures), Goto(p, figs)
  PROVE  todo' \in [Run -> Seq(Figures)] /\ stage' \in [Run -> Steps]
<1>1. First(p, figs) \in Steps
  BY DEF First, Steps
<1>2. stage \in [Run -> Steps] /\ todo \in [Run -> Seq(Figures)]
  BY DEF TypeOK, Steps
<1> QED
  BY <1>1, <1>2 DEF Goto

\* The run that is at a figure has it to do.
LEMMA AtTyped ==
  ASSUME TypeOK, NEW p \in Run, NEW f, NEW s, At(p, f, s)
  PROVE  /\ f \in Figures /\ todo[p] # <<>> /\ Head(todo[p]) = f
         /\ Tail(todo[p]) \in Seq(Figures) /\ stage[p] = s
<1>1. todo[p] \in Seq(Figures)
  BY DEF TypeOK
<1> QED
  BY <1>1 DEF At, Figure

LEMMA FreshTyped == Fresh \in Memory /\ NoRecord \in Record /\ NoReader \in Reader
BY DEF Fresh, Memory, NoRecord, Record, NoReader, Reader, Kinds

LEMMA MemoryTyped ==
  ASSUME TypeOK, NEW p \in Run
  PROVE  /\ mem[p] \in Memory
         /\ mem[p].rec \in Record /\ mem[p].total \in Nat /\ mem[p].at \in Nat /\ mem[p].n \in Nat
         /\ mem[p].twice \in SUBSET Doc /\ mem[p].live \in Nat
         /\ mem[p].inLatest \in [HistoryFigures -> SUBSET Doc]
BY DEF TypeOK, Memory

LEMMA TypedIf ==
  ASSUME TypeOK, UNCHANGED <<focus, life, env>>,
         figures' \in [LiveFigures -> Nat], record' \in [HistoryFigures -> Record],
         todo' \in [Run -> Seq(Figures)], stage' \in [Run -> Steps], mem' \in [Run -> Memory],
         manuals' \in Nat, reader' \in Reader, stale' \in BOOLEAN, faults' \in Nat
  PROVE  TypeOK'
BY DEF TypeOK, Steps, Reader, Kinds, env

LEMMA Typed ==
  ASSUME TypeOK
  PROVE  /\ figures \in [LiveFigures -> Nat] /\ record \in [HistoryFigures -> Record]
         /\ todo \in [Run -> Seq(Figures)] /\ stage \in [Run -> Steps] /\ mem \in [Run -> Memory]
         /\ manuals \in Nat /\ reader \in Reader /\ stale \in BOOLEAN /\ faults \in Nat
BY DEF TypeOK, Steps, Reader, Kinds

LEMMA KeptTyped ==
  ASSUME TypeOK, NEW p \in Run, NEW m \in Memory, mem' = [mem EXCEPT ![p] = m]
  PROVE  mem' \in [Run -> Memory]
BY DEF TypeOK

LEMMA InitTyped == Init => TypeOK
<1> SUFFICES ASSUME Init
             PROVE  TypeOK
  OBVIOUS
<1>1. PICK c \in Cases : focus = c.focus /\ life = c.life /\ manuals = c.manuals /\ faults = c.faults
  BY DEF Init
<1>2. c \in [focus : SUBSET (Figures \cup {"pages", "detail"}),
             life : [Doc -> Seq(Status) \ {<<>>}], manuals : Nat, faults : Nat]
  BY HomeAssumption
<1>3. Empty \in Content
  BY DEF Empty, Content
<1>4. /\ carried \in [doc : Doc \cup {NoDoc}, status : Status \cup {"none"},
                      step : {"find", "insert", "delete"}]
      /\ clock \in Nat /\ created \in [Doc -> Nat] /\ day \in Nat
      /\ figures \in [LiveFigures -> Nat] /\ reached \in [Doc -> SUBSET Status]
  BY DEF Init
<1>5. todo \in [Run -> Seq(Figures)] /\ stage \in [Run -> Steps] /\ stale \in BOOLEAN
  <2>1. <<>> \in Seq(Figures) /\ "count" \in Steps
    BY DEF Steps
  <2> QED
    BY <2>1 DEF Init
<1>6. record \in [HistoryFigures -> Record] /\ mem \in [Run -> Memory] /\ reader \in Reader
  BY FreshTyped DEF Init
<1> QED
  BY <1>1, <1>2, <1>3, <1>4, <1>5, <1>6 DEF Init, TypeOK, Steps, Reader, Kinds

LEMMA EnvironmentTyped == TypeOK /\ Environment => TypeOK'
<1> SUFFICES ASSUME TypeOK, Environment
             PROVE  TypeOK'
  OBVIOUS
<1>1. CASE Tick
  BY <1>1 DEF TypeOK, Tick, env, task
<1>2. CASE DayPasses
  <2> DEFINE later == {t \in {TxTime[d] : d \in Doc} : t >= day}
  <2>1. PICK d \in Doc : TxTime[d] >= day
    BY <1>2 DEF DayPasses
  <2>2. later \subseteq Nat /\ TxTime[d] \in later
    BY <2>1, HomeAssumption
  <2>3. PICK t \in later : \A u \in later : t <= u
    <3> HIDE DEF later
    <3> QED
      BY <2>2, LeastExists
  <2>4. \E u \in {TxTime[e] : e \in Doc} :
          u >= day /\ \A e \in Doc : TxTime[e] >= day => u <= TxTime[e]
    BY <2>3
  <2> DEFINE first == CHOOSE u \in {TxTime[e] : e \in Doc} :
                        u >= day /\ \A e \in Doc : TxTime[e] >= day => u <= TxTime[e]
  <2>5. first \in {TxTime[e] : e \in Doc}
    BY <2>4
  <2>6. first \in Nat
    <3> HIDE DEF first
    <3> QED
      BY <2>5, HomeAssumption
  <2>7. day' = 1 + first
    BY <1>2 DEF DayPasses
  <2>8. day' \in Nat
    BY <2>6, <2>7
  <2> QED
    BY <1>2, <2>8 DEF TypeOK, DayPasses, env, task
<1>3. ASSUME NEW d \in Doc, Sync(d)
      PROVE  TypeOK'
  <2>1. life[d] \in Seq(Status) /\ life[d] # <<>>
    BY DEF TypeOK
  <2>2. Head(life[d]) \in Status \cup {"none"}
    BY <2>1
  <2>3. db' \in Content /\ before' \in Content /\ reached' \in [Doc -> SUBSET Status]
    BY <1>3, <2>2, PutTyped DEF Sync, Coll
  <2>4. created' \in [Doc -> Nat]
    BY <1>3 DEF Sync, TypeOK
  <2> QED
    BY <1>3, <2>3, <2>4 DEF Sync, TypeOK, env, task
<1>4. ASSUME NEW d \in Doc, NEW c \in Coll, Progress(c, d)
      PROVE  TypeOK'
  <2>1. PICK i \in 1 .. Len(life[d]) - 1 : Put(c, d, life[d][i + 1])
    BY <1>4 DEF Progress
  <2>2. life[d][i + 1] \in Status \cup {"none"}
    <3>1. life[d] \in Seq(Status)
      BY DEF TypeOK
    <3> QED
      BY <2>1, <3>1
  <2>3. db' \in Content /\ before' \in Content /\ reached' \in [Doc -> SUBSET Status]
    BY <2>1, <2>2, PutTyped
  <2> QED
    BY <1>4, <2>3 DEF Progress, TypeOK, env, task
<1>5. CASE MigrateFind
  <2>1. PICK d \in Doc : carried' = [doc |-> d, status |-> db["latest"][d], step |-> "insert"]
    BY <1>5 DEF MigrateFind, Oldest, In
  <2>2. db["latest"][d] \in Status \cup {"none"}
    BY ContentTyped DEF TypeOK, Coll
  <2> QED
    BY <1>5, <2>1, <2>2 DEF MigrateFind, TypeOK, env, task
<1>6. CASE MigrateInsert
  <2>1. carried.status \in Status \cup {"none"}
    BY DEF TypeOK
  <2>2. db' \in Content /\ before' \in Content /\ reached' \in [Doc -> SUBSET Status]
    BY <1>6, <2>1, PutTyped DEF MigrateInsert, Coll, TypeOK
  <2>3. carried' \in [doc : Doc \cup {NoDoc}, status : Status \cup {"none"},
                      step : {"find", "insert", "delete"}]
    BY <1>6 DEF MigrateInsert, TypeOK
  <2> QED
    BY <1>6, <2>2, <2>3 DEF MigrateInsert, TypeOK, env, task
<1>7. CASE MigrateDelete
  <2>1. db' \in Content /\ before' \in Content /\ reached' \in [Doc -> SUBSET Status]
    BY <1>7, PutTyped DEF MigrateDelete, Coll
  <2> QED
    BY <1>7, <2>1 DEF MigrateDelete, TypeOK, env, task
<1>8. CASE MigrateFails
  BY <1>8 DEF MigrateFails, TypeOK, env, task
<1> QED
  BY <1>1, <1>2, <1>3, <1>4, <1>5, <1>6, <1>7, <1>8 DEF Environment

LEMMA RunStepTyped ==
  ASSUME TypeOK, NEW p \in Run, RunStep(p) \/ Abort(p)
  PROVE  TypeOK'
<1>1. CASE Start(p)
  <2>1. todo' \in [Run -> Seq(Figures)] /\ stage' \in [Run -> Steps]
    BY <1>1, PlanTyped, GotoTyped DEF Start
  <2>2. manuals' \in Nat
    BY <1>1 DEF Start, TypeOK
  <2> QED
    BY <1>1, <2>1, <2>2, TypedIf, Typed DEF Start
<1>2. CASE Count(p)
  <2>1. PICK f \in LiveFigures, view \in {db, before} :
          /\ At(p, f, "count") /\ Read(view)
          /\ \E n \in Counts(view, f) :
               mem' = [mem EXCEPT ![p].live = n,
                            ![p].inLatest = [g \in HistoryFigures |->
                               IF f = "tx_latest_all" /\ g \in focus
                                 THEN In(view, "latest", Counted[g]) ELSE @[g]]]
          /\ stage' = [stage EXCEPT ![p] = "write"]
          /\ UNCHANGED <<focus, life, env, figures, record, todo, manuals, reader>>
    BY <1>2 DEF Count
  <2>2. stale' \in BOOLEAN /\ faults' \in Nat
    BY <2>1, ReadTyped
  <2>3. mem' \in [Run -> Memory]
    <3>1. PICK n \in Counts(view, f) :
            mem' = [mem EXCEPT ![p].live = n,
                            ![p].inLatest = [g \in HistoryFigures |->
                               IF f = "tx_latest_all" /\ g \in focus
                                 THEN In(view, "latest", Counted[g]) ELSE @[g]]]
      BY <2>1
    <3>2. n \in Nat
      BY <3>1, CountsTyped
    <3>3. \A g : In(view, "latest", Counted[g]) \in SUBSET Doc
      BY DEF In
    <3> DEFINE m == [mem[p] EXCEPT !.live = n, !.inLatest = [g \in HistoryFigures |->
                       IF f = "tx_latest_all" /\ g \in focus
                         THEN In(view, "latest", Counted[g]) ELSE @[g]]]
    <3>4. m \in Memory
      BY <3>2, <3>3, MemoryTyped DEF Memory
    <3>5. mem' = [mem EXCEPT ![p] = m]
      BY <3>1
    <3> QED
      BY <3>4, <3>5, KeptTyped
  <2>4. stage' \in [Run -> Steps]
    BY <2>1 DEF TypeOK, Steps
  <2> QED
    BY <2>1, <2>2, <2>3, <2>4, TypedIf, Typed
<1>3. CASE UpdateOne(p)
  <2>1. PICK f \in LiveFigures :
          /\ At(p, f, "write")
          /\ figures' = [figures EXCEPT ![f] = IF f \in focus THEN mem[p].live ELSE @]
          /\ mem' = [mem EXCEPT ![p].live = 0]
          /\ Goto(p, Tail(todo[p]))
    BY <1>3 DEF UpdateOne
  <2>2. todo' \in [Run -> Seq(Figures)] /\ stage' \in [Run -> Steps]
    BY <2>1, AtTyped, GotoTyped
  <2>3. mem' \in [Run -> Memory]
    <3>1. [mem[p] EXCEPT !.live = 0] \in Memory
      BY MemoryTyped DEF Memory
    <3> QED
      BY <2>1, <3>1, KeptTyped
  <2>4. figures' \in [LiveFigures -> Nat]
    BY <2>1, MemoryTyped DEF TypeOK
  <2> QED
    BY <1>3, <2>2, <2>3, <2>4, TypedIf, Typed DEF UpdateOne
<1>4. CASE FindOne(p)
  <2>1. PICK f \in HistoryFigures : mem' = [mem EXCEPT ![p].rec = record[f]]
    BY <1>4 DEF FindOne
  <2>2. record[f] \in Record
    BY DEF TypeOK
  <2>3. mem' \in [Run -> Memory]
    <3>1. [mem[p] EXCEPT !.rec = record[f]] \in Memory
      BY <2>2, MemoryTyped DEF Memory
    <3> QED
      BY <2>1, <3>1, KeptTyped
  <2>4. stage' \in [Run -> Steps]
    BY <1>4 DEF FindOne, TypeOK, Steps
  <2> QED
    BY <1>4, <2>3, <2>4, TypedIf, Typed DEF FindOne
<1>5. CASE Call(p)
  <2>1. PICK f \in HistoryFigures, view \in {db, before} :
          /\ At(p, f, "call") /\ Read(view)
          /\ LET rec == mem[p].rec
                 found == HistoryCount(view, f, rec.at)
             IN  IF rec = NoRecord \/ Cardinality(found) > rec.n
                   THEN /\ mem' = [mem EXCEPT ![p].rec = NoRecord,
                                        ![p].total = rec.count + Cardinality(found) - rec.n,
                                        ![p].twice = mem[p].inLatest[f]
                                                     \cap In(view, "history", Counted[f])]
                        /\ stage' = [stage EXCEPT ![p] = "upto"]
                        /\ UNCHANGED todo
                   ELSE /\ mem' = [mem EXCEPT ![p].rec = NoRecord, ![p].inLatest[f] = {}]
                        /\ Goto(p, Tail(todo[p]))
          /\ UNCHANGED <<focus, life, env, figures, record, manuals, reader>>
    BY <1>5 DEF Call
  <2>2. stale' \in BOOLEAN /\ faults' \in Nat
    BY <2>1, ReadTyped
  <2> DEFINE rec == mem[p].rec
             found == HistoryCount(view, f, rec.at)
  <2>3. found \in SUBSET Doc /\ Cardinality(found) \in Nat
    <3>1. found \in SUBSET Doc
      BY DEF HistoryCount
    <3> QED
      BY <3>1, DocsFinite
  <2>4. rec \in Record /\ rec.count \in Nat /\ rec.n \in Nat
    BY MemoryTyped DEF Record
  <2>5. NoRecord.n = 0 /\ NoRecord.count = 0 /\ NoRecord \in Record
    BY FreshTyped DEF NoRecord
  <2>6. CASE rec = NoRecord \/ Cardinality(found) > rec.n
    <3> DEFINE total == rec.count + Cardinality(found) - rec.n
               twice == mem[p].inLatest[f] \cap In(view, "history", Counted[f])
    <3>1. total \in Nat
      BY <2>3, <2>4, <2>5, <2>6
    <3>2. twice \in SUBSET Doc
      BY DEF In
    <3> DEFINE m == [mem[p] EXCEPT !.rec = NoRecord, !.total = total, !.twice = twice]
    <3>3. mem' = [mem EXCEPT ![p] = m]
      BY <2>1, <2>6
    <3>4. mem' \in [Run -> Memory]
      <4>1. m \in Memory
        <5> HIDE DEF total, twice
        <5> QED
          BY <2>5, <3>1, <3>2, MemoryTyped DEF Memory
      <4> QED
        BY <3>3, <4>1, KeptTyped
    <3>5. stage' \in [Run -> Steps]
      BY <2>1, <2>6 DEF TypeOK, Steps
    <3> QED
      BY <2>1, <2>2, <2>6, <3>4, <3>5, TypedIf, Typed
  <2>7. CASE ~(rec = NoRecord \/ Cardinality(found) > rec.n)
    <3>1. mem' = [mem EXCEPT ![p].rec = NoRecord, ![p].inLatest[f] = {}]
      BY <2>1, <2>7
    <3>2. mem' \in [Run -> Memory]
      <4> DEFINE m == [mem[p] EXCEPT !.rec = NoRecord,
                                     !.inLatest = [mem[p].inLatest EXCEPT ![f] = {}]]
      <4>1. m \in Memory
        BY <2>5, MemoryTyped DEF Memory
      <4>2. mem' = [mem EXCEPT ![p] = m]
        BY <3>1, MemoryTyped DEF Memory
      <4> QED
        BY <4>1, <4>2, KeptTyped
    <3>3. todo' \in [Run -> Seq(Figures)] /\ stage' \in [Run -> Steps]
      BY <2>1, <2>7, AtTyped, GotoTyped
    <3> QED
      BY <2>1, <2>2, <3>2, <3>3, TypedIf, Typed
  <2> QED
    BY <2>6, <2>7
<1>6. CASE Upto(p)
  <2>1. PICK f \in HistoryFigures, view \in {db, before} :
          /\ At(p, f, "upto") /\ Read(view)
          /\ IF CreateAts(view) = {}
               THEN mem' = [mem EXCEPT ![p] = Fresh] /\ Goto(p, <<>>)
               ELSE /\ mem' = [mem EXCEPT ![p].at = Latest(CreateAts(view))]
                    /\ stage' = [stage EXCEPT ![p] = "record"]
                    /\ UNCHANGED todo
          /\ UNCHANGED <<focus, life, env, figures, record, manuals, reader>>
    BY <1>6 DEF Upto
  <2>2. stale' \in BOOLEAN /\ faults' \in Nat
    BY <2>1, ReadTyped
  <2>3. CASE CreateAts(view) = {}
    <3>1. mem' \in [Run -> Memory]
      BY <2>1, <2>3, FreshTyped DEF TypeOK
    <3>2. todo' \in [Run -> Seq(Figures)] /\ stage' \in [Run -> Steps]
      <4>1. <<>> \in Seq(Figures)
        OBVIOUS
      <4> QED
        BY <2>1, <2>3, <4>1, GotoTyped
    <3> QED
      BY <2>1, <2>2, <3>1, <3>2, TypedIf, Typed
  <2>4. CASE CreateAts(view) # {}
    <3>1. Latest(CreateAts(view)) \in Nat
      BY <2>4, LatestTyped
    <3>2. mem' \in [Run -> Memory]
      <4>1. [mem[p] EXCEPT !.at = Latest(CreateAts(view))] \in Memory
        BY <3>1, MemoryTyped DEF Memory
      <4> QED
        BY <2>1, <2>4, <4>1, KeptTyped
    <3>3. stage' \in [Run -> Steps]
      BY <2>1, <2>4 DEF TypeOK, Steps
    <3> QED
      BY <2>1, <2>2, <2>4, <3>2, <3>3, TypedIf, Typed
  <2> QED
    BY <2>3, <2>4
<1>7. CASE CallRecord(p)
  <2>1. PICK f \in HistoryFigures, view \in {db, before} :
          /\ Read(view)
          /\ mem' = [mem EXCEPT ![p].n = Cardinality(HistoryCountAt(view, f, mem[p].at))]
    BY <1>7 DEF CallRecord
  <2>2. stale' \in BOOLEAN /\ faults' \in Nat
    BY <2>1, ReadTyped
  <2>3. HistoryCountAt(view, f, mem[p].at) \in SUBSET Doc
    BY DEF HistoryCountAt
  <2>4. mem' \in [Run -> Memory]
    <3>1. [mem[p] EXCEPT !.n = Cardinality(HistoryCountAt(view, f, mem[p].at))] \in Memory
      BY <2>3, DocsFinite, MemoryTyped DEF Memory
    <3> QED
      BY <2>1, <3>1, KeptTyped
  <2>5. stage' \in [Run -> Steps]
    BY <1>7 DEF CallRecord, TypeOK, Steps
  <2> QED
    BY <1>7, <2>2, <2>4, <2>5, TypedIf, Typed DEF CallRecord
<1>8. CASE UpdateOneIncre(p)
  <2>1. PICK f \in HistoryFigures :
          /\ At(p, f, "write")
          /\ record' = [record EXCEPT ![f] =
               [count |-> mem[p].total, latest |-> Cardinality(mem[p].inLatest[f]),
                at |-> mem[p].at, n |-> mem[p].n, twice |-> mem[p].twice]]
          /\ mem' = [mem EXCEPT ![p] =
               [Fresh EXCEPT !.inLatest = [mem[p].inLatest EXCEPT ![f] = {}]]]
          /\ Goto(p, Tail(todo[p]))
    BY <1>8 DEF UpdateOneIncre
  <2>2. todo' \in [Run -> Seq(Figures)] /\ stage' \in [Run -> Steps]
    BY <2>1, AtTyped, GotoTyped
  <2>3. mem' \in [Run -> Memory]
    <3>1. [mem[p].inLatest EXCEPT ![f] = {}] \in [HistoryFigures -> SUBSET Doc]
      BY MemoryTyped
    <3>2. [Fresh EXCEPT !.inLatest = [mem[p].inLatest EXCEPT ![f] = {}]] \in Memory
      BY <3>1, FreshTyped DEF Memory
    <3> QED
      BY <2>1, <3>2 DEF TypeOK
  <2>4. record' \in [HistoryFigures -> Record]
    <3>1. mem[p].inLatest[f] \in SUBSET Doc
      BY MemoryTyped
    <3>2. Cardinality(mem[p].inLatest[f]) \in Nat
      BY <3>1, DocsFinite
    <3>3. [count |-> mem[p].total, latest |-> Cardinality(mem[p].inLatest[f]),
           at |-> mem[p].at, n |-> mem[p].n, twice |-> mem[p].twice] \in Record
      BY <3>2, MemoryTyped DEF Record
    <3> QED
      BY <2>1, <3>3 DEF TypeOK
  <2> QED
    BY <1>8, <2>2, <2>3, <2>4, TypedIf, Typed DEF UpdateOneIncre
<1>9. CASE Abort(p)
  <2>1. todo' \in [Run -> Seq(Figures)] /\ stage' \in [Run -> Steps]
    <3>1. <<>> \in Seq(Figures)
      OBVIOUS
    <3> QED
      BY <1>9, <3>1, GotoTyped DEF Abort
  <2>2. mem' \in [Run -> Memory]
    BY <1>9, FreshTyped DEF Abort, TypeOK
  <2>3. faults' \in Nat
    BY <1>9 DEF Abort, TypeOK
  <2> QED
    BY <1>9, <2>1, <2>2, <2>3, TypedIf, Typed DEF Abort
<1> QED
  BY <1>1, <1>2, <1>3, <1>4, <1>5, <1>6, <1>7, <1>8, <1>9 DEF RunStep

LEMMA ReadersTyped ==
  ASSUME TypeOK, Readers
  PROVE  TypeOK'
<1>1. reader' \in Reader
  <2>1. reader \in Reader
    BY TypedIf, Typed
  <2>2. CASE TransferTxs
    <3>1. PICK view \in {db, before}, query \in Queries :
            reader' = [what |-> IF Cardinality(Page(view, query, reader.page)) < PageSize
                                  THEN "listed" ELSE "pages",
                       query |-> query, page |-> reader.page + 1,
                       seen |-> reader.seen \cup Page(view, query, reader.page),
                       kept |-> LET useful == {d \in Found(db, query) :
                                      carried.step # "find" => TxTime[d] >= TxTime[carried.doc]}
                                IN  IF reader.page = 0 THEN useful ELSE reader.kept \cap useful,
                       doc |-> NoDoc]
      BY <2>2 DEF TransferTxs
    <3>2. Found(db, query) \in SUBSET Doc /\ Page(view, query, reader.page) \in SUBSET Doc
      BY DEF Found, In, Page
    <3> QED
      BY <2>1, <3>1, <3>2 DEF Reader, Kinds
  <2>3. ASSUME NEW d \in Doc, TxDetailLatest(d)
        PROVE  reader' \in Reader
    BY <2>3, FreshTyped DEF TxDetailLatest, Reader, Kinds
  <2>4. CASE TxDetailHistory
    BY <2>1, <2>4, FreshTyped DEF TxDetailHistory, Reader, Kinds
  <2>5. CASE Leave
    BY <2>5, FreshTyped DEF Leave
  <2> QED
    BY <2>2, <2>3, <2>4, <2>5 DEF Readers
<1>2. stale' \in BOOLEAN /\ faults' \in Nat
  <2>1. CASE Leave
    BY <2>1 DEF Leave, TypeOK
  <2>2. CASE \E view \in {db, before} : Read(view)
    BY <2>2, ReadTyped
  <2> QED
    BY <2>1, <2>2 DEF Readers, TransferTxs, TxDetailLatest, TxDetailHistory
<1>3. UNCHANGED <<focus, life, env, task>>
  BY DEF Readers, TransferTxs, TxDetailLatest, TxDetailHistory, Leave
<1> QED
  BY <1>1, <1>2, <1>3, TypedIf, Typed DEF env, task

LEMMA NextTyped == TypeOK /\ [Next]_vars => TypeOK'
<1>1. ASSUME TypeOK, UNCHANGED vars
      PROVE  TypeOK'
  BY <1>1 DEF TypeOK, vars
<1> QED
  BY <1>1, EnvironmentTyped, RunStepTyped, ReadersTyped DEF Next

\* A document has a status in the collection it is in, figures and the numbers
\* of the records are counts, and a run is at a step of a figure of its plan:
\* for any transfers and any runs of the task.
THEOREM TypeCorrect == Spec => []TypeOK
BY InitTyped, NextTyped, PTL DEF Spec

-----------------------------------------------------------------------------
(* The collections: what may become of a document. *)

LifeOK == \A d \in Doc : \A i \in 1 .. Len(life[d]) - 1 :
            life[d][i] \in {"Setting", "Processing"} /\ life[d][i + 1] # "Setting"

\* A document that was stored is in one of the collections, for it is in
\* ex_ibc_tx before it leaves ex_ibc_tx_latest.
CollInv ==
  /\ clock > 0
  /\ \A c \in Coll, d \in Doc : db[c][d] # "none" => db[c][d] \in reached[d]
  /\ \A d \in Doc : reached[d] # {} => created[d] > 0
  /\ \A d \in Doc : reached[d] # {} => db["latest"][d] # "none" \/ db["history"][d] # "none"
  /\ carried.step # "find" => /\ carried.doc \in Doc /\ carried.status \in Status
                              /\ created[carried.doc] > 0
  /\ carried.step = "delete" => db["history"][carried.doc] # "none"

Stored == TypeOK /\ LifeOK /\ CollInv

\* What no step undoes
Kept ==
  /\ \A d \in Doc : reached[d] \subseteq reached'[d]
  /\ \A d \in Doc : created[d] > 0 => created'[d] = created[d]
  /\ \A d \in Doc : created[d] > 0 /\ db["latest"][d] = "none" => db'["latest"][d] = "none"
  /\ \A d \in Doc : db["latest"][d] \in Useful => db'["latest"][d] \in Useful \cup {"none"}
  /\ \A f \in HistoryFigures, d \in Doc :
       db["history"][d] \in Counted[f] => db'["history"][d] \in Counted[f]

LEMMA PutDoes ==
  ASSUME TypeOK, NEW c \in Coll, NEW d \in Doc, NEW s, Put(c, d, s)
  PROVE  /\ db'[c][d] = s
         /\ \A b \in Coll, e \in Doc : b # c \/ e # d => db'[b][e] = db[b][e]
         /\ s # "none" => reached'[d] = reached[d] \cup {s}
         /\ \A e \in Doc : e # d => reached'[e] = reached[e]
BY DEF Put, TypeOK, Content

LEMMA InitStored == Init => Stored
<1> SUFFICES ASSUME Init
             PROVE  Stored
  OBVIOUS
<1>1. PICK c \in Cases : life = c.life
  BY DEF Init
<1>2. LifeOK
  BY <1>1, HomeAssumption DEF LifeOK
<1>3. CollInv
  BY DEF Init, CollInv, Empty, Coll
<1> QED
  BY <1>2, <1>3, InitTyped DEF Stored

LEMMA StatusNone == "none" \notin Status /\ Useful \subseteq Status /\ Status = Useful \cup {"Setting"}
BY DEF Status, Useful

\* One lemma for each action that writes a collection
LEMMA SyncStored ==
  ASSUME Stored, NEW d \in Doc, Sync(d)
  PROVE  CollInv' /\ Kept
<1>1. Head(life[d]) \in Status
  BY DEF Stored, TypeOK
<1>2. Put("latest", d, Head(life[d])) /\ created[d] = 0 /\ created' = [created EXCEPT ![d] = clock]
      /\ UNCHANGED <<clock, carried>>
  BY DEF Sync
<1>3. /\ db'["latest"][d] = Head(life[d])
      /\ \A b \in Coll, e \in Doc : b # "latest" \/ e # d => db'[b][e] = db[b][e]
      /\ reached'[d] = reached[d] \cup {Head(life[d])}
      /\ \A e \in Doc : e # d => reached'[e] = reached[e]
  BY <1>1, <1>2, PutDoes, StatusNone DEF Stored, Coll
<1>4. /\ created'[d] = clock /\ clock > 0
      /\ \A e \in Doc : e # d => created'[e] = created[e]
  BY <1>2 DEF Stored, TypeOK, CollInv
<1>5. db["latest"][d] = "none" /\ db["history"][d] = "none" /\ reached[d] = {}
  <2>1. reached[d] = {}
    BY <1>2 DEF Stored, CollInv
  <2> QED
    BY <2>1 DEF Stored, CollInv, Coll
<1>6. carried.step # "find" => carried.doc # d
  BY <1>2 DEF Stored, CollInv
<1>7. CollInv'
  BY <1>1, <1>2, <1>3, <1>4, <1>5, <1>6, StatusNone DEF Stored, CollInv, Coll
<1>8. Kept
  BY <1>2, <1>3, <1>4, <1>5, CountedUseful, StatusNone DEF Kept, Coll
<1> QED
  BY <1>7, <1>8

LEMMA ProgressStored ==
  ASSUME Stored, NEW d \in Doc, NEW c \in Coll, Progress(c, d)
  PROVE  CollInv' /\ Kept
<1>1. PICK i \in 1 .. Len(life[d]) - 1 : db[c][d] = life[d][i] /\ Put(c, d, life[d][i + 1])
  BY DEF Progress
<1> DEFINE s == life[d][i + 1]
<1>2. db[c][d] \in {"Setting", "Processing"} /\ s \in Useful
  <2>1. life[d] \in Seq(Status)
    BY DEF Stored, TypeOK
  <2>2. s \in Status
    BY <2>1
  <2> QED
    BY <1>1, <2>2, StatusNone DEF Stored, LifeOK
<1>s. Put(c, d, s)
  BY <1>1
<1> HIDE DEF s
<1>3. /\ db'[c][d] = s
      /\ \A b \in Coll, e \in Doc : b # c \/ e # d => db'[b][e] = db[b][e]
      /\ reached'[d] = reached[d] \cup {s}
      /\ \A e \in Doc : e # d => reached'[e] = reached[e]
  <2>1. TypeOK /\ s # "none"
    BY <1>2, StatusNone DEF Stored
  <2> QED
    BY <1>s, <2>1, PutDoes
<1>4. UNCHANGED <<clock, created, carried>>
  BY DEF Progress
<1>5. db[c][d] # "none" /\ s # "none" /\ reached[d] # {}
  BY <1>2, StatusNone DEF Stored, CollInv
<1>6. CollInv'
  BY <1>3, <1>4, <1>5 DEF Stored, CollInv, Coll
<1>7. Kept
  <2>1. \A f \in HistoryFigures : db[c][d] \in Counted[f] => s \in Counted[f]
    BY <1>2 DEF HistoryFigures, Counted
  <2> QED
    BY <1>2, <1>3, <1>4, <1>5, <2>1 DEF Kept, Coll
<1> QED
  BY <1>6, <1>7

LEMMA MigrateInsertStored ==
  ASSUME Stored, MigrateInsert
  PROVE  CollInv' /\ Kept
<1> DEFINE d == carried.doc
<1>1. d \in Doc /\ carried.status \in Status /\ created[d] > 0
  BY DEF Stored, CollInv, MigrateInsert
<1>2. /\ carried'.doc = d /\ carried'.step = "delete" /\ carried'.status = carried.status
      /\ UNCHANGED <<clock, created>>
  BY DEF MigrateInsert, Stored, TypeOK
<1>3. CASE db["history"][d] = "none"
  <2>1. Put("history", d, carried.status)
    BY <1>3 DEF MigrateInsert
  <2> HIDE DEF d
  <2>2. /\ db'["history"][d] = carried.status
        /\ \A b \in Coll, e \in Doc : b # "history" \/ e # d => db'[b][e] = db[b][e]
        /\ reached'[d] = reached[d] \cup {carried.status}
        /\ \A e \in Doc : e # d => reached'[e] = reached[e]
    BY <1>1, <2>1, PutDoes, StatusNone DEF Stored, Coll
  <2>3. CollInv'
    BY <1>1, <1>2, <2>2, StatusNone DEF Stored, CollInv, Coll
  <2>4. Kept
    BY <1>1, <1>2, <1>3, <2>2, CountedUseful, StatusNone DEF Kept, Coll
  <2> QED
    BY <2>3, <2>4
<1>4. CASE db["history"][d] # "none"
  <2>1. UNCHANGED <<db, reached>>
    BY <1>4 DEF MigrateInsert
  <2> HIDE DEF d
  <2> QED
    BY <1>1, <1>2, <1>4, <2>1 DEF Stored, CollInv, Kept
<1> QED
  BY <1>3, <1>4

LEMMA MigrateDeleteStored ==
  ASSUME Stored, MigrateDelete
  PROVE  CollInv' /\ Kept
<1> DEFINE d == carried.doc
<1>1. d \in Doc /\ db["history"][d] # "none"
  BY DEF Stored, CollInv, MigrateDelete
<1>2. Put("latest", d, "none") /\ carried'.step = "find" /\ UNCHANGED <<clock, created>>
  BY DEF MigrateDelete
<1> HIDE DEF d
<1>3. /\ db'["latest"][d] = "none"
      /\ \A b \in Coll, e \in Doc : b # "latest" \/ e # d => db'[b][e] = db[b][e]
      /\ \A e \in Doc : reached'[e] = reached[e]
  <2>1. \A e \in Doc : reached'[e] = reached[e]
    BY <1>2 DEF Put, Stored, TypeOK
  <2> QED
    BY <1>1, <1>2, <2>1, PutDoes DEF Stored, Coll
<1>4. CollInv'
  BY <1>1, <1>2, <1>3 DEF Stored, CollInv, Coll
<1>5. Kept
  BY <1>2, <1>3 DEF Kept, Coll
<1> QED
  BY <1>4, <1>5

LEMMA SameStored ==
  ASSUME Stored, UNCHANGED <<clock, created, db, reached>>,
         carried' = carried \/ carried'.step = "find"
  PROVE  CollInv' /\ Kept
BY DEF Stored, CollInv, Kept

LEMMA MigrateFindStored ==
  ASSUME Stored, MigrateFind
  PROVE  CollInv' /\ Kept
<1>1. PICK d \in Oldest(In(db, "latest", {"Setting"})) \cup Oldest(In(db, "latest", Useful)) :
        carried' = [doc |-> d, status |-> db["latest"][d], step |-> "insert"]
  BY DEF MigrateFind
<1>2. d \in Doc /\ db["latest"][d] \in Status
  BY <1>1, StatusNone DEF Oldest, In
<1>3. created[d] > 0
  BY <1>2, StatusNone DEF Stored, CollInv, Coll
<1> QED
  BY <1>1, <1>2, <1>3 DEF MigrateFind, Stored, CollInv, Kept

LEMMA NextStored == Stored /\ [Next]_vars => Stored' /\ Kept
<1> SUFFICES ASSUME Stored, [Next]_vars
             PROVE  Stored' /\ Kept
  OBVIOUS
<1>1. TypeOK'
  BY NextTyped DEF Stored
<1>2. LifeOK'
  <2>1. life' = life
    <3>1. CASE Environment
      BY <3>1 DEF Environment, Tick, DayPasses, Sync, Progress, MigrateFind, MigrateInsert,
                  MigrateDelete, MigrateFails
    <3>2. CASE Readers
      BY <3>2 DEF Readers, TransferTxs, TxDetailLatest, TxDetailHistory, Leave
    <3>3. ASSUME NEW p \in Run, RunStep(p) \/ Abort(p)
          PROVE  life' = life
      BY <3>3 DEF RunStep, Start, Count, UpdateOne, FindOne, Call, Upto, CallRecord,
                  UpdateOneIncre, Abort
    <3> QED
      BY <3>1, <3>2, <3>3 DEF Next, vars
  <2> QED
    BY <2>1 DEF LifeOK, Stored
<1>3. CollInv' /\ Kept
  <2>1. CASE Environment
    <3>1. CASE Tick
      BY <3>1 DEF Tick, Stored, CollInv, Kept, TypeOK
    <3>2. CASE DayPasses
      BY <3>2, SameStored DEF DayPasses
    <3>3. CASE MigrateFails
      <4>1. carried'.step = "find"
        BY <3>3 DEF MigrateFails
      <4> QED
        BY <3>3, <4>1, SameStored DEF MigrateFails
    <3> QED
      BY <2>1, <3>1, <3>2, <3>3, SyncStored, ProgressStored, MigrateFindStored,
         MigrateInsertStored, MigrateDeleteStored DEF Environment
  <2>2. CASE Readers
    BY <2>2, SameStored DEF Readers, TransferTxs, TxDetailLatest, TxDetailHistory, Leave, env
  <2>3. ASSUME NEW p \in Run, RunStep(p) \/ Abort(p)
        PROVE  CollInv' /\ Kept
    <3>1. UNCHANGED env
      BY <2>3 DEF RunStep, Start, Count, UpdateOne, FindOne, Call, Upto, CallRecord,
                  UpdateOneIncre, Abort
    <3> QED
      BY <3>1, SameStored DEF env
  <2>4. CASE UNCHANGED vars
    BY <2>4, SameStored DEF vars
  <2> QED
    BY <2>1, <2>2, <2>3, <2>4 DEF Next
<1> QED
  BY <1>1, <1>2, <1>3 DEF Stored

\* A query that leaves no trace of an older state was answered with the present.
LEMMA ReadFresh ==
  ASSUME NEW view, Read(view), ~stale'
  PROVE  view = db /\ ~stale
BY DEF Read

\* No step takes back that an older state was read.
LEMMA StaleStays == TypeOK /\ [Next]_vars /\ ~stale' => ~stale
<1> SUFFICES ASSUME TypeOK, [Next]_vars, stale' # stale
             PROVE  stale'
  BY DEF TypeOK
<1>1. CASE \E view : Read(view)
  BY <1>1 DEF Read
<1>2. CASE Environment
  BY <1>2 DEF Environment, Tick, DayPasses, Sync, Progress, MigrateFind, MigrateInsert,
              MigrateDelete, MigrateFails
<1>3. CASE Readers
  BY <1>1, <1>3 DEF Readers, TransferTxs, TxDetailLatest, TxDetailHistory, Leave
<1>4. ASSUME NEW p \in Run, RunStep(p) \/ Abort(p)
      PROVE  stale'
  BY <1>1, <1>4 DEF RunStep, Start, Count, UpdateOne, FindOne, Call, Upto, CallRecord,
                    UpdateOneIncre, Abort
<1> QED
  BY <1>2, <1>3, <1>4 DEF Next, vars

-----------------------------------------------------------------------------
(* A transfer is found by its hash. *)

\* The transfer that was not in ex_ibc_tx_latest has left it, and will not be
\* back, or was in status Setting in one of the collections.
FoundInv ==
  /\ reader.what = "idle" => reader = NoReader
  /\ ~stale /\ reader.what = "detail" =>
       /\ reader.doc \in Doc /\ reached[reader.doc] # {}
       /\ "Setting" \in reached[reader.doc] \/ db["latest"][reader.doc] = "none"
  /\ ~stale /\ reader.what = "missing" =>
       reader.doc \in Doc /\ "Setting" \in reached[reader.doc]

LEMMA FoundStep ==
  ASSUME Stored, FoundInv, [Next]_vars
  PROVE  FoundInv'
<1>1. Stored' /\ Kept
  BY NextStored
<1>2. CASE UNCHANGED reader
  <2>1. ~stale' => ~stale
    BY StaleStays DEF Stored
  <2>2. \A d \in Doc : reached[d] # {} => created[d] > 0
    BY DEF Stored, CollInv
  <2> QED
    BY <1>1, <1>2, <2>1, <2>2 DEF FoundInv, Kept
<1>3. CASE TransferTxs
  <2>1. reader'.what \in {"listed", "pages"}
    BY <1>3 DEF TransferTxs
  <2> QED
    BY <2>1 DEF FoundInv
<1>4. ASSUME NEW d \in Doc, TxDetailLatest(d)
      PROVE  FoundInv'
  <2>1. PICK view \in {db, before} :
          /\ Read(view)
          /\ reader' = IF d \in In(view, "latest", Useful)
                         THEN NoReader
                         ELSE [NoReader EXCEPT !.what = "detail", !.doc = d]
    BY <1>4 DEF TxDetailLatest
  <2>2. UNCHANGED <<db, reached>> /\ reached[d] # {}
    BY <1>4 DEF TxDetailLatest, env
  <2>3. CASE d \in In(view, "latest", Useful)
    BY <2>1, <2>3 DEF FoundInv, NoReader
  <2>4. CASE d \notin In(view, "latest", Useful)
    <3>1. /\ reader'.what = "detail" /\ reader'.doc = d
      BY <2>1, <2>4 DEF NoReader
    <3>2. ~stale' => "Setting" \in reached[d] \/ db["latest"][d] = "none"
      <4> SUFFICES ASSUME ~stale', db["latest"][d] # "none"
                   PROVE  "Setting" \in reached[d]
        OBVIOUS
      <4>1. view = db
        BY <2>1, ReadFresh
      <4>2. db["latest"][d] \in Status \cup {"none"} /\ db["latest"][d] \notin Useful
        BY <2>4, <4>1, ContentTyped DEF Stored, TypeOK, In, Coll
      <4>3. db["latest"][d] = "Setting"
        BY <4>2, StatusNone
      <4> QED
        BY <4>3 DEF Stored, CollInv, Coll
    <3> QED
      BY <2>2, <3>1, <3>2 DEF FoundInv
  <2> QED
    BY <2>3, <2>4
<1>5. CASE TxDetailHistory
  <2>1. PICK view \in {db, before} :
          /\ Read(view)
          /\ reader' = IF reader.doc \in In(view, "history", Useful)
                         THEN NoReader ELSE [reader EXCEPT !.what = "missing"]
    BY <1>5 DEF TxDetailHistory
  <2>2. UNCHANGED <<db, reached>> /\ reader.what = "detail"
    BY <1>5 DEF TxDetailHistory, env
  <2>3. CASE reader.doc \in In(view, "history", Useful)
    BY <2>1, <2>3 DEF FoundInv, NoReader
  <2>4. CASE reader.doc \notin In(view, "history", Useful)
    <3>1. reader'.what = "missing" /\ reader'.doc = reader.doc
      BY <2>1, <2>4, Typed DEF Stored, Reader
    <3>2. ~stale' => reader.doc \in Doc /\ "Setting" \in reached[reader.doc]
      <4> SUFFICES ASSUME ~stale'
                   PROVE  reader.doc \in Doc /\ "Setting" \in reached[reader.doc]
        OBVIOUS
      <4>1. view = db /\ ~stale
        BY <2>1, ReadFresh
      <4>2. PICK d \in Doc : d = reader.doc
        BY <2>2, <4>1 DEF FoundInv
      <4>3. SUFFICES ASSUME "Setting" \notin reached[d]
                     PROVE  FALSE
        BY <4>2
      <4>4. reached[d] # {} /\ db["latest"][d] = "none"
        BY <2>2, <4>1, <4>2, <4>3 DEF FoundInv
      <4>5. db["history"][d] \in Status \cup {"none"} /\ db["history"][d] \notin Useful
        BY <2>4, <4>1, <4>2, ContentTyped DEF Stored, TypeOK, In, Coll
      <4>6. db["history"][d] = "Setting"
        BY <4>4, <4>5, StatusNone DEF Stored, CollInv
      <4> QED
        BY <4>3, <4>6 DEF Stored, CollInv, Coll
    <3> QED
      BY <2>2, <3>1, <3>2 DEF FoundInv
  <2> QED
    BY <2>3, <2>4
<1>6. CASE Leave
  BY <1>6 DEF Leave, FoundInv, NoReader
<1>7. CASE Environment
  BY <1>2, <1>7 DEF Environment, Tick, DayPasses, Sync, Progress, MigrateFind, MigrateInsert,
                    MigrateDelete, MigrateFails
<1>8. ASSUME NEW p \in Run, RunStep(p) \/ Abort(p)
      PROVE  FoundInv'
  BY <1>2, <1>8 DEF RunStep, Start, Count, UpdateOne, FindOne, Call, Upto, CallRecord,
                    UpdateOneIncre, Abort
<1> QED
  BY <1>2, <1>3, <1>4, <1>5, <1>6, <1>7, <1>8 DEF Next, Readers, vars

\* A transfer is found by its hash while it is moved, for any transfers, any
\* statuses they go through, and any failures of the migrate task: unless it was
\* moved in status Setting or a replica lags (TransferTxDetailNew, Migrate).
THEOREM TransferIsFound == Spec => []StoredIsFound
<1>1. Init => FoundInv
  BY DEF Init, FoundInv, NoReader
<1>2. Stored /\ FoundInv /\ [Next]_vars => (Stored /\ FoundInv)'
  BY NextStored, FoundStep
<1>3. FoundInv => StoredIsFound
  BY DEF FoundInv, StoredIsFound
<1> QED
  BY <1>1, <1>2, <1>3, InitStored, PTL DEF Spec

-----------------------------------------------------------------------------
(* The figures of all transfers. *)

Reached(f) == {d \in Doc : reached[d] \cap Counted[f] # {}}
InHistory(f) == In(db, "history", Counted[f])
Before(f, t) == {d \in InHistory(f) : created[d] < t}
JustAt(f, t) == {d \in InHistory(f) : created[d] = t}

\* A count that stands for the documents of ex_ibc_tx created before a time and
\* n of those created just then
Covers(f, count, at, n) ==
  n <= Cardinality(JustAt(f, at)) /\ count <= Cardinality(Before(f, at)) + n

\* A run that is not at the increment of a figure has no record in hand.
RunInv ==
  \A p \in Run : /\ todo[p] = <<>> => stage[p] = "count"
                 /\ stage[p] # "call" => mem[p].rec = NoRecord

\* What run p has in hand of figure f, query by query
HandInv(p, f) ==
  /\ mem[p].inLatest[f] \subseteq Reached(f)
  /\ At(p, f, "call") => Covers(f, mem[p].rec.count, mem[p].rec.at, mem[p].rec.n)
  /\ At(p, f, "upto") => mem[p].total <= Cardinality(InHistory(f))
  /\ At(p, f, "record") =>
       mem[p].total <= Cardinality(Before(f, mem[p].at)) + Cardinality(JustAt(f, mem[p].at))
  /\ At(p, f, "write") => Covers(f, mem[p].total, mem[p].at, mem[p].n)
  /\ At(p, f, "upto") \/ At(p, f, "record") \/ At(p, f, "write") =>
       mem[p].total + Cardinality(mem[p].inLatest[f])
         <= Cardinality(Reached(f)) + Cardinality(mem[p].twice)

\* What is stored of it
RecordInv(f) ==
  /\ Covers(f, record[f].count, record[f].at, record[f].n)
  /\ Shown(f) <= Cardinality(Reached(f)) + Cardinality(record[f].twice)

CountInv == RunInv /\ (~stale => \A f \in HistoryFigures :
                                   RecordInv(f) /\ \A p \in Run : HandInv(p, f))

LEMMA SetsOfDocs ==
  ASSUME NEW f, NEW t
  PROVE  /\ Reached(f) \in SUBSET Doc /\ InHistory(f) \in SUBSET Doc
         /\ Before(f, t) \in SUBSET Doc /\ JustAt(f, t) \in SUBSET Doc
BY DEF Reached, InHistory, Before, JustAt, In

LEMMA Larger ==
  ASSUME NEW S \in SUBSET Doc, NEW T \in SUBSET Doc, S \subseteq T
  PROVE  Cardinality(S) \in Nat /\ Cardinality(T) \in Nat /\ Cardinality(S) <= Cardinality(T)
BY DocsFinite, FS_Subset

\* Two sets with no document in common are no larger than one that has both.
LEMMA Disjoint ==
  ASSUME NEW S \in SUBSET Doc, NEW T \in SUBSET Doc, NEW U \in SUBSET Doc,
         S \cap T = {}, S \cup T \subseteq U
  PROVE  Cardinality(S) + Cardinality(T) <= Cardinality(U)
<1>1. IsFiniteSet(S) /\ IsFiniteSet(T) /\ Cardinality(S) \in Nat /\ Cardinality(T) \in Nat
  BY DocsFinite
<1>2. Cardinality(S \cup T) = Cardinality(S) + Cardinality(T)
  BY <1>1, FS_Union, FS_EmptySet
<1>3. S \cup T \in SUBSET Doc
  OBVIOUS
<1> QED
  BY <1>2, <1>3, Larger

\* What is of the history, or has been in either collection, only gets more.
LEMMA SetsGrow ==
  ASSUME Stored, [Next]_vars, NEW f \in HistoryFigures, NEW t
  PROVE  /\ Reached(f) \subseteq Reached(f)' /\ InHistory(f) \subseteq InHistory(f)'
         /\ Before(f, t) \subseteq {d \in InHistory(f)' : created'[d] < t}
         /\ JustAt(f, t) \subseteq {d \in InHistory(f)' : created'[d] = t}
<1>1. Kept
  BY NextStored
<1>2. \A d \in InHistory(f) : db["history"][d] \in Counted[f] /\ created[d] > 0
  BY CountedUseful, StatusNone DEF InHistory, In, Stored, CollInv, Coll
<1>3. Reached(f) \subseteq Reached(f)'
  BY <1>1 DEF Reached, Kept
<1>4. InHistory(f) \subseteq InHistory(f)'
  BY <1>1 DEF Kept, InHistory, In
<1>5. \A d \in InHistory(f) : created'[d] = created[d]
  BY <1>1, <1>2 DEF Kept, InHistory, In
<1> QED
  BY <1>3, <1>4, <1>5 DEF Before, JustAt

LEMMA ReachedGrow ==
  ASSUME Stored, [Next]_vars, NEW f \in HistoryFigures
  PROVE  /\ Cardinality(Reached(f)) \in Nat /\ Cardinality(Reached(f)') \in Nat
         /\ Cardinality(Reached(f)) <= Cardinality(Reached(f)')
         /\ Cardinality(InHistory(f)) \in Nat /\ Cardinality(InHistory(f)') \in Nat
         /\ Cardinality(InHistory(f)) <= Cardinality(InHistory(f)')
<1>1. /\ Reached(f)' \in SUBSET Doc /\ InHistory(f)' \in SUBSET Doc
  BY DEF Reached, InHistory, In
<1>2. /\ Reached(f) \subseteq Reached(f)' /\ InHistory(f) \subseteq InHistory(f)'
  BY SetsGrow
<1>3. /\ Reached(f) \in SUBSET Doc /\ InHistory(f) \in SUBSET Doc
  BY SetsOfDocs
<1> QED
  BY <1>1, <1>2, <1>3, Larger

LEMMA CountsGrow ==
  ASSUME Stored, [Next]_vars, NEW f \in HistoryFigures, NEW t
  PROVE  /\ Cardinality(Before(f, t)) \in Nat
         /\ Cardinality({d \in InHistory(f)' : created'[d] < t}) \in Nat
         /\ Cardinality(Before(f, t)) <= Cardinality({d \in InHistory(f)' : created'[d] < t})
         /\ Cardinality(JustAt(f, t)) \in Nat
         /\ Cardinality({d \in InHistory(f)' : created'[d] = t}) \in Nat
         /\ Cardinality(JustAt(f, t)) <= Cardinality({d \in InHistory(f)' : created'[d] = t})
<1>1. InHistory(f)' \in SUBSET Doc
  BY DEF InHistory, In
<1> DEFINE before_ == {d \in InHistory(f)' : created'[d] < t}
           just == {d \in InHistory(f)' : created'[d] = t}
<1>2. before_ \in SUBSET Doc /\ just \in SUBSET Doc
  BY <1>1
<1>3. Before(f, t) \subseteq before_ /\ JustAt(f, t) \subseteq just
  BY SetsGrow
<1>4. Before(f, t) \in SUBSET Doc /\ JustAt(f, t) \in SUBSET Doc
  BY SetsOfDocs
<1> HIDE DEF before_, just
<1>5. Cardinality(Before(f, t)) \in Nat /\ Cardinality(before_) \in Nat
      /\ Cardinality(Before(f, t)) <= Cardinality(before_)
  BY <1>2, <1>3, <1>4, Larger
<1>6. Cardinality(JustAt(f, t)) \in Nat /\ Cardinality(just) \in Nat
      /\ Cardinality(JustAt(f, t)) <= Cardinality(just)
  BY <1>2, <1>3, <1>4, Larger
<1> QED
  BY <1>5, <1>6 DEF before_, just

\* What a count covered it goes on covering.
LEMMA CoversStays ==
  ASSUME Stored, [Next]_vars, NEW f \in HistoryFigures, NEW count \in Nat, NEW at \in Nat,
         NEW n \in Nat, Covers(f, count, at, n)
  PROVE  Covers(f, count, at, n)'
<1> DEFINE just == {d \in InHistory(f)' : created'[d] = at}
           before_ == {d \in InHistory(f)' : created'[d] < at}
<1>1. /\ JustAt(f, at)' = just /\ Before(f, at)' = before_
  BY DEF JustAt, Before
<1>2. /\ Cardinality(just) \in Nat /\ Cardinality(JustAt(f, at)) <= Cardinality(just)
      /\ Cardinality(before_) \in Nat /\ Cardinality(Before(f, at)) <= Cardinality(before_)
      /\ Cardinality(JustAt(f, at)) \in Nat /\ Cardinality(Before(f, at)) \in Nat
  BY CountsGrow
<1>3. n <= Cardinality(JustAt(f, at)) /\ count <= Cardinality(Before(f, at)) + n
  BY DEF Covers
<1> HIDE DEF just, before_
<1>4. n <= Cardinality(just) /\ count <= Cardinality(before_) + n
  BY <1>2, <1>3
<1> QED
  BY <1>1, <1>4 DEF Covers

\* A run that is at a figure is not at another one.
LEMMA GotoDoes ==
  ASSUME TypeOK, NEW p \in Run, NEW figs \in Seq(Figures), Goto(p, figs)
  PROVE  /\ todo'[p] = figs /\ stage'[p] \in {"count", "find", "call"}
         /\ figs = <<>> => stage'[p] = "count"
         /\ \A q \in Run : q # p => todo'[q] = todo[q] /\ stage'[q] = stage[q]
BY DEF Goto, First, TypeOK

LEMMA NextAt ==
  ASSUME NEW p, NEW f, NEW s
  PROVE  At(p, f, s)' <=> todo'[p] # <<>> /\ Head(todo'[p]) = f /\ stage'[p] = s
BY DEF At, Figure

\* The other run, and either one while the collections change, keeps what it has.
LEMMA HandSame ==
  ASSUME Stored, [Next]_vars, NEW p \in Run, NEW f \in HistoryFigures, HandInv(p, f),
         todo'[p] = todo[p], stage'[p] = stage[p], mem'[p] = mem[p]
  PROVE  HandInv(p, f)'
<1>1. \A s : At(p, f, s)' <=> At(p, f, s)
  BY NextAt DEF At, Figure
<1>2. PICK m : m = mem[p]
  OBVIOUS
<1>3. /\ m.rec.count \in Nat /\ m.rec.at \in Nat /\ m.rec.n \in Nat /\ m.total \in Nat
      /\ m.at \in Nat /\ m.n \in Nat /\ m.inLatest[f] \in SUBSET Doc /\ m.twice \in SUBSET Doc
  BY <1>2, MemoryTyped DEF Stored, Record
<1>4. m.inLatest[f] \subseteq Reached(f)'
  BY <1>2, SetsGrow DEF HandInv
<1>5. At(p, f, "call") => Covers(f, m.rec.count, m.rec.at, m.rec.n)'
  BY <1>2, <1>3, CoversStays DEF HandInv
<1>6. At(p, f, "upto") => m.total <= Cardinality(InHistory(f)')
  BY <1>2, <1>3, ReachedGrow DEF HandInv
<1>7. At(p, f, "record") =>
        m.total <= Cardinality(Before(f, m.at)') + Cardinality(JustAt(f, m.at)')
  <2> DEFINE just == {d \in InHistory(f)' : created'[d] = m.at}
             before_ == {d \in InHistory(f)' : created'[d] < m.at}
  <2>1. /\ JustAt(f, m.at)' = just /\ Before(f, m.at)' = before_
    BY DEF JustAt, Before
  <2>2. /\ Cardinality(just) \in Nat /\ Cardinality(JustAt(f, m.at)) <= Cardinality(just)
        /\ Cardinality(before_) \in Nat /\ Cardinality(Before(f, m.at)) <= Cardinality(before_)
        /\ Cardinality(JustAt(f, m.at)) \in Nat /\ Cardinality(Before(f, m.at)) \in Nat
    BY CountsGrow
  <2>3. At(p, f, "record") =>
          m.total <= Cardinality(Before(f, m.at)) + Cardinality(JustAt(f, m.at))
    BY <1>2 DEF HandInv
  <2> HIDE DEF just, before_
  <2>4. At(p, f, "record") => m.total <= Cardinality(before_) + Cardinality(just)
    BY <1>3, <2>2, <2>3
  <2> QED
    BY <2>1, <2>4
<1>8. At(p, f, "write") => Covers(f, m.total, m.at, m.n)'
  BY <1>2, <1>3, CoversStays DEF HandInv
<1>9. At(p, f, "upto") \/ At(p, f, "record") \/ At(p, f, "write") =>
        m.total + Cardinality(m.inLatest[f]) <= Cardinality(Reached(f)') + Cardinality(m.twice)
  <2>1. Cardinality(m.inLatest[f]) \in Nat /\ Cardinality(m.twice) \in Nat
    BY <1>3, DocsFinite
  <2>2. At(p, f, "upto") \/ At(p, f, "record") \/ At(p, f, "write") =>
        m.total + Cardinality(m.inLatest[f]) <= Cardinality(Reached(f)) + Cardinality(m.twice)
    BY <1>2 DEF HandInv
  <2> QED
    BY <1>3, <2>1, <2>2, ReachedGrow
<1> HIDE DEF At
<1> QED
  BY <1>1, <1>2, <1>4, <1>5, <1>6, <1>7, <1>8, <1>9 DEF HandInv, Covers

LEMMA RecordSame ==
  ASSUME Stored, [Next]_vars, NEW f \in HistoryFigures, RecordInv(f), record'[f] = record[f]
  PROVE  RecordInv(f)'
<1>1. PICK r : r = record[f]
  OBVIOUS
<1>2. /\ r.count \in Nat /\ r.at \in Nat /\ r.n \in Nat /\ r.latest \in Nat /\ r.twice \in SUBSET Doc
  BY <1>1 DEF Stored, TypeOK, Record
<1>3. Covers(f, r.count, r.at, r.n)'
  BY <1>1, <1>2, CoversStays DEF RecordInv
<1>4. r.count + r.latest <= Cardinality(Reached(f)') + Cardinality(r.twice)
  <2>1. Cardinality(r.twice) \in Nat
    BY <1>2, DocsFinite
  <2>2. r.count + r.latest <= Cardinality(Reached(f)) + Cardinality(r.twice)
    BY <1>1 DEF RecordInv, Shown
  <2> QED
    BY <1>2, <2>1, <2>2, ReachedGrow
<1> QED
  BY <1>1, <1>3, <1>4 DEF RecordInv, Covers, Shown

\* Between the figures a run has nothing in hand but what ex_ibc_tx_latest had.
LEMMA HandAfterGoto ==
  ASSUME Stored, NEW p \in Run, NEW f \in HistoryFigures, NEW figs \in Seq(Figures),
         Goto(p, figs), mem'[p].rec = NoRecord, mem'[p].inLatest[f] \subseteq Reached(f)'
  PROVE  HandInv(p, f)'
<1>1. stage'[p] \in {"count", "find", "call"}
  BY GotoDoes DEF Stored
<1>2. ~At(p, f, "upto")' /\ ~At(p, f, "record")' /\ ~At(p, f, "write")'
  BY <1>1, NextAt
<1>3. Covers(f, 0, 0, 0)'
  <2> DEFINE just == JustAt(f, 0)'
             before_ == Before(f, 0)'
  <2>1. just \in SUBSET Doc /\ before_ \in SUBSET Doc
    BY DEF JustAt, Before, InHistory, In
  <2> HIDE DEF just, before_
  <2>2. Cardinality(just) \in Nat /\ Cardinality(before_) \in Nat
    BY <2>1, DocsFinite
  <2>3. 0 <= Cardinality(just) /\ 0 <= Cardinality(before_) + 0
    BY <2>2
  <2> QED
    BY <2>3 DEF Covers, just, before_
<1>4. mem'[p].rec.count = 0 /\ mem'[p].rec.at = 0 /\ mem'[p].rec.n = 0
  BY DEF NoRecord
<1>5. Covers(f, mem[p].rec.count, mem[p].rec.at, mem[p].rec.n)'
  BY <1>3, <1>4 DEF Covers
<1> QED
  BY <1>2, <1>5 DEF HandInv

\* While a run is at work the collections are as they were.
LEMMA SameSets ==
  ASSUME UNCHANGED env, NEW f
  PROVE  /\ Reached(f)' = Reached(f) /\ InHistory(f)' = InHistory(f)
         /\ \A t : Before(f, t)' = Before(f, t) /\ JustAt(f, t)' = JustAt(f, t)
         /\ \A count, at, n : Covers(f, count, at, n)' <=> Covers(f, count, at, n)
<1>1. UNCHANGED <<created, db, reached>>
  BY DEF env
<1>2. Reached(f)' = Reached(f) /\ InHistory(f)' = InHistory(f)
  BY <1>1 DEF Reached, InHistory, In
<1>3. \A t : Before(f, t)' = Before(f, t) /\ JustAt(f, t)' = JustAt(f, t)
  BY <1>1, <1>2 DEF Before, JustAt
<1> QED
  BY <1>2, <1>3 DEF Covers

LEMMA RunsApart ==
  ASSUME TypeOK, NEW p \in Run, RunStep(p) \/ Abort(p)
  PROVE  /\ UNCHANGED env
         /\ \A q \in Run : q # p => todo'[q] = todo[q] /\ stage'[q] = stage[q] /\ mem'[q] = mem[q]
<1>1. /\ todo \in [Run -> Seq(Figures)] /\ stage \in [Run -> Steps] /\ mem \in [Run -> Memory]
  BY Typed
<1>2. CASE Start(p)
  BY <1>1, <1>2 DEF Start, Goto
<1>3. CASE Count(p)
  BY <1>1, <1>3 DEF Count
<1>4. CASE UpdateOne(p)
  BY <1>1, <1>4 DEF UpdateOne, Goto
<1>5. CASE FindOne(p)
  BY <1>1, <1>5 DEF FindOne
<1>6. CASE Call(p)
  BY <1>1, <1>6 DEF Call, Goto
<1>7. CASE Upto(p)
  BY <1>1, <1>7 DEF Upto, Goto
<1>8. CASE CallRecord(p)
  BY <1>1, <1>8 DEF CallRecord
<1>9. CASE UpdateOneIncre(p)
  BY <1>1, <1>9 DEF UpdateOneIncre, Goto
<1>10. CASE Abort(p)
  BY <1>1, <1>10 DEF Abort, Goto
<1> QED
  BY <1>2, <1>3, <1>4, <1>5, <1>6, <1>7, <1>8, <1>9, <1>10 DEF RunStep

\* The states a run's own step may lead to: at the first step of a figure with
\* no record in hand, or further on with the same figure.
LEMMA RunInvStep ==
  ASSUME TypeOK, RunInv, NEW p \in Run, RunStep(p) \/ Abort(p)
  PROVE  RunInv'
<1>1. SUFFICES /\ todo'[p] = <<>> => stage'[p] = "count"
               /\ stage'[p] # "call" => mem'[p].rec = NoRecord
  BY RunsApart DEF RunInv
<1>2. /\ mem \in [Run -> Memory] /\ stage \in [Run -> Steps] /\ mem[p] \in Memory
  BY Typed
<1>3. ASSUME NEW figs \in Seq(Figures), Goto(p, figs)
      PROVE  todo'[p] = <<>> => stage'[p] = "count"
  BY <1>3, GotoDoes
<1>4. <<>> \in Seq(Figures)
  OBVIOUS
<1>5. CASE Start(p)
  <2>1. todo'[p] = <<>> => stage'[p] = "count"
    BY <1>3, <1>5, PlanTyped DEF Start
  <2> QED
    BY <1>5, <2>1 DEF Start, RunInv
<1>6. CASE Count(p)
  <2>1. PICK f \in LiveFigures : At(p, f, "count")
    BY <1>6 DEF Count
  <2>2. todo'[p] # <<>> /\ mem[p].rec = NoRecord
    BY <1>6, <2>1 DEF Count, At, RunInv
  <2>3. mem'[p].rec = mem[p].rec
    BY <1>2, <1>6 DEF Count, Memory
  <2> QED
    BY <2>2, <2>3
<1>7. CASE UpdateOne(p)
  <2>1. PICK f \in LiveFigures : At(p, f, "write") /\ Goto(p, Tail(todo[p]))
    BY <1>7 DEF UpdateOne
  <2>2. mem[p].rec = NoRecord
    BY <2>1 DEF At, RunInv
  <2>3. mem'[p].rec = mem[p].rec
    BY <1>2, <1>7 DEF UpdateOne, Memory
  <2>4. Tail(todo[p]) \in Seq(Figures)
    BY <2>1, AtTyped
  <2> QED
    BY <1>3, <2>1, <2>2, <2>3, <2>4
<1>8. CASE FindOne(p)
  <2>1. stage'[p] = "call" /\ todo'[p] # <<>>
    BY <1>2, <1>8 DEF FindOne, At
  <2> QED
    BY <2>1
<1>9. CASE Call(p)
  <2>1. PICK f \in HistoryFigures :
          /\ At(p, f, "call")
          /\ \/ stage' = [stage EXCEPT ![p] = "upto"] /\ UNCHANGED todo
             \/ Goto(p, Tail(todo[p]))
    BY <1>9 DEF Call
  <2>2. mem'[p].rec = NoRecord
    BY <1>2, <1>9 DEF Call, Memory
  <2>3. Tail(todo[p]) \in Seq(Figures)
    BY <2>1, AtTyped
  <2>4. CASE UNCHANGED todo
    BY <2>1, <2>2, <2>4 DEF At
  <2> QED
    BY <1>3, <2>1, <2>2, <2>3, <2>4
<1>10. CASE Upto(p)
  <2>1. PICK f \in HistoryFigures, view \in {db, before} :
          /\ At(p, f, "upto")
          /\ IF CreateAts(view) = {}
               THEN mem' = [mem EXCEPT ![p] = Fresh] /\ Goto(p, <<>>)
               ELSE /\ mem' = [mem EXCEPT ![p].at = Latest(CreateAts(view))]
                    /\ UNCHANGED todo
    BY <1>10 DEF Upto
  <2>2. CASE CreateAts(view) = {}
    <3>1. mem'[p].rec = NoRecord
      BY <1>2, <2>1, <2>2 DEF Fresh
    <3>2. Goto(p, <<>>)
      BY <2>1, <2>2
    <3> QED
      BY <1>3, <1>4, <3>1, <3>2
  <2>3. CASE CreateAts(view) # {}
    <3>1. mem'[p].rec = mem[p].rec /\ mem[p].rec = NoRecord
      BY <1>2, <2>1, <2>3 DEF Memory, At, RunInv
    <3> QED
      BY <2>1, <2>3, <3>1 DEF At
  <2> QED
    BY <2>2, <2>3
<1>11. CASE CallRecord(p)
  <2>1. PICK f \in HistoryFigures : At(p, f, "record")
    BY <1>11 DEF CallRecord
  <2>2. mem'[p].rec = mem[p].rec
    BY <1>2, <1>11 DEF CallRecord, Memory
  <2>3. UNCHANGED todo
    BY <1>11 DEF CallRecord
  <2> QED
    BY <2>1, <2>2, <2>3 DEF At, RunInv
<1>12. CASE UpdateOneIncre(p)
  <2>1. PICK f \in HistoryFigures : At(p, f, "write") /\ Goto(p, Tail(todo[p]))
    BY <1>12 DEF UpdateOneIncre
  <2>2. mem'[p].rec = NoRecord
    BY <1>2, <1>12 DEF UpdateOneIncre, Fresh
  <2>3. Tail(todo[p]) \in Seq(Figures)
    BY <2>1, AtTyped
  <2> QED
    BY <1>3, <2>1, <2>2, <2>3
<1>13. CASE Abort(p)
  <2>1. mem'[p].rec = NoRecord
    BY <1>2, <1>13 DEF Abort, Fresh
  <2> QED
    BY <1>3, <1>4, <1>13, <2>1 DEF Abort
<1> QED
  BY <1>5, <1>6, <1>7, <1>8, <1>9, <1>10, <1>11, <1>12, <1>13 DEF RunStep

\* A figure a run is at is the only one.
LEMMA OneFigure ==
  ASSUME NEW p, NEW f, NEW s, At(p, f, s)
  PROVE  /\ \A g, t : At(p, g, t) => g = f /\ t = s
         /\ todo[p] # <<>> /\ Head(todo[p]) = f /\ stage[p] = s
BY DEF At, Figure

\* What is new since the time of the record, and what is counted so far, are all
\* that is in the history.
LEMMA CallCounts ==
  ASSUME Stored, NEW f \in HistoryFigures, NEW count \in Nat, NEW at \in Nat, NEW n \in Nat,
         Covers(f, count, at, n)
  PROVE  count + Cardinality(HistoryCount(db, f, at)) - n <= Cardinality(InHistory(f))
<1> DEFINE found == HistoryCount(db, f, at)
<1>1. /\ found \in SUBSET Doc /\ Before(f, at) \in SUBSET Doc /\ InHistory(f) \in SUBSET Doc
      /\ JustAt(f, at) \in SUBSET Doc
  BY SetsOfDocs DEF HistoryCount
<1>2. found \cap Before(f, at) = {} /\ found \cup Before(f, at) \subseteq InHistory(f)
  BY DEF HistoryCount, Before, InHistory, In, Stored, TypeOK
<1> HIDE DEF found
<1>3. Cardinality(found) + Cardinality(Before(f, at)) <= Cardinality(InHistory(f))
  BY <1>1, <1>2, Disjoint
<1>4. /\ Cardinality(found) \in Nat /\ Cardinality(Before(f, at)) \in Nat
      /\ Cardinality(InHistory(f)) \in Nat
  BY <1>1, DocsFinite
<1>5. count <= Cardinality(Before(f, at)) + n
  BY DEF Covers
<1>6. count + Cardinality(found) - n <= Cardinality(InHistory(f))
  BY <1>3, <1>4, <1>5
<1> QED
  BY <1>6 DEF found

\* Those of ex_ibc_tx and those of ex_ibc_tx_latest: only what is in both is
\* counted twice.
LEMMA BothCount ==
  ASSUME Stored, NEW f \in HistoryFigures, NEW L \in SUBSET Doc, L \subseteq Reached(f),
         NEW total \in Nat, total <= Cardinality(InHistory(f))
  PROVE  total + Cardinality(L)
           <= Cardinality(Reached(f)) + Cardinality(L \cap In(db, "history", Counted[f]))
<1> DEFINE H == InHistory(f)
<1>1. H = In(db, "history", Counted[f])
  BY DEF InHistory
<1>2. H \in SUBSET Doc /\ Reached(f) \in SUBSET Doc
  BY SetsOfDocs
<1>3. H \subseteq Reached(f)
  BY CountedUseful, StatusNone DEF InHistory, In, Reached, Stored, CollInv, Coll
<1> HIDE DEF H
<1>4. /\ IsFiniteSet(L) /\ IsFiniteSet(H) /\ Cardinality(L) \in Nat /\ Cardinality(H) \in Nat
      /\ L \cap H \in SUBSET Doc /\ L \cup H \in SUBSET Doc /\ L \cup H \subseteq Reached(f)
  BY <1>2, <1>3, DocsFinite
<1>5. Cardinality(L \cup H) = Cardinality(L) + Cardinality(H) - Cardinality(L \cap H)
  BY <1>4, FS_Union
<1>6. Cardinality(L \cup H) \in Nat /\ Cardinality(L \cap H) \in Nat
      /\ Cardinality(Reached(f)) \in Nat /\ Cardinality(L \cup H) <= Cardinality(Reached(f))
  BY <1>2, <1>4, Larger, DocsFinite
<1>7. total <= Cardinality(H)
  BY DEF H
<1>8. total + Cardinality(L) <= Cardinality(Reached(f)) + Cardinality(L \cap H)
  BY <1>4, <1>5, <1>6, <1>7
<1> QED
  BY <1>1, <1>8

\* All that is in the history was created before the latest time, or then.
LEMMA UptoCounts ==
  ASSUME Stored, NEW f \in HistoryFigures, NEW at \in Nat, \A t \in CreateAts(db) : t <= at
  PROVE  Cardinality(InHistory(f)) <= Cardinality(Before(f, at)) + Cardinality(JustAt(f, at))
<1>1. InHistory(f) \subseteq Before(f, at) \cup JustAt(f, at)
  <2> SUFFICES ASSUME NEW d \in InHistory(f)
               PROVE  created[d] < at \/ created[d] = at
    BY DEF Before, JustAt
  <2>1. d \in Doc /\ db["history"][d] # "none"
    BY CountedUseful, StatusNone DEF InHistory, In
  <2>2. created[d] \in CreateAts(db) /\ created[d] \in Nat
    BY <2>1 DEF CreateAts, Stored, TypeOK
  <2> QED
    BY <2>2
<1>2. /\ InHistory(f) \in SUBSET Doc /\ Before(f, at) \in SUBSET Doc /\ JustAt(f, at) \in SUBSET Doc
  BY SetsOfDocs
<1>3. Before(f, at) \cup JustAt(f, at) = InHistory(f)
  BY <1>1 DEF Before, JustAt
<1>4. Before(f, at) \cap JustAt(f, at) = {}
  BY <1>2 DEF Before, JustAt, Stored, TypeOK
<1>5. /\ IsFiniteSet(Before(f, at)) /\ IsFiniteSet(JustAt(f, at))
      /\ Cardinality(Before(f, at)) \in Nat /\ Cardinality(JustAt(f, at)) \in Nat
  BY <1>2, DocsFinite
<1>6. Cardinality(Before(f, at) \cup JustAt(f, at)) =
        Cardinality(Before(f, at)) + Cardinality(JustAt(f, at))
          - Cardinality(Before(f, at) \cap JustAt(f, at))
  BY <1>5, FS_Union
<1>7. Cardinality(Before(f, at) \cap JustAt(f, at)) = 0
  BY <1>4, FS_EmptySet
<1>8. Cardinality(InHistory(f)) = Cardinality(Before(f, at) \cup JustAt(f, at))
  BY <1>3
<1> QED
  BY <1>5, <1>6, <1>7, <1>8

LEMMA HandStep ==
  ASSUME Stored, RunInv, NEW p \in Run, NEW f \in HistoryFigures, RunStep(p) \/ Abort(p),
         HandInv(p, f), RecordInv(f), ~stale'
  PROVE  HandInv(p, f)'
<1>1. UNCHANGED env
  BY RunsApart DEF Stored
<1>2. /\ Reached(f)' = Reached(f) /\ InHistory(f)' = InHistory(f)
      /\ \A t : Before(f, t)' = Before(f, t) /\ JustAt(f, t)' = JustAt(f, t)
      /\ \A count, at, n : Covers(f, count, at, n)' <=> Covers(f, count, at, n)
  BY <1>1, SameSets
<1>3. /\ mem \in [Run -> Memory] /\ stage \in [Run -> Steps] /\ todo \in [Run -> Seq(Figures)]
      /\ mem[p] \in Memory
  BY Typed DEF Stored
<1>4. /\ mem[p].rec \in Record /\ mem[p].rec.count \in Nat /\ mem[p].rec.at \in Nat
      /\ mem[p].rec.n \in Nat /\ mem[p].total \in Nat /\ mem[p].at \in Nat /\ mem[p].n \in Nat
      /\ mem[p].inLatest \in [HistoryFigures -> SUBSET Doc] /\ mem[p].twice \in SUBSET Doc
  BY MemoryTyped DEF Stored, Record
<1>5. mem[p].inLatest[f] \subseteq Reached(f)
  BY DEF HandInv
<1>6. ASSUME NEW figs \in Seq(Figures), Goto(p, figs), mem'[p].rec = NoRecord,
             mem'[p].inLatest[f] \subseteq Reached(f)
      PROVE  HandInv(p, f)'
  BY <1>2, <1>6, HandAfterGoto
<1>7. CASE Start(p)
  <2>1. mem'[p] = mem[p] /\ mem[p].rec = NoRecord
    BY <1>7 DEF Start, RunInv
  <2> QED
    BY <1>5, <1>6, <1>7, <2>1, PlanTyped DEF Start
<1>8. CASE Count(p)
  <2>1. PICK g \in LiveFigures, view \in {db, before} :
          /\ At(p, g, "count") /\ Read(view)
          /\ \E n \in Counts(view, g) :
               mem' = [mem EXCEPT ![p].live = n,
                            ![p].inLatest = [h \in HistoryFigures |->
                               IF g = "tx_latest_all" /\ h \in focus
                                 THEN In(view, "latest", Counted[h]) ELSE @[h]]]
          /\ UNCHANGED todo
    BY <1>8 DEF Count
  <2>2. \A s : ~At(p, f, s)'
    BY <2>1, NextAt, OneFigure DEF LiveFigures, HistoryFigures
  <2>3. view = db
    BY <2>1, ReadFresh
  <2>4. In(db, "latest", Counted[f]) \subseteq Reached(f)
    BY CountedUseful, StatusNone DEF In, Reached, Stored, CollInv, Coll
  <2>5. PICK n : mem' = [mem EXCEPT ![p].live = n,
                            ![p].inLatest = [h \in HistoryFigures |->
                               IF g = "tx_latest_all" /\ h \in focus
                                 THEN In(view, "latest", Counted[h]) ELSE @[h]]]
    BY <2>1
  <2>6. mem'[p].inLatest[f] = IF g = "tx_latest_all" /\ f \in focus
                                THEN In(view, "latest", Counted[f]) ELSE mem[p].inLatest[f]
    BY <1>3, <2>5 DEF Memory
  <2>7. mem'[p].inLatest[f] \subseteq Reached(f)'
    BY <1>2, <1>5, <2>3, <2>4, <2>6
  <2> QED
    BY <2>2, <2>7 DEF HandInv
<1>9. CASE UpdateOne(p)
  <2>1. PICK g \in LiveFigures : /\ At(p, g, "write") /\ Goto(p, Tail(todo[p]))
                                 /\ mem' = [mem EXCEPT ![p].live = 0]
    BY <1>9 DEF UpdateOne
  <2>2. mem'[p].rec = mem[p].rec /\ mem'[p].inLatest = mem[p].inLatest
    BY <1>3, <2>1 DEF Memory
  <2>3. mem[p].rec = NoRecord
    BY <2>1, OneFigure DEF RunInv
  <2>4. Tail(todo[p]) \in Seq(Figures)
    BY <2>1, AtTyped DEF Stored
  <2> QED
    BY <1>5, <1>6, <2>1, <2>2, <2>3, <2>4
<1>10. CASE FindOne(p)
  <2>1. PICK g \in HistoryFigures : /\ At(p, g, "find") /\ mem' = [mem EXCEPT ![p].rec = record[g]]
                                    /\ stage' = [stage EXCEPT ![p] = "call"] /\ UNCHANGED todo
    BY <1>10 DEF FindOne
  <2>2. \A h, s : At(p, h, s)' => h = g /\ s = "call"
    BY <1>3, <2>1, NextAt, OneFigure
  <2>3. mem'[p].rec = record[g] /\ mem'[p].inLatest = mem[p].inLatest
    BY <1>3, <2>1 DEF Memory
  <2>4. At(p, f, "call")' => Covers(f, mem[p].rec.count, mem[p].rec.at, mem[p].rec.n)'
    <3> SUFFICES ASSUME At(p, f, "call")'
                 PROVE  Covers(f, mem[p].rec.count, mem[p].rec.at, mem[p].rec.n)'
      OBVIOUS
    <3>1. f = g
      BY <2>2
    <3>2. Covers(f, record[f].count, record[f].at, record[f].n)
      BY DEF RecordInv
    <3>3. PICK r : r = record[f]
      OBVIOUS
    <3>4. Covers(f, r.count, r.at, r.n)'
      BY <1>2, <3>2, <3>3
    <3> QED
      BY <2>3, <3>1, <3>3, <3>4 DEF Covers
  <2>5. ~At(p, f, "upto")' /\ ~At(p, f, "record")' /\ ~At(p, f, "write")'
    BY <2>2
  <2>6. mem'[p].inLatest[f] \subseteq Reached(f)'
    BY <1>2, <1>5, <2>3
  <2> QED
    BY <2>4, <2>5, <2>6 DEF HandInv
<1>11. CASE Call(p)
  <2>1. PICK g \in HistoryFigures, view \in {db, before} :
          /\ At(p, g, "call") /\ Read(view)
          /\ LET rec == mem[p].rec
                 found == HistoryCount(view, g, rec.at)
             IN  IF rec = NoRecord \/ Cardinality(found) > rec.n
                   THEN /\ mem' = [mem EXCEPT ![p].rec = NoRecord,
                                        ![p].total = rec.count + Cardinality(found) - rec.n,
                                        ![p].twice = mem[p].inLatest[g]
                                                     \cap In(view, "history", Counted[g])]
                        /\ stage' = [stage EXCEPT ![p] = "upto"]
                        /\ UNCHANGED todo
                   ELSE /\ mem' = [mem EXCEPT ![p].rec = NoRecord, ![p].inLatest[g] = {}]
                        /\ Goto(p, Tail(todo[p]))
    BY <1>11 DEF Call
  <2>2. view = db
    BY <2>1, ReadFresh
  <2> DEFINE rec == mem[p].rec
             found == HistoryCount(view, g, rec.at)
  <2>3. CASE rec = NoRecord \/ Cardinality(found) > rec.n
    <3> DEFINE total == rec.count + Cardinality(found) - rec.n
               twice == mem[p].inLatest[g] \cap In(view, "history", Counted[g])
    <3>1. mem' = [mem EXCEPT ![p] = [mem[p] EXCEPT !.rec = NoRecord, !.total = total,
                                                   !.twice = twice]]
      BY <2>1, <2>3
    <3>2. mem'[p].total = total /\ mem'[p].twice = twice /\ mem'[p].inLatest = mem[p].inLatest
      <4> HIDE DEF total, twice
      <4> QED
        BY <1>3, <3>1 DEF Memory
    <3>3. stage'[p] = "upto" /\ todo' = todo
      BY <1>3, <2>1, <2>3
    <3>4. \A h, s : At(p, h, s)' => h = g /\ s = "upto"
      BY <2>1, <3>3, NextAt, OneFigure
    <3>5. mem'[p].inLatest[f] \subseteq Reached(f)'
      BY <1>2, <1>5, <3>2
    <3>6. ~At(p, f, "call")' /\ ~At(p, f, "record")' /\ ~At(p, f, "write")'
      BY <3>4
    <3>7. ASSUME At(p, f, "upto")'
          PROVE  /\ total \in Nat
                 /\ total <= Cardinality(InHistory(f))
                 /\ total + Cardinality(mem[p].inLatest[f])
                      <= Cardinality(Reached(f)) + Cardinality(twice)
      <4>1. f = g
        BY <3>4, <3>7
      <4>2. Covers(f, rec.count, rec.at, rec.n)
        BY <2>1, <4>1 DEF HandInv
      <4>3. total \in Nat
        <5>1. found \in SUBSET Doc
          BY DEF HistoryCount
        <5>2. Cardinality(found) \in Nat
          BY <5>1, DocsFinite
        <5>3. rec = NoRecord => rec.n = 0
          BY DEF NoRecord
        <5> HIDE DEF found
        <5> QED
          BY <1>4, <2>3, <5>2, <5>3
      <4>4. total <= Cardinality(InHistory(f))
        BY <1>4, <2>2, <4>1, <4>2, CallCounts
      <4>5. mem[p].inLatest[f] \in SUBSET Doc
        BY <1>4
      <4> HIDE DEF total, rec
      <4> QED
        BY <1>5, <2>2, <4>1, <4>3, <4>4, <4>5, BothCount
    <3> HIDE DEF total, twice, rec, found
    <3> QED
      BY <1>2, <3>2, <3>5, <3>6, <3>7 DEF HandInv
  <2>4. CASE ~(rec = NoRecord \/ Cardinality(found) > rec.n)
    <3>1. /\ mem' = [mem EXCEPT ![p].rec = NoRecord, ![p].inLatest[g] = {}]
          /\ Goto(p, Tail(todo[p]))
      BY <2>1, <2>4
    <3>2. mem' = [mem EXCEPT ![p] = [mem[p] EXCEPT !.rec = NoRecord,
                                       !.inLatest = [mem[p].inLatest EXCEPT ![g] = {}]]]
      BY <1>3, <3>1 DEF Memory
    <3>3. mem'[p].rec = NoRecord /\ mem'[p].inLatest = [mem[p].inLatest EXCEPT ![g] = {}]
      BY <1>3, <3>2 DEF Memory
    <3>4. mem'[p].inLatest[f] \subseteq Reached(f)
      BY <1>4, <1>5, <3>3
    <3>5. Tail(todo[p]) \in Seq(Figures)
      BY <2>1, AtTyped DEF Stored
    <3> QED
      BY <1>6, <3>1, <3>3, <3>4, <3>5
  <2> QED
    BY <2>3, <2>4
<1>12. CASE Upto(p)
  <2>1. PICK g \in HistoryFigures, view \in {db, before} :
          /\ At(p, g, "upto") /\ Read(view)
          /\ IF CreateAts(view) = {}
               THEN mem' = [mem EXCEPT ![p] = Fresh] /\ Goto(p, <<>>)
               ELSE /\ mem' = [mem EXCEPT ![p].at = Latest(CreateAts(view))]
                    /\ stage' = [stage EXCEPT ![p] = "record"]
                    /\ UNCHANGED todo
    BY <1>12 DEF Upto
  <2>2. view = db
    BY <2>1, ReadFresh
  <2>3. CASE CreateAts(view) = {}
    <3>1. mem'[p] = Fresh /\ Goto(p, <<>>)
      BY <1>3, <2>1, <2>3
    <3>2. Fresh.rec = NoRecord /\ Fresh.inLatest[f] = {}
      BY DEF Fresh
    <3>3. <<>> \in Seq(Figures)
      OBVIOUS
    <3> QED
      BY <1>6, <3>1, <3>2, <3>3
  <2>4. CASE CreateAts(view) # {}
    <3> DEFINE at == Latest(CreateAts(view))
    <3>1. at \in Nat /\ \A t \in CreateAts(db) : t <= at
      BY <2>2, <2>4, LatestTyped DEF Stored
    <3>2. /\ mem' = [mem EXCEPT ![p].at = at] /\ stage'[p] = "record" /\ todo' = todo
      BY <1>3, <2>1, <2>4
    <3> HIDE DEF at
    <3>3. /\ mem'[p].at = at /\ mem'[p].total = mem[p].total /\ mem'[p].twice = mem[p].twice
          /\ mem'[p].inLatest = mem[p].inLatest
      BY <1>3, <3>2 DEF Memory
    <3>4. \A h, s : At(p, h, s)' => h = g /\ s = "record"
      BY <2>1, <3>2, NextAt, OneFigure
    <3>5. ~At(p, f, "call")' /\ ~At(p, f, "upto")' /\ ~At(p, f, "write")'
      BY <3>4
    <3>6. mem'[p].inLatest[f] \subseteq Reached(f)'
      BY <1>2, <1>5, <3>3
    <3>7. ASSUME At(p, f, "record")'
          PROVE  /\ mem[p].total <= Cardinality(Before(f, at)) + Cardinality(JustAt(f, at))
                 /\ mem[p].total + Cardinality(mem[p].inLatest[f])
                      <= Cardinality(Reached(f)) + Cardinality(mem[p].twice)
      <4>1. At(p, f, "upto")
        BY <2>1, <3>4, <3>7
      <4>2. mem[p].total <= Cardinality(InHistory(f))
        BY <4>1 DEF HandInv
      <4>3. /\ Cardinality(InHistory(f)) \in Nat /\ Cardinality(Before(f, at)) \in Nat
            /\ Cardinality(JustAt(f, at)) \in Nat
        BY SetsOfDocs, DocsFinite
      <4>4. Cardinality(InHistory(f)) <= Cardinality(Before(f, at)) + Cardinality(JustAt(f, at))
        BY <3>1, UptoCounts
      <4>5. mem[p].total <= Cardinality(Before(f, at)) + Cardinality(JustAt(f, at))
        BY <1>4, <4>2, <4>3, <4>4
      <4> QED
        BY <4>1, <4>5 DEF HandInv
    <3>8. /\ Before(f, mem[p].at)' = Before(f, at) /\ JustAt(f, mem[p].at)' = JustAt(f, at)
      <4>1. InHistory(f)' = InHistory(f) /\ created' = created
        BY <1>1, <1>2 DEF env
      <4> QED
        BY <3>3, <4>1 DEF Before, JustAt
    <3> QED
      BY <1>2, <3>3, <3>5, <3>6, <3>7, <3>8 DEF HandInv
  <2> QED
    BY <2>3, <2>4
<1>13. CASE CallRecord(p)
  <2>1. PICK g \in HistoryFigures, view \in {db, before} :
          /\ At(p, g, "record") /\ Read(view)
          /\ mem' = [mem EXCEPT ![p].n = Cardinality(HistoryCountAt(view, g, mem[p].at))]
          /\ stage' = [stage EXCEPT ![p] = "write"] /\ UNCHANGED todo
    BY <1>13 DEF CallRecord
  <2>2. view = db
    BY <2>1, ReadFresh
  <2>3. /\ mem'[p].n = Cardinality(HistoryCountAt(db, g, mem[p].at)) /\ mem'[p].at = mem[p].at
        /\ mem'[p].total = mem[p].total /\ mem'[p].twice = mem[p].twice
        /\ mem'[p].inLatest = mem[p].inLatest
    BY <1>3, <2>1, <2>2 DEF Memory
  <2>4. \A h, s : At(p, h, s)' => h = g /\ s = "write"
    BY <1>3, <2>1, NextAt, OneFigure
  <2>5. ~At(p, f, "call")' /\ ~At(p, f, "upto")' /\ ~At(p, f, "record")'
    BY <2>4
  <2>6. mem'[p].inLatest[f] \subseteq Reached(f)'
    BY <1>2, <1>5, <2>3
  <2>7. ASSUME At(p, f, "write")'
        PROVE  /\ Covers(f, mem[p].total, mem[p].at, mem'[p].n)
               /\ mem[p].total + Cardinality(mem[p].inLatest[f])
                    <= Cardinality(Reached(f)) + Cardinality(mem[p].twice)
    <3>1. At(p, f, "record") /\ f = g
      BY <2>1, <2>4, <2>7
    <3>2. HistoryCountAt(db, f, mem[p].at) = JustAt(f, mem[p].at)
      BY DEF HistoryCountAt, JustAt, InHistory, In
    <3>3. mem'[p].n = Cardinality(JustAt(f, mem[p].at))
      BY <2>3, <3>1, <3>2
    <3>4. Cardinality(JustAt(f, mem[p].at)) \in Nat
      BY SetsOfDocs, DocsFinite
    <3> QED
      BY <3>1, <3>3, <3>4 DEF HandInv, Covers
  <2>8. At(p, f, "write")' => Covers(f, mem[p].total, mem[p].at, mem[p].n)'
    <3>1. /\ Before(f, mem[p].at)' = Before(f, mem[p].at)
          /\ JustAt(f, mem[p].at)' = JustAt(f, mem[p].at)
      <4>1. InHistory(f)' = InHistory(f) /\ created' = created
        BY <1>1, <1>2 DEF env
      <4> QED
        BY <2>3, <4>1 DEF Before, JustAt
    <3> QED
      BY <2>3, <2>7, <3>1 DEF Covers
  <2> QED
    BY <1>2, <2>3, <2>5, <2>6, <2>7, <2>8 DEF HandInv
<1>14. CASE UpdateOneIncre(p)
  <2>1. PICK g \in HistoryFigures :
          /\ At(p, g, "write") /\ Goto(p, Tail(todo[p]))
          /\ mem' = [mem EXCEPT ![p] =
               [Fresh EXCEPT !.inLatest = [mem[p].inLatest EXCEPT ![g] = {}]]]
    BY <1>14 DEF UpdateOneIncre
  <2>2. mem'[p].rec = NoRecord /\ mem'[p].inLatest = [mem[p].inLatest EXCEPT ![g] = {}]
    BY <1>3, <2>1 DEF Fresh
  <2>3. mem'[p].inLatest[f] \subseteq Reached(f)
    BY <1>4, <1>5, <2>2
  <2>4. Tail(todo[p]) \in Seq(Figures)
    BY <2>1, AtTyped DEF Stored
  <2> QED
    BY <1>6, <2>1, <2>2, <2>3, <2>4
<1>15. CASE Abort(p)
  <2>1. mem'[p] = Fresh /\ Goto(p, <<>>)
    BY <1>3, <1>15 DEF Abort
  <2>2. Fresh.rec = NoRecord /\ Fresh.inLatest[f] = {}
    BY DEF Fresh
  <2>3. <<>> \in Seq(Figures)
    OBVIOUS
  <2> QED
    BY <1>6, <2>1, <2>2, <2>3
<1> QED
  BY <1>7, <1>8, <1>9, <1>10, <1>11, <1>12, <1>13, <1>14, <1>15 DEF RunStep

LEMMA RecordStep ==
  ASSUME Stored, [Next]_vars, NEW p \in Run, RunStep(p) \/ Abort(p),
         NEW f \in HistoryFigures, HandInv(p, f), RecordInv(f)
  PROVE  RecordInv(f)'
<1>1. CASE record'[f] = record[f]
  BY <1>1, RecordSame
<1>2. CASE record'[f] # record[f]
  <2>1. UpdateOneIncre(p)
    BY <1>2 DEF RunStep, Start, Count, UpdateOne, FindOne, Call, Upto, CallRecord, Abort
  <2>2. PICK g \in HistoryFigures :
          /\ At(p, g, "write")
          /\ record' = [record EXCEPT ![g] =
               [count |-> mem[p].total, latest |-> Cardinality(mem[p].inLatest[g]),
                at |-> mem[p].at, n |-> mem[p].n, twice |-> mem[p].twice]]
    BY <2>1 DEF UpdateOneIncre
  <2>3. record \in [HistoryFigures -> Record]
    BY Typed DEF Stored
  <2>4. f = g
    BY <1>2, <2>2, <2>3
  <2>5. PICK r : r = record'[f]
    OBVIOUS
  <2>6. /\ r.count = mem[p].total /\ r.latest = Cardinality(mem[p].inLatest[f])
        /\ r.at = mem[p].at /\ r.n = mem[p].n /\ r.twice = mem[p].twice
    BY <2>2, <2>3, <2>4, <2>5
  <2>7. /\ Covers(f, r.count, r.at, r.n)
        /\ r.count + r.latest <= Cardinality(Reached(f)) + Cardinality(r.twice)
    BY <2>2, <2>4, <2>6 DEF HandInv
  <2>8. UNCHANGED env
    BY RunsApart DEF Stored
  <2>9. /\ Covers(f, r.count, r.at, r.n)' /\ Reached(f)' = Reached(f)
    BY <2>7, <2>8, SameSets
  <2> QED
    BY <2>5, <2>7, <2>9 DEF RecordInv, Covers, Shown
<1> QED
  BY <1>1, <1>2

LEMMA CountStep ==
  ASSUME Stored, CountInv, [Next]_vars
  PROVE  CountInv'
<1>1. ~stale' => ~stale
  BY StaleStays DEF Stored
<1>2. CASE UNCHANGED task
  <2>1. RunInv'
    BY <1>2 DEF task, CountInv, RunInv
  <2>2. ASSUME ~stale', NEW f \in HistoryFigures
        PROVE  RecordInv(f)' /\ \A p \in Run : HandInv(p, f)'
    BY <1>1, <1>2, <2>2, HandSame, RecordSame DEF task, CountInv
  <2> QED
    BY <2>1, <2>2 DEF CountInv
<1>3. ASSUME NEW p \in Run, RunStep(p) \/ Abort(p)
      PROVE  CountInv'
  <2>1. RunInv'
    BY <1>3, RunInvStep DEF CountInv, Stored
  <2>2. ASSUME ~stale', NEW f \in HistoryFigures
        PROVE  RecordInv(f)' /\ \A q \in Run : HandInv(q, f)'
    <3>1. RecordInv(f) /\ \A q \in Run : HandInv(q, f)
      BY <1>1, <2>2 DEF CountInv
    <3>2. RecordInv(f)'
      BY <1>3, <3>1, RecordStep
    <3>3. HandInv(p, f)'
      BY <1>3, <2>2, <3>1, HandStep DEF CountInv
    <3>4. ASSUME NEW q \in Run, q # p
          PROVE  HandInv(q, f)'
      <4>1. todo'[q] = todo[q] /\ stage'[q] = stage[q] /\ mem'[q] = mem[q]
        BY <1>3, <3>4, RunsApart DEF Stored
      <4> QED
        BY <3>1, <4>1, HandSame
    <3> QED
      BY <3>2, <3>3, <3>4
  <2> QED
    BY <2>1, <2>2 DEF CountInv
<1>4. CASE Environment
  BY <1>2, <1>4 DEF Environment, Tick, DayPasses, Sync, Progress, MigrateFind, MigrateInsert,
                    MigrateDelete, MigrateFails
<1>5. CASE Readers
  BY <1>2, <1>5 DEF Readers, TransferTxs, TxDetailLatest, TxDetailHistory, Leave
<1>6. CASE UNCHANGED vars
  BY <1>2, <1>6 DEF vars, task
<1> QED
  BY <1>3, <1>4, <1>5, <1>6 DEF Next

LEMMA InitCounts == Init => CountInv
<1> SUFFICES ASSUME Init
             PROVE  CountInv
  OBVIOUS
<1>1. RunInv
  BY DEF Init, RunInv, Fresh
<1>2. ASSUME NEW p \in Run, NEW f \in HistoryFigures
      PROVE  HandInv(p, f)
  <2>1. \A s : ~At(p, f, s)
    BY DEF Init, At
  <2>2. mem[p].inLatest[f] = {}
    BY DEF Init, Fresh
  <2> QED
    BY <2>1, <2>2 DEF HandInv
<1>3. ASSUME NEW f \in HistoryFigures
      PROVE  RecordInv(f)
  <2>1. /\ record[f] = NoRecord /\ NoRecord.count = 0 /\ NoRecord.latest = 0 /\ NoRecord.at = 0
        /\ NoRecord.n = 0 /\ NoRecord.twice = {}
    BY DEF Init, NoRecord
  <2>2. /\ Cardinality(JustAt(f, 0)) \in Nat /\ Cardinality(Before(f, 0)) \in Nat
        /\ Cardinality(Reached(f)) \in Nat /\ Cardinality({}) = 0
    BY SetsOfDocs, DocsFinite, FS_EmptySet
  <2> QED
    BY <2>1, <2>2 DEF RecordInv, Covers, Shown
<1> QED
  BY <1>1, <1>2, <1>3 DEF CountInv

\* What was counted of ex_ibc_tx is there, for any transfers, any creation times
\* and any number of manual runs beside the cron's (handleHistoryTxsIncre).
THEOREM CountedOnce == Spec => []OvercountNeedsStaleRead
<1>1. Stored /\ CountInv /\ [Next]_vars => (Stored /\ CountInv)'
  BY NextStored, CountStep
<1>2. Stored /\ CountInv => OvercountNeedsStaleRead
  <2> SUFFICES ASSUME Stored, CountInv, ~stale, NEW f \in HistoryFigures
               PROVE  record[f].count <= Cardinality(InHistory(f))
    BY DEF OvercountNeedsStaleRead, InHistory
  <2> DEFINE r == record[f]
  <2>1. r.count \in Nat /\ r.at \in Nat /\ r.n \in Nat
    BY DEF Stored, TypeOK, Record
  <2>2. r.n <= Cardinality(JustAt(f, r.at)) /\ r.count <= Cardinality(Before(f, r.at)) + r.n
    BY DEF CountInv, RecordInv, Covers
  <2> HIDE DEF r
  <2>3. /\ JustAt(f, r.at) \in SUBSET Doc /\ Before(f, r.at) \in SUBSET Doc
        /\ InHistory(f) \in SUBSET Doc
    BY SetsOfDocs
  <2>4. Before(f, r.at) \cap JustAt(f, r.at) = {}
        /\ Before(f, r.at) \cup JustAt(f, r.at) \subseteq InHistory(f)
    BY <2>3 DEF Before, JustAt, Stored, TypeOK
  <2>5. Cardinality(Before(f, r.at)) + Cardinality(JustAt(f, r.at)) <= Cardinality(InHistory(f))
    BY <2>3, <2>4, Disjoint
  <2>6. /\ Cardinality(Before(f, r.at)) \in Nat /\ Cardinality(JustAt(f, r.at)) \in Nat
        /\ Cardinality(InHistory(f)) \in Nat
    BY <2>3, DocsFinite
  <2>7. r.count <= Cardinality(InHistory(f))
    BY <2>1, <2>2, <2>5, <2>6
  <2> QED
    BY <2>7 DEF r
<1> QED
  BY <1>1, <1>2, InitStored, InitCounts, PTL DEF Spec

\* What the home page shows exceeds the transfers there ever were by no more than
\* those that moved between the two counts, for any transfers, runs and failures
\* (updateTxsIncre, Statistics).
THEOREM ShownTwice == Spec => []ShownTwiceOnlyIfMoved
<1>1. Stored /\ CountInv /\ [Next]_vars => (Stored /\ CountInv)'
  BY NextStored, CountStep
<1>2. CountInv => ShownTwiceOnlyIfMoved
  BY DEF CountInv, RecordInv, ShownTwiceOnlyIfMoved, Reached
<1> QED
  BY <1>1, <1>2, InitStored, InitCounts, PTL DEF Spec

-----------------------------------------------------------------------------
(* The pages of the list. *)

\* How many of a set happened after a document: its place in the list
NewerIn(F, d) == {e \in F : TxTime[e] > TxTime[d]}
Place(F, d) == Cardinality(NewerIn(F, d))

LEMMA PlaceTyped ==
  ASSUME NEW F \in SUBSET Doc, NEW d \in Doc
  PROVE  NewerIn(F, d) \in SUBSET Doc /\ Place(F, d) \in Nat
BY DocsFinite DEF NewerIn, Place

\* Every place is taken, for no two transfers happened at the same time.
LEMMA PlacesTaken ==
  ASSUME NEW F \in SUBSET Doc
  PROVE  /\ \A d \in F : Place(F, d) < Cardinality(F)
         /\ \A r \in 0 .. Cardinality(F) - 1 : \E d \in F : Place(F, d) = r
<1> DEFINE n == Cardinality(F)
           T == 0 .. n - 1
           h == [d \in F |-> Place(F, d)]
<1>1. IsFiniteSet(F) /\ n \in Nat
  BY DocsFinite
<1>2. \A d \in F : TxTime[d] \in Nat
  BY HomeAssumption
<1>3. ASSUME NEW d \in F
      PROVE  Place(F, d) \in T
  <2>1. NewerIn(F, d) \subseteq F \ {d} /\ F \ {d} \in SUBSET Doc
    BY <1>2 DEF NewerIn
  <2>2. Cardinality(F \ {d}) = n - 1
    BY <1>1, FS_RemoveElement
  <2>3. Place(F, d) \in Nat /\ Place(F, d) <= Cardinality(F \ {d})
    BY <2>1, PlaceTyped, Larger DEF Place
  <2> HIDE DEF n
  <2> QED
    BY <1>1, <2>2, <2>3
<1>4. ASSUME NEW d \in F, NEW e \in F, TxTime[d] < TxTime[e]
      PROVE  Place(F, e) < Place(F, d)
  <2>1. /\ NewerIn(F, e) \cup {e} \subseteq NewerIn(F, d) /\ e \notin NewerIn(F, e)
        /\ NewerIn(F, e) \cup {e} \in SUBSET Doc /\ NewerIn(F, d) \in SUBSET Doc
        /\ NewerIn(F, e) \in SUBSET Doc
    BY <1>2, <1>4 DEF NewerIn
  <2>2. Cardinality(NewerIn(F, e) \cup {e}) = Cardinality(NewerIn(F, e)) + 1
    BY <2>1, DocsFinite, FS_AddElement
  <2>3. Cardinality(NewerIn(F, e) \cup {e}) <= Cardinality(NewerIn(F, d))
    BY <2>1, Larger
  <2> QED
    BY <2>2, <2>3, PlaceTyped DEF Place
<1>5. ASSUME NEW d \in F, NEW e \in F, Place(F, d) = Place(F, e)
      PROVE  d = e
  <2>1. ~(TxTime[d] < TxTime[e]) /\ ~(TxTime[e] < TxTime[d])
    BY <1>4, <1>5, PlaceTyped
  <2>2. TxTime[d] = TxTime[e]
    BY <1>2, <2>1
  <2> QED
    BY <2>2, HomeAssumption
<1>6. h \in Injection(F, T)
  BY <1>3, <1>5 DEF Injection, IsInjective
<1>7. IsFiniteSet(T) /\ Cardinality(T) = n
  <2> HIDE DEF n
  <2>1. 0 \in Int /\ n - 1 \in Int
    BY <1>1
  <2> QED
    BY <1>1, <2>1, FS_Interval
<1>8. h \in Surjection(F, T)
  <2>1. Cardinality(F) = Cardinality(T)
    BY <1>7
  <2> HIDE DEF T, h, n
  <2> QED
    BY <1>6, <1>7, <2>1, FS_Injection
<1>9. \A r \in T : \E d \in F : Place(F, d) = r
  BY <1>8 DEF Surjection
<1>10. \A d \in F : Place(F, d) < n
  <2> HIDE DEF n
  <2> QED
    BY <1>1, <1>3
<1> QED
  BY <1>9, <1>10

\* A page is full when there is a transfer after it.
LEMMA PageFull ==
  ASSUME NEW F \in SUBSET Doc, NEW k \in Nat, NEW d \in F, Place(F, d) >= (k + 1) * PageSize
  PROVE  Cardinality({e \in F : Place(F, e) \in k * PageSize .. (k + 1) * PageSize - 1})
           >= PageSize
<1> DEFINE lo == k * PageSize
           items == {e \in F : Place(F, e) \in k * PageSize .. (k + 1) * PageSize - 1}
           hi == (k + 1) * PageSize - 1
           places == lo .. hi
           h == [e \in items |-> Place(F, e)]
<1>1. PageSize \in Nat /\ PageSize > 0
  BY HomeAssumption
<1>2. lo \in Nat /\ hi = lo + PageSize - 1 /\ (k + 1) * PageSize = lo + PageSize
  BY <1>1
<1>3. items \in SUBSET Doc /\ IsFiniteSet(items) /\ Cardinality(items) \in Nat
  <2>1. items \in SUBSET Doc
    OBVIOUS
  <2> QED
    BY <2>1, DocsFinite
<1>4. items = {e \in F : Place(F, e) \in places}
  OBVIOUS
<1> HIDE DEF lo, hi
<1>5. ASSUME NEW r \in places
      PROVE  \E e \in items : h[e] = r
  <2>1. Cardinality(F) \in Nat /\ Place(F, d) < Cardinality(F) /\ Place(F, d) \in Nat
    BY DocsFinite, PlacesTaken, PlaceTyped
  <2>2. r \in 0 .. Cardinality(F) - 1
    BY <1>1, <1>2, <1>5, <2>1
  <2>3. PICK e \in F : Place(F, e) = r
    BY <2>2, PlacesTaken
  <2> QED
    BY <1>4, <2>3
<1>6. h \in Surjection(items, places)
  <2>1. h \in [items -> places]
    BY <1>4
  <2> QED
    BY <1>5, <2>1 DEF Surjection
<1>7. Cardinality(places) = PageSize
  <2>1. lo \in Int /\ hi \in Int
    BY <1>1, <1>2
  <2>2. Cardinality(places) = IF lo > hi THEN 0 ELSE hi - lo + 1
    BY <2>1, FS_Interval
  <2> QED
    BY <1>1, <1>2, <2>2
<1>8. Cardinality(places) <= Cardinality(items)
  <2> HIDE DEF h, items, places
  <2> QED
    BY <1>3, <1>6, FS_Surjection
<1>9. Cardinality(items) >= PageSize
  <2> HIDE DEF items, places
  <2> QED
    BY <1>1, <1>3, <1>7, <1>8
<1> QED
  BY <1>9

-----------------------------------------------------------------------------
\* The transfer the migrate task takes next: it goes from the end of the list.
InHand == IF carried.step = "find" THEN {} ELSE {carried.doc}
Newer(query, d) == NewerIn(Found(db, query) \ InHand, d)

\* What a reader counts on it has seen, or there are as many newer transfers as
\* pages were turned, not counting the one that is about to go.
OnPage(d) ==
  /\ reached[d] # {}
  /\ db["latest"][d] \in Useful \cup {"none"}
  /\ d \in Found(db, reader.query) =>
       d \in reader.seen
       \/ Cardinality(Newer(reader.query, d)) >= reader.page * PageSize

PageInv ==
  /\ reader.what = "idle" => reader = NoReader
  /\ ~stale /\ reader.what = "pages" => \A d \in reader.kept : OnPage(d)
  /\ ~stale /\ reader.what = "listed" => reader.kept \subseteq reader.seen

\* A document goes from ex_ibc_tx_latest only when it is in hand.
LEMMA LeavesInHand ==
  ASSUME Stored, [Next]_vars, NEW e \in Doc, db["latest"][e] \in Useful, e \notin InHand
  PROVE  db'["latest"][e] \in Useful
<1>1. db["latest"][e] # "none" /\ Kept
  BY StatusNone, NextStored
<1>2. SUFFICES db'["latest"][e] # "none"
  BY <1>1 DEF Kept
<1>3. CASE UNCHANGED db
  BY <1>1, <1>3
<1>4. ASSUME NEW d \in Doc, Sync(d)
      PROVE  db'["latest"][e] # "none"
  <2>1. Head(life[d]) \in Status
    BY DEF Stored, TypeOK
  <2>2. Head(life[d]) # "none"
    BY <2>1, StatusNone
  <2>3. db' = [db EXCEPT !["latest"][d] = Head(life[d])]
    BY <1>4 DEF Sync, Put
  <2> QED
    BY <1>1, <2>2, <2>3 DEF Stored, TypeOK, Content, Coll
<1>5. ASSUME NEW d \in Doc, NEW c \in Coll, Progress(c, d)
      PROVE  db'["latest"][e] # "none"
  <2>1. PICK i \in 1 .. Len(life[d]) - 1 : Put(c, d, life[d][i + 1])
    BY <1>5 DEF Progress
  <2>2. life[d][i + 1] # "none"
    <3>1. life[d] \in Seq(Status)
      BY DEF Stored, TypeOK
    <3>2. life[d][i + 1] \in Status
      BY <2>1, <3>1
    <3> QED
      BY <3>2, StatusNone
  <2>3. db' = [db EXCEPT ![c][d] = life[d][i + 1]]
    BY <2>1 DEF Put
  <2> QED
    BY <1>1, <2>2, <2>3 DEF Stored, TypeOK, Content, Coll
<1>6. CASE MigrateInsert
  <2>1. db' = db \/ db' = [db EXCEPT !["history"][carried.doc] = carried.status]
    BY <1>6 DEF MigrateInsert, Put
  <2> QED
    BY <1>1, <2>1 DEF Stored, TypeOK, Content, Coll
<1>7. CASE MigrateDelete
  <2>1. e # carried.doc
    BY <1>7 DEF MigrateDelete, InHand
  <2>2. db' = [db EXCEPT !["latest"][carried.doc] = "none"]
    BY <1>7 DEF MigrateDelete, Put
  <2> QED
    BY <1>1, <2>1, <2>2 DEF Stored, TypeOK, Content, Coll
<1>8. ASSUME NEW p \in Run, RunStep(p) \/ Abort(p)
      PROVE  UNCHANGED db
  BY <1>8, RunsApart DEF Stored, env
<1>9. CASE Readers
  BY <1>3, <1>9 DEF Readers, TransferTxs, TxDetailLatest, TxDetailHistory, Leave, env
<1>10. CASE Tick \/ DayPasses \/ MigrateFind \/ MigrateFails \/ UNCHANGED vars
  BY <1>3, <1>10 DEF Tick, DayPasses, MigrateFind, MigrateFails, vars
<1> QED
  BY <1>3, <1>4, <1>5, <1>6, <1>7, <1>8, <1>9, <1>10 DEF Next, Environment

\* Nothing that was newer than a transfer of the list is taken in hand.
LEMMA HandIsOld ==
  ASSUME Stored, [Next]_vars, NEW d \in Doc, NEW e \in Doc, db["latest"][d] \in Useful,
         db["latest"][e] \in Useful, TxTime[e] > TxTime[d], e \notin InHand
  PROVE  e \notin InHand'
<1>1. CASE MigrateFind
  <2>1. PICK x \in Oldest(In(db, "latest", {"Setting"})) \cup Oldest(In(db, "latest", Useful)) :
          carried' = [doc |-> x, status |-> db["latest"][x], step |-> "insert"]
    BY <1>1 DEF MigrateFind
  <2>2. x # e
    <3>1. CASE x \in Oldest(In(db, "latest", {"Setting"}))
      BY <3>1 DEF Oldest, In, Useful
    <3>2. CASE x \in Oldest(In(db, "latest", Useful))
      <4>1. TxTime[x] <= TxTime[d]
        BY <3>2 DEF Oldest, In
      <4>2. /\ TxTime[d] \in Nat /\ TxTime[e] \in Nat
        BY HomeAssumption
      <4> QED
        BY <4>1, <4>2
    <3> QED
      BY <2>1, <3>1, <3>2
  <2> QED
    BY <2>1, <2>2 DEF InHand
<1>2. CASE carried' = carried \/ carried'.step = "find"
  BY <1>2 DEF InHand
<1>3. CASE MigrateInsert
  <2>1. carried.step # "find" /\ carried'.doc = carried.doc
    BY <1>3 DEF MigrateInsert, Stored, TypeOK
  <2> QED
    BY <2>1 DEF InHand
<1>4. ASSUME NEW p \in Run, RunStep(p) \/ Abort(p)
      PROVE  UNCHANGED carried
  BY <1>4, RunsApart DEF Stored, env
<1>5. CASE Readers
  BY <1>2, <1>5 DEF Readers, TransferTxs, TxDetailLatest, TxDetailHistory, Leave, env
<1>6. ASSUME Environment, ~MigrateFind, ~MigrateInsert
      PROVE  carried' = carried \/ carried'.step = "find"
  BY <1>6 DEF Environment, Tick, DayPasses, Sync, Progress, MigrateDelete, MigrateFails
<1> QED
  BY <1>1, <1>2, <1>3, <1>4, <1>5, <1>6 DEF Next, vars

LEMMA OnPageStays ==
  ASSUME Stored, [Next]_vars, UNCHANGED reader, NEW d \in Doc, OnPage(d)
  PROVE  OnPage(d)'
<1>1. Kept /\ created[d] > 0
  BY NextStored DEF OnPage, Stored, CollInv
<1>2. reached'[d] # {} /\ db'["latest"][d] \in Useful \cup {"none"}
  BY <1>1 DEF OnPage, Kept
<1> DEFINE q == reader.query
<1>3. ASSUME d \in Found(db, q)'
      PROVE  /\ d \in Found(db, q)
             /\ Newer(q, d) \subseteq NewerIn((Found(db, q) \ InHand)', d)
  <2>1. db'["latest"][d] \in Useful /\ Matches(q, PathOf[d])
    BY <1>3 DEF Found, In, Matches
  <2>2. db["latest"][d] \in Useful
    BY <1>1, <2>1, StatusNone DEF OnPage, Kept
  <2>3. d \in Found(db, q)
    BY <2>1, <2>2 DEF Found, In
  <2>4. ASSUME NEW e \in Newer(q, d)
        PROVE  e \in NewerIn((Found(db, q) \ InHand)', d)
    <3>1. /\ e \in Doc /\ db["latest"][e] \in Useful /\ Matches(q, PathOf[e])
          /\ e \notin InHand /\ TxTime[e] > TxTime[d]
      BY DEF Newer, NewerIn, Found, In
    <3>2. db'["latest"][e] \in Useful /\ e \notin InHand'
      BY <2>2, <3>1, LeavesInHand, HandIsOld
    <3>3. e \in Found(db, q)'
      BY <3>1, <3>2 DEF Found, In, Matches
    <3> QED
      BY <3>1, <3>2, <3>3 DEF NewerIn
  <2> QED
    BY <2>3, <2>4
<1>4. ASSUME d \in Found(db, q)', d \notin reader.seen
      PROVE  Cardinality(NewerIn((Found(db, q) \ InHand)', d)) >= reader.page * PageSize
  <2> DEFINE old == Newer(q, d)
             new == NewerIn((Found(db, q) \ InHand)', d)
  <2>1. Cardinality(old) >= reader.page * PageSize
    BY <1>3, <1>4 DEF OnPage
  <2>2. old \in SUBSET Doc /\ new \in SUBSET Doc /\ old \subseteq new
    BY <1>3, <1>4 DEF Newer, NewerIn, Found, In
  <2>3. reader.page \in Nat /\ PageSize \in Nat
    BY HomeAssumption DEF Stored, TypeOK
  <2>4. reader.page * PageSize \in Nat
    BY <2>3
  <2> HIDE DEF old, new
  <2>5. Cardinality(old) \in Nat /\ Cardinality(new) \in Nat /\ Cardinality(old) <= Cardinality(new)
    BY <2>2, Larger
  <2>6. Cardinality(new) >= reader.page * PageSize
    BY <2>1, <2>4, <2>5
  <2> QED
    BY <2>6 DEF new
<1>5. Newer(q, d)' = NewerIn((Found(db, q) \ InHand)', d)
  BY DEF Newer, NewerIn
<1> QED
  BY <1>2, <1>4, <1>5 DEF OnPage

LEMMA TurnPage ==
  ASSUME Stored, PageInv, TransferTxs
  PROVE  PageInv'
<1>1. PICK view \in {db, before}, query \in Queries :
        /\ reader.page > 0 => query = reader.query
        /\ Read(view)
        /\ LET items == Page(view, query, reader.page)
               useful == {d \in Found(db, query) :
                            carried.step # "find" => TxTime[d] >= TxTime[carried.doc]}
           IN  reader' = [what |-> IF Cardinality(items) < PageSize THEN "listed" ELSE "pages",
                          query |-> query, page |-> reader.page + 1,
                          seen |-> reader.seen \cup items,
                          kept |-> IF reader.page = 0 THEN useful ELSE reader.kept \cap useful,
                          doc |-> NoDoc]
  BY DEF TransferTxs
<1> DEFINE F == Found(db, query)
           k == reader.page
           items == Page(view, query, k)
           useful == {d \in F : carried.step # "find" => TxTime[d] >= TxTime[carried.doc]}
           kept == IF k = 0 THEN useful ELSE reader.kept \cap useful
<1>2. /\ reader'.what = IF Cardinality(items) < PageSize THEN "listed" ELSE "pages"
      /\ reader'.query = query /\ reader'.page = k + 1 /\ reader'.seen = reader.seen \cup items
      /\ reader'.kept = kept
  BY <1>1
<1>3. reader'.what # "idle"
  BY <1>2
<1>4. SUFFICES ASSUME ~stale'
               PROVE  PageInv'
  BY <1>3 DEF PageInv
<1>5. view = db /\ ~stale
  BY <1>1, <1>4, ReadFresh
<1>6. /\ k \in Nat /\ PageSize \in Nat /\ PageSize > 0 /\ F \in SUBSET Doc
  BY Typed, HomeAssumption DEF Stored, Reader, Found, In
<1>7. items = {e \in F : Place(F, e) \in k * PageSize .. (k + 1) * PageSize - 1}
  BY <1>5 DEF Page, Place, NewerIn
<1>8. /\ k * PageSize \in Nat /\ (k + 1) * PageSize = k * PageSize + PageSize
  BY <1>6
<1>9. ASSUME NEW d \in kept, d \notin reader.seen \cup items
      PROVE  /\ d \in F /\ Newer(query, d) = NewerIn(F, d)
             /\ Place(F, d) >= (k + 1) * PageSize
  <2>1. d \in F /\ d \in Doc /\ (carried.step # "find" => TxTime[d] >= TxTime[carried.doc])
    BY <1>6, <1>9
  <2>2. Newer(query, d) = NewerIn(F, d)
    <3>1. CASE carried.step = "find"
      BY <3>1 DEF Newer, NewerIn, InHand
    <3>2. CASE carried.step # "find"
      <4>1. carried.doc \in Doc
        BY <3>2 DEF Stored, CollInv
      <4>2. TxTime[carried.doc] \in Nat /\ TxTime[d] \in Nat
        BY <2>1, <4>1, HomeAssumption
      <4>3. ~(TxTime[carried.doc] > TxTime[d])
        BY <2>1, <3>2, <4>2
      <4> QED
        BY <3>2, <4>3 DEF Newer, NewerIn, InHand
    <3> QED
      BY <3>1, <3>2
  <2>3. Place(F, d) \in Nat
    BY <1>6, <2>1, PlaceTyped
  <2>4. Place(F, d) >= k * PageSize
    <3>1. CASE k = 0
      BY <1>6, <2>3, <3>1
    <3>2. CASE k # 0
      <4>1. reader.what = "pages" /\ query = reader.query
        <5>1. reader.what # "idle"
          BY <3>2 DEF PageInv, NoReader
        <5> QED
          BY <1>1, <1>6, <3>2, <5>1 DEF TransferTxs
      <4>2. OnPage(d)
        BY <1>5, <1>9, <3>2, <4>1 DEF PageInv
      <4>3. Cardinality(Newer(query, d)) >= k * PageSize
        BY <1>9, <2>1, <4>1, <4>2 DEF OnPage
      <4> QED
        BY <2>2, <4>3 DEF Place
    <3> QED
      BY <3>1, <3>2
  <2>5. ~(Place(F, d) \in k * PageSize .. (k + 1) * PageSize - 1)
    BY <1>7, <1>9, <2>1
  <2>6. Place(F, d) >= (k + 1) * PageSize
    <3> HIDE DEF k
    <3> QED
      BY <1>6, <1>8, <2>3, <2>4, <2>5
  <2> QED
    BY <2>1, <2>2, <2>6
<1>10. CASE Cardinality(items) < PageSize
  <2>1. reader'.what = "listed"
    BY <1>2, <1>10
  <2>2. \A d \in kept : d \in reader.seen \cup items
    <3> SUFFICES ASSUME NEW d \in kept, d \notin reader.seen \cup items
                 PROVE  FALSE
      OBVIOUS
    <3>1. d \in F /\ Place(F, d) >= (k + 1) * PageSize
      BY <1>9
    <3>2. Cardinality(items) >= PageSize
      <4> HIDE DEF F, items, k
      <4> QED
        BY <1>6, <1>7, <3>1, PageFull
    <3>3. Cardinality(items) \in Nat
      <4>1. items \in SUBSET Doc
        BY <1>6, <1>7
      <4> QED
        BY <4>1, DocsFinite
    <3> HIDE DEF items
    <3> QED
      BY <1>6, <1>10, <3>2, <3>3
  <2> HIDE DEF kept, items
  <2> QED
    BY <1>2, <2>1, <2>2 DEF PageInv
<1>11. CASE ~(Cardinality(items) < PageSize)
  <2>1. reader'.what = "pages"
    BY <1>2, <1>11
  <2>2. UNCHANGED <<db, reached, carried>>
    BY DEF TransferTxs, env
  <2>3. ASSUME NEW d \in kept
        PROVE  OnPage(d)'
    <3>1. d \in F /\ d \in Doc /\ db["latest"][d] \in Useful
      BY <1>6, <2>3 DEF Found, In
    <3>2. reached[d] # {}
      BY <3>1, StatusNone DEF Stored, CollInv, Coll
    <3>3. d \in reader'.seen \/ Cardinality(Newer(query, d)) >= (k + 1) * PageSize
      BY <1>2, <1>9, <2>3 DEF Place
    <3>4. Newer(reader.query, d)' = Newer(query, d)
      <4>1. Found(db, reader.query)' = Found(db, query) /\ InHand' = InHand
        BY <1>2, <2>2 DEF Found, In, InHand, Matches
      <4> QED
        BY <4>1 DEF Newer, NewerIn
    <3> HIDE DEF k, items
    <3> QED
      BY <1>2, <2>2, <3>1, <3>2, <3>3, <3>4 DEF OnPage
  <2> HIDE DEF kept, items
  <2> QED
    BY <1>2, <2>1, <2>3 DEF PageInv
<1> QED
  BY <1>10, <1>11

LEMMA PageStep ==
  ASSUME Stored, PageInv, [Next]_vars
  PROVE  PageInv'
<1>1. ~stale' => ~stale
  BY StaleStays DEF Stored
<1>2. CASE UNCHANGED reader
  <2>1. reader.kept \subseteq Doc
    BY Typed DEF Stored, Reader
  <2>2. ASSUME ~stale', reader.what = "pages", NEW d \in reader.kept
        PROVE  OnPage(d)'
    BY <1>1, <1>2, <2>1, <2>2, OnPageStays DEF PageInv
  <2> QED
    BY <1>1, <1>2, <2>2 DEF PageInv
<1>3. ASSUME reader'.what \notin {"pages", "listed"},
             reader'.what = "idle" => reader' = NoReader
      PROVE  PageInv'
  BY <1>3 DEF PageInv, NoReader
<1>4. ASSUME NEW d \in Doc, TxDetailLatest(d)
      PROVE  PageInv'
  <2>1. reader' = NoReader \/ reader' = [NoReader EXCEPT !.what = "detail", !.doc = d]
    BY <1>4 DEF TxDetailLatest
  <2>2. NoReader.what = "idle" /\ [NoReader EXCEPT !.what = "detail", !.doc = d].what = "detail"
    BY DEF NoReader
  <2> QED
    BY <1>3, <2>1, <2>2
<1>5. CASE TxDetailHistory
  <2>1. reader' = NoReader \/ reader' = [reader EXCEPT !.what = "missing"]
    BY <1>5 DEF TxDetailHistory
  <2> QED
    BY <1>3, <2>1, Typed DEF NoReader, Stored, Reader
<1>6. CASE Leave
  BY <1>3, <1>6 DEF Leave, NoReader
<1>7. CASE Environment
  BY <1>2, <1>7 DEF Environment, Tick, DayPasses, Sync, Progress, MigrateFind, MigrateInsert,
                    MigrateDelete, MigrateFails
<1>8. ASSUME NEW p \in Run, RunStep(p) \/ Abort(p)
      PROVE  PageInv'
  BY <1>2, <1>8 DEF RunStep, Start, Count, UpdateOne, FindOne, Call, Upto, CallRecord,
                    UpdateOneIncre, Abort
<1> QED
  BY <1>2, <1>4, <1>5, <1>6, <1>7, <1>8, TurnPage DEF Next, Readers, vars

\* Turning the pages misses no transfer that is there all the time, for any
\* transfers, any page size and any number of pages (TransferTxs, migrateNormal).
THEOREM NothingSkipped == Spec => []PagesSkipNothing
<1>1. Init => PageInv
  BY DEF Init, PageInv, NoReader
<1>2. Stored /\ PageInv /\ [Next]_vars => (Stored /\ PageInv)'
  BY NextStored, PageStep
<1>3. PageInv => PagesSkipNothing
  BY DEF PageInv, PagesSkipNothing
<1> QED
  BY <1>1, <1>2, <1>3, InitStored, PTL DEF Spec
=============================================================================

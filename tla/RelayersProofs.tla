---------------------------- MODULE RelayersProofs ----------------------------
(* What Relayers guarantees for any addresses, keys and channels, any lists  *)
(* of the registry, and any number of faults.                                *)
EXTENDS Relayers, FiniteSetTheorems, TLAPS

-----------------------------------------------------------------------------
(* Pairs of addresses *)

\* Two addresses are matched by pairs of them.
LEMMA MatchedIsPair ==
  ASSUME NEW C, NEW used, used \subseteq Usage(C), NEW x \in Address, NEW y \in Address,
         NEW t \in Matched(x, y, used)
  PROVE  t \in Pair(C) /\ Ends(t) = {x, y} /\ ~Single(t)
<1>1. PICK u \in used : t = GenerateChannelPairInfo(x, u.channel, y, u.other)
  BY DEF Matched
<1>2. u.channel \in C /\ u.other \in C
  BY DEF Usage
<1>3. x # NoAddress /\ y # NoAddress
  BY PairsAssumption
<1>4. CASE ConfirmRelayerPair(x, y)
  <2>1. t = [a |-> x, chA |-> u.channel, b |-> y, chB |-> u.other]
    BY <1>1, <1>4 DEF GenerateChannelPairInfo
  <2> QED
    BY <1>2, <1>3, <2>1 DEF Pair, Ends, Single
<1>5. CASE ~ConfirmRelayerPair(x, y)
  <2>1. t = [a |-> y, chA |-> u.other, b |-> x, chB |-> u.channel]
    BY <1>1, <1>5 DEF GenerateChannelPairInfo
  <2> QED
    BY <1>2, <1>3, <2>1 DEF Pair, Ends, Single
<1> QED
  BY <1>4, <1>5

\* Likewise if they share no channel.
LEMMA ByAddressPairIsPair ==
  ASSUME NEW C, NEW used, used \subseteq Usage(C), NEW x \in Address \cup {NoAddress},
         NEW y \in Address \cup {NoAddress}, NEW t \in GetChannelPairInfoByAddressPair(x, y, used)
  PROVE  t \in Pair(C) /\ Ends(t) = {x, y}
<1>1. x # NoAddress /\ y # NoAddress /\ x \in Address /\ y \in Address
  BY DEF GetChannelPairInfoByAddressPair
<1>2. CASE t \in Matched(x, y, used)
  BY <1>1, <1>2, MatchedIsPair
<1>3. CASE t \notin Matched(x, y, used)
  <2>1. t = GenerateChannelPairInfo(x, NoChannel, y, NoChannel)
    BY <1>1, <1>3 DEF GetChannelPairInfoByAddressPair
  <2>2. \/ t = [a |-> x, chA |-> NoChannel, b |-> y, chB |-> NoChannel]
        \/ t = [a |-> y, chA |-> NoChannel, b |-> x, chB |-> NoChannel]
    BY <2>1 DEF GenerateChannelPairInfo
  <2> QED
    BY <1>1, <2>2 DEF Pair, Ends
<1> QED
  BY <1>2, <1>3

LEMMA EndsOfPair ==
  ASSUME NEW C, NEW p \in Pair(C)
  PROVE  p.a \in Ends(p) /\ p.a \in Address /\ Ends(p) \subseteq Address
BY PairsAssumption DEF Pair, Ends

LEMMA AddressesOf ==
  ASSUME NEW C, NEW pairs, pairs \subseteq Pair(C)
  PROVE  Addresses(pairs) \subseteq Address
BY EndsOfPair DEF Addresses

\* A one-sided pair is replaced by pairs of its address and one of the list.
LEMMA CounterpartIsPair ==
  ASSUME NEW C, NEW used, used \subseteq Usage(C), NEW pairs, pairs \subseteq Pair(C),
         NEW p \in pairs, NEW t \in Counterparts(p, pairs, used)
  PROVE  t \in Pair(C) /\ p.a \in Ends(t) /\ Ends(t) \subseteq Addresses(pairs) /\ ~Single(t)
<1>1. PICK y \in Addresses(pairs) : t \in Matched(p.a, y, used)
  BY DEF Counterparts
<1>2. p.a \in Address /\ p.a \in Addresses(pairs) /\ y \in Address
  BY EndsOfPair, AddressesOf DEF Addresses
<1>3. t \in Pair(C) /\ Ends(t) = {p.a, y} /\ ~Single(t)
  BY <1>1, <1>2, MatchedIsPair
<1> QED
  BY <1>1, <1>2, <1>3

\* singleSideAddressMatchPair keeps the addresses of a list.
LEMMA SingleSideKeeps ==
  ASSUME NEW C, NEW used, used \subseteq Usage(C), NEW pairs, pairs \subseteq Pair(C)
  PROVE  /\ SingleSideAddressMatchPair(pairs, used) \subseteq Pair(C)
         /\ Addresses(SingleSideAddressMatchPair(pairs, used)) = Addresses(pairs)
<1> DEFINE new == SingleSideAddressMatchPair(pairs, used)
           singles == MatchedSingles(pairs, used)
<1>1. singles \subseteq pairs
  BY DEF MatchedSingles
<1>2. ASSUME NEW t \in new
      PROVE  t \in Pair(C) /\ Ends(t) \subseteq Addresses(pairs)
  <2>1. CASE t \in pairs
    BY <2>1 DEF Addresses
  <2>2. CASE t \notin pairs
    <3>1. PICK p \in singles : t \in Counterparts(p, pairs, used)
      BY <2>2 DEF SingleSideAddressMatchPair
    <3> QED
      BY <1>1, <3>1, CounterpartIsPair
  <2> QED
    BY <2>1, <2>2
<1>3. ASSUME NEW x \in Addresses(pairs)
      PROVE  x \in Addresses(new)
  <2>1. PICK p \in pairs : x \in Ends(p)
    BY DEF Addresses
  <2>2. CASE p \notin singles
    <3>1. p \in new
      BY <2>2 DEF SingleSideAddressMatchPair
    <3> QED
      BY <2>1, <3>1 DEF Addresses
  <2>3. CASE p \in singles
    <3>1. PICK t \in Counterparts(p, pairs, used) : TRUE
      BY <2>3 DEF MatchedSingles
    <3>2. p.a \in Ends(t) /\ ~Single(t)
      BY <3>1, CounterpartIsPair
    <3>3. t \in new
      BY <2>3, <3>1, <3>2 DEF SingleSideAddressMatchPair, MatchedSingles
    <3>4. x = p.a
      BY <2>1, <2>3 DEF MatchedSingles, Single, Ends
    <3> QED
      BY <3>2, <3>3, <3>4 DEF Addresses
  <2> QED
    BY <2>2, <2>3
<1>4. Addresses(new) \subseteq Addresses(pairs)
  BY <1>2 DEF Addresses
<1> QED
  BY <1>2, <1>3, <1>4

\* So does removeEmptyChannelData,
LEMMA RemoveEmptyKeeps ==
  ASSUME NEW pairs
  PROVE  /\ RemoveEmptyChannelData(pairs) \subseteq pairs
         /\ Addresses(RemoveEmptyChannelData(pairs)) = Addresses(pairs)
<1> DEFINE new == RemoveEmptyChannelData(pairs)
<1>1. new \subseteq pairs
  BY DEF RemoveEmptyChannelData
<1>2. ASSUME NEW x \in Addresses(pairs)
      PROVE  x \in Addresses(new)
  <2>1. PICK p \in pairs : x \in Ends(p)
    BY DEF Addresses
  <2>2. CASE p \in new
    BY <2>1, <2>2 DEF Addresses
  <2>3. CASE p \notin new
    <3>1. PICK q \in pairs : ~NoChannels(q) /\ <<q.a, q.b>> = <<p.a, p.b>>
      BY <2>3 DEF RemoveEmptyChannelData
    <3>2. q \in new /\ Ends(q) = Ends(p)
      BY <3>1 DEF RemoveEmptyChannelData, Ends
    <3> QED
      BY <2>1, <3>2 DEF Addresses
  <2> QED
    BY <2>2, <2>3
<1>3. Addresses(new) \subseteq Addresses(pairs)
  BY <1>1 DEF Addresses
<1> QED
  BY <1>1, <1>2, <1>3

\* and matchRelayerChannelPairInfo.
LEMMA MatchKeeps ==
  ASSUME NEW C, NEW used, used \subseteq Usage(C), NEW pairs, pairs \subseteq Pair(C)
  PROVE  /\ MatchRelayerChannelPairInfo(pairs, used) \subseteq Pair(C)
         /\ Addresses(MatchRelayerChannelPairInfo(pairs, used)) = Addresses(pairs)
<1> DEFINE found == UNION {GetChannelPairInfoByAddressPair(p.a, p.b, used) : p \in pairs}
<1>1. ASSUME NEW t \in found
      PROVE  t \in Pair(C) /\ Ends(t) \subseteq Addresses(pairs)
  <2>1. PICK p \in pairs : t \in GetChannelPairInfoByAddressPair(p.a, p.b, used)
    OBVIOUS
  <2>2. p.a \in Address /\ p.b \in Address \cup {NoAddress}
    BY DEF Pair
  <2>3. t \in Pair(C) /\ Ends(t) = {p.a, p.b}
    BY <2>1, <2>2, ByAddressPairIsPair
  <2>4. Ends(t) \subseteq Ends(p)
    BY <2>3 DEF Ends
  <2> QED
    BY <2>3, <2>4 DEF Addresses
<1>2. pairs \cup found \subseteq Pair(C)
  BY <1>1
<1>3. Addresses(pairs \cup found) = Addresses(pairs)
  BY <1>1 DEF Addresses
<1>4. MatchRelayerChannelPairInfo(pairs, used)
        \in {pairs, RemoveEmptyChannelData(pairs \cup found)}
  BY DEF MatchRelayerChannelPairInfo
<1> QED
  BY <1>2, <1>3, <1>4, RemoveEmptyKeeps

-----------------------------------------------------------------------------
(* Numbers and folds *)

NatLess == {p \in Nat \X Nat : p[1] < p[2]}

LEMMA NatLessWellFounded == IsWellFoundedOn(NatLess, Nat)
<1>1. OpToRel(<, Nat) = NatLess
  BY DEF OpToRel, NatLess
<1> QED
  BY <1>1, NatLessThanWellFounded

\* A set of numbers that is not empty has a least one.
LEMMA LeastExists ==
  ASSUME NEW T, T \subseteq Nat, T # {}
  PROVE  \E x \in T : \A y \in T : x <= y
<1>1. PICK x \in T : \A y \in T : <<y, x>> \notin NatLess
  BY NatLessWellFounded, WFMin
<1>2. ASSUME NEW y \in T
      PROVE  x <= y
  <2>1. <<y, x>> \notin NatLess
    BY <1>1
  <2>2. y \in Nat /\ x \in Nat
    OBVIOUS
  <2> QED
    BY <2>1, <2>2 DEF NatLess
<1> QED
  BY <1>2

\* A set of numbers that has a bound and is not empty has a greatest one.
LEMMA GreatestExists ==
  ASSUME NEW T, T \subseteq Nat, T # {}, NEW b \in Nat, \A y \in T : y <= b
  PROVE  \E x \in T : \A y \in T : y <= x
<1> DEFINE Bounds == {n \in Nat : \A y \in T : y <= n}
<1>1. PICK m \in Bounds : \A n \in Bounds : m <= n
  <2>1. b \in Bounds /\ Bounds \subseteq Nat
    OBVIOUS
  <2> HIDE DEF Bounds
  <2> QED
    BY <2>1, LeastExists
<1>2. ASSUME m \notin T
      PROVE  FALSE
  <2>1. PICK y \in T : TRUE
    OBVIOUS
  <2>2. m - 1 \in Nat
    BY <1>1, <1>2, <2>1
  <2>3. \A z \in T : z <= m - 1
    BY <1>1, <1>2
  <2> QED
    BY <1>1, <2>2, <2>3
<1> QED
  BY <1>1, <1>2

\* The functions that satisfy the recursive equation of a fold, the step and the
\* choice given as functions
FoldsOf(S, A, base, op, pick) ==
  {g \in [SUBSET S -> A] : \A U \in SUBSET S :
     g[U] = IF U = {} THEN base ELSE op[<<pick[U], g[U \ {pick[U]}]>>]}

\* There is one for a finite set: on its small subsets first.
LEMMA FoldExists ==
  ASSUME NEW S, IsFiniteSet(S), NEW A, NEW base, base \in A, NEW op, op \in [S \X A -> A],
         NEW pick, \A U \in SUBSET S : U # {} => pick[U] \in U
  PROVE  \E g : g \in FoldsOf(S, A, base, op, pick)
<1> DEFINE Rhs(g, U) == IF U = {} THEN base ELSE op[<<pick[U], g[U \ {pick[U]}]>>]
           Defined(n) == \E g \in [SUBSET S -> A] :
                           \A U \in SUBSET S : Cardinality(U) <= n => g[U] = Rhs(g, U)
           Bad == {n \in Nat : ~Defined(n)}
<1>1. \A U \in SUBSET S : IsFiniteSet(U) /\ Cardinality(U) \in Nat
  BY FS_Subset, FS_CardinalityType
<1>2. Defined(0)
  <2> DEFINE g == [U \in SUBSET S |-> base]
  <2>1. \A U \in SUBSET S : Cardinality(U) <= 0 => U = {}
    BY <1>1, FS_EmptySet
  <2>2. g \in [SUBSET S -> A] /\ \A U \in SUBSET S : Cardinality(U) <= 0 => g[U] = Rhs(g, U)
    BY <2>1
  <2> QED
    BY <2>2
<1>3. ASSUME NEW n \in Nat, Defined(n)
      PROVE  Defined(n + 1)
  <2>1. PICK g \in [SUBSET S -> A] :
          \A U \in SUBSET S : Cardinality(U) <= n => g[U] = Rhs(g, U)
    BY <1>3
  <2> DEFINE h == [U \in SUBSET S |-> Rhs(g, U)]
  <2>2. h \in [SUBSET S -> A]
    <3>1. ASSUME NEW U \in SUBSET S
          PROVE  Rhs(g, U) \in A
      BY <2>1
    <3> QED
      BY <3>1
  <2>3. ASSUME NEW U \in SUBSET S, Cardinality(U) <= n + 1
        PROVE  h[U] = Rhs(h, U)
    <3>1. CASE U = {}
      BY <3>1
    <3>2. CASE U # {}
      <4> DEFINE V == U \ {pick[U]}
      <4>1. pick[U] \in U /\ V \in SUBSET S
        BY <3>2
      <4>2. Cardinality(V) <= n
        <5>1. Cardinality(V) = Cardinality(U) - 1
          BY <1>1, <4>1, FS_RemoveElement
        <5> QED
          BY <1>1, <2>3, <5>1
      <4>3. h[V] = g[V]
        BY <2>1, <4>1, <4>2
      <4> QED
        BY <3>2, <4>1, <4>3
    <3> QED
      BY <3>1, <3>2
  <2> HIDE DEF h
  <2> QED
    BY <2>2, <2>3
<1>4. Bad = {}
  <2>1. SUFFICES ASSUME Bad # {}
                 PROVE  FALSE
    OBVIOUS
  <2>2. PICK n \in Bad : \A m \in Bad : n <= m
    <3>1. Bad \subseteq Nat
      OBVIOUS
    <3> HIDE DEF Bad
    <3> QED
      BY <2>1, <3>1, LeastExists
  <2> HIDE DEF Defined
  <2>3. n # 0
    BY <1>2
  <2>4. n - 1 \in Nat /\ n - 1 \notin Bad
    BY <2>2, <2>3
  <2>5. Defined((n - 1) + 1)
    BY <1>3, <2>4
  <2> QED
    BY <2>5
<1>5. Defined(Cardinality(S))
  BY <1>1, <1>4
<1>6. \A U \in SUBSET S : Cardinality(U) <= Cardinality(S)
  BY FS_Subset
<1> QED
  BY <1>5, <1>6 DEF FoldsOf

\* What a fold gives is of a type that the step keeps.
LEMMA FoldTyped ==
  ASSUME NEW S, IsFiniteSet(S), NEW A, NEW g, g[{}] \in A,
         \A U \in SUBSET S : U # {} => \E x \in U : g[U \ {x}] \in A => g[U] \in A
  PROVE  g[S] \in A
<1> DEFINE Bad == {U \in SUBSET S : g[U] \notin A}
<1>1. SUFFICES ASSUME Bad # {}
               PROVE  FALSE
  BY DEF Bad
<1>2. FiniteSubsetsOf(S) = SUBSET S
  BY FS_FiniteSubsetsOfFinite
<1>3. PICK U \in Bad : \A V \in Bad : <<V, U>> \notin StrictSubsetOrdering(S)
  <2>1. Bad \subseteq FiniteSubsetsOf(S)
    BY <1>2
  <2> HIDE DEF Bad
  <2> QED
    BY <1>1, <2>1, FS_StrictSubsetOrderingWellFounded, WFMin
<1>4. U # {}
  OBVIOUS
<1>5. PICK x \in U : g[U \ {x}] \in A => g[U] \in A
  BY <1>4
<1>6. <<U \ {x}, U>> \in StrictSubsetOrdering(S)
  BY <1>5 DEF StrictSubsetOrdering
<1>7. U \ {x} \notin Bad
  BY <1>3, <1>6
<1> QED
  BY <1>5, <1>7

SumOf(f, S) == MapThenSumSet(LAMBDA y : f[y], S)

\* A sum over a finite set of numbers is a number.
LEMMA SumTyped ==
  ASSUME NEW S, IsFiniteSet(S), NEW f, \A x \in S : f[x] \in Nat
  PROVE  SumOf(f, S) \in Nat
<1> DEFINE op == [q \in S \X Nat |-> f[q[1]] + q[2]]
           pick == [U \in SUBSET S |-> CHOOSE x \in U : TRUE]
           Rhs(g, U) == IF U = {} THEN 0
                        ELSE f[CHOOSE x \in U : TRUE] + g[U \ {CHOOSE x \in U : TRUE}]
           it == CHOOSE g : g = [U \in SUBSET S |-> Rhs(g, U)]
<1>1. \E g : g = [U \in SUBSET S |-> Rhs(g, U)]
  <2>1. op \in [S \X Nat -> Nat] /\ \A x \in S, n \in Nat : op[<<x, n>>] = f[x] + n
    OBVIOUS
  <2>2. \A U \in SUBSET S : U # {} => pick[U] \in U
    OBVIOUS
  <2>3. PICK g : g \in FoldsOf(S, Nat, 0, op, pick)
    <3> HIDE DEF op, pick
    <3> QED
      BY <2>1, <2>2, FoldExists
  <2>4. ASSUME NEW U \in SUBSET S
        PROVE  g[U] = Rhs(g, U)
    <3>1. CASE U = {}
      BY <2>3, <3>1 DEF FoldsOf
    <3>2. CASE U # {}
      <4>1. pick[U] \in S /\ U \ {pick[U]} \in SUBSET S /\ pick[U] = CHOOSE x \in U : TRUE
        BY <2>2, <3>2
      <4>2. g[U \ {pick[U]}] \in Nat
        BY <2>3, <4>1 DEF FoldsOf
      <4>3. op[<<pick[U], g[U \ {pick[U]}]>>] = f[pick[U]] + g[U \ {pick[U]}]
        <5> HIDE DEF op, pick
        <5> QED
          BY <2>1, <4>1, <4>2
      <4>4. g[U] = op[<<pick[U], g[U \ {pick[U]}]>>]
        BY <2>3, <3>2 DEF FoldsOf
      <4> QED
        BY <3>2, <4>1, <4>3, <4>4
    <3> QED
      BY <3>1, <3>2
  <2>5. g \in [SUBSET S -> Nat]
    BY <2>3 DEF FoldsOf
  <2>6. g = [U \in SUBSET S |-> Rhs(g, U)]
    <3> HIDE DEF Rhs
    <3> QED
      BY <2>4, <2>5
  <2> QED
    BY <2>6
<1>2. it = [U \in SUBSET S |-> Rhs(it, U)]
  BY <1>1
<1> HIDE DEF it
<1>3. it[{}] \in Nat
  <2>1. it[{}] = 0
    BY <1>2
  <2> QED
    BY <2>1
<1>4. ASSUME NEW U \in SUBSET S, U # {}
      PROVE  \E x \in U : it[U \ {x}] \in Nat => it[U] \in Nat
  <2>1. PICK x \in U : x = CHOOSE z \in U : TRUE
    BY <1>4
  <2>2. it[U] = f[x] + it[U \ {x}]
    BY <1>2, <1>4, <2>1
  <2>3. f[x] \in Nat
    BY <2>1
  <2>4. it[U \ {x}] \in Nat => it[U] \in Nat
    BY <2>2, <2>3
  <2> QED
    BY <2>1, <2>4
<1>5. it[S] \in Nat
  BY <1>3, <1>4, FoldTyped
<1>6. SumOf(f, S) = it[S]
  BY DEF it, SumOf, MapThenSumSet, MapThenFoldSet
<1> QED
  BY <1>5, <1>6

-----------------------------------------------------------------------------
(* Typing, and what the cron task has in hand at its stages *)

Docs == [Id -> Relayer \cup {NoRelayer}]
AddressDocs == [Address -> AddressDoc]
View == [relayer : Docs, address : AddressDocs]

WorkOK ==
  /\ stage \in {"pairs", "status"} =>
       /\ cur.addr \in Address
       /\ cur.status \in {"pubkey", "registry"}
       /\ Addresses(cur.pairs) = Addresses(cur.read) \cup {cur.addr}
       /\ cur.id = 0 => \A p \in cur.pairs : p.a = cur.addr
  /\ \A r \in Id : step[r] # "done" => stage = "check" /\ page[r] # NoRelayer
  /\ stage # "check" => page = NoPage

Typed == TypeOK /\ WorkOK

\* What counts as gathered, or is about to, is listed.
InList(x) == x \in Listed(relayer) \cup taken \/ "insert" \in trouble
GatheredInv ==
  /\ \A x \in Address : Gathered(address[x]) => InList(x)
  /\ \A x \in Address : Gathered(init[x]) => InList(x)
  /\ stage = "status" => InList(cur.addr)

\* No two relayers without a name list addresses of one key, as long as no fault
\* splits them.  What they list was gathered with its key, but for an address
\* whose status is about to be written;
Clean == trouble \cap {"stale", "lookup", "status", "crash"} = {}
KeyedOK ==
  /\ OneRelayerPerKey(relayer)
  /\ \A r \in Nameless(relayer) : \A x \in Addresses(relayer[r].pairs) :
       address[x].key /\ (Gathered(address[x]) \/ (stage = "status" /\ x = cur.addr))

\* the addresses in the queue are still to be gathered;
QueueOK ==
  /\ stage \in {"gather", "pairs", "status"} => queue \subseteq ToBeGathered(address)
  /\ stage \in {"pairs", "status"} => cur.addr \in queue

\* a new relayer is made, or one without a name gets the address in hand, only if
\* no other one lists its key;
CurOK ==
  stage = "pairs" /\ cur.id \in Nameless(relayer) \cup {0} =>
    /\ cur.id = 0 => cur.read = {}
    /\ \A r \in Nameless(relayer) :
         /\ \A y \in Addresses(relayer[r].pairs) : KeyOf[y] = KeyOf[cur.addr] => r = cur.id
         /\ r = cur.id => Addresses(cur.read) \subseteq Addresses(relayer[r].pairs)

\* the workers and Collect have no list in hand that adds to one of these.
HandsOK ==
  /\ \A r \in Nameless(relayer) :
       page[r] # NoRelayer => Addresses(page[r].pairs) \subseteq Addresses(relayer[r].pairs)
  /\ collect.id \notin Nameless(relayer)

KeyInv == Clean => KeyedOK /\ QueueOK /\ CurOK /\ HandsOK

LEMMA Sorts ==
  /\ Id \subseteq Nat /\ 0 \notin Id
  /\ NoAddressDoc \in AddressDoc /\ Time \subseteq Nat /\ 0 \in Time
  /\ NoPage \in Docs /\ Nothing \in View
  /\ NoCollect \in [at : {"idle", "find", "remove"}, file : SUBSET (Address \X Address),
                    id : Id \cup {0}, pairs : SUBSET Pair(Channel), got : SUBSET Pair(Channel),
                    left : SUBSET (Address \X Address), found : SUBSET Id]
  /\ NoCur \in [addr : Address \cup {NoAddress}, id : Id \cup {0}, read : SUBSET Pair(Channel),
                pairs : SUBSET Pair(Channel), status : GatherStatus]
  /\ NoTimes \in [ChannelId -> Time]
<1>1. NoAddressDoc \in AddressDoc
  BY DEF NoAddressDoc, AddressDoc
<1>2. NoPage \in Docs
  BY DEF NoPage, Docs
<1>3. Nothing \in View
  BY <1>1, <1>2 DEF Nothing, View, AddressDocs
<1>4. Id \subseteq Nat /\ 0 \notin Id /\ Time \subseteq Nat /\ 0 \in Time
  BY RelayersAssumption DEF Id, Time
<1>5. NoCollect \in [at : {"idle", "find", "remove"}, file : SUBSET (Address \X Address),
                    id : Id \cup {0}, pairs : SUBSET Pair(Channel), got : SUBSET Pair(Channel),
                    left : SUBSET (Address \X Address), found : SUBSET Id]
  BY DEF NoCollect
<1>6. NoCur \in [addr : Address \cup {NoAddress}, id : Id \cup {0}, read : SUBSET Pair(Channel),
                pairs : SUBSET Pair(Channel), status : GatherStatus]
  BY DEF NoCur, GatherStatus
<1>7. NoTimes \in [ChannelId -> Time]
  BY <1>4 DEF NoTimes
<1> QED
  BY <1>1, <1>2, <1>3, <1>4, <1>5, <1>6, <1>7

\* The figures of the collections are those of known relayers.
LEMMA KnownTyped ==
  ASSUME NEW docs \in Docs, NEW r \in Known(docs)
  PROVE  r \in Id /\ docs[r] \in Relayer /\ docs[r].pairs \in SUBSET Pair(Channel)
BY DEF Docs, Known, Relayer

LEMMA ServedTyped ==
  ASSUME NEW xs, xs \subseteq Address
  PROVE  Cardinality({ChainOf[x] : x \in xs}) \in 0 .. Cardinality(Chain)
<1>1. {ChainOf[x] : x \in xs} \subseteq Chain /\ IsFiniteSet(Chain)
  BY RelayersAssumption
<1>2. Cardinality({ChainOf[x] : x \in xs}) \in Nat /\ Cardinality(Chain) \in Nat
  BY <1>1, FS_Subset, FS_CardinalityType
<1>3. Cardinality({ChainOf[x] : x \in xs}) <= Cardinality(Chain)
  BY <1>1, FS_Subset
<1> QED
  BY <1>2, <1>3

LEMMA NewTyped ==
  ASSUME NEW named \in BOOLEAN, NEW pairs \in SUBSET Pair(Channel),
         NEW served \in 0 .. Cardinality(Chain)
  PROVE  NewRelayer(named, pairs, served) \in Relayer
BY Sorts DEF NewRelayer, Relayer

LEMMA UpdateInfoTyped ==
  ASSUME relayer \in Docs, NEW r \in Known(relayer), NEW pairs \in SUBSET Pair(Channel)
  PROVE  /\ UpdateChannelPairInfo(r, pairs) \in Docs
         /\ pairs # {} => /\ UpdateChannelPairInfo(r, pairs)[r].pairs = pairs
                          /\ UpdateChannelPairInfo(r, pairs)[r].named = relayer[r].named
         /\ pairs = {} => UpdateChannelPairInfo(r, pairs) = relayer
         /\ \A q \in Id \ {r} : UpdateChannelPairInfo(r, pairs)[q] = relayer[q]
         /\ Known(UpdateChannelPairInfo(r, pairs)) = Known(relayer)
<1> DEFINE doc == [relayer[r] EXCEPT !.pairs = pairs, !.served = Cardinality(GetChains(pairs))]
<1>1. relayer[r] \in Relayer /\ r \in Id
  BY KnownTyped
<1>2. Cardinality(GetChains(pairs)) \in 0 .. Cardinality(Chain)
  BY AddressesOf, ServedTyped DEF GetChains
<1>3. doc \in Relayer /\ doc.pairs = pairs /\ doc.named = relayer[r].named
  <2> HIDE DEF Addresses, GetChains
  <2> QED
    BY <1>1, <1>2 DEF Relayer
<1>4. CASE pairs # {}
  <2>1. UpdateChannelPairInfo(r, pairs) = [relayer EXCEPT ![r] = doc]
    BY <1>4 DEF UpdateChannelPairInfo
  <2> HIDE DEF doc
  <2>2. doc # NoRelayer
    BY <1>3, RelayersAssumption
  <2> QED
    BY <1>1, <1>3, <1>4, <2>1, <2>2 DEF Docs, Known
<1>5. CASE pairs = {}
  BY <1>5 DEF UpdateChannelPairInfo
<1> QED
  BY <1>4, <1>5

\* A new relayer comes where no task has one in hand.
LEMMA InsertOneTyped ==
  ASSUME relayer \in Docs, FreshIds # {}, NEW doc \in Relayer
  PROVE  \E n \in FreshIds : /\ n \in Id \ Known(relayer)
                             /\ InsertOne(doc) = [relayer EXCEPT ![n] = doc]
                             /\ InsertOne(doc) \in Docs
                             /\ Known(InsertOne(doc)) = Known(relayer) \cup {n}
<1>1. FreshIds \subseteq Nat
  BY Sorts DEF FreshIds
<1>2. PICK n \in FreshIds : n = Min(FreshIds)
  <2>1. PICK x \in FreshIds : \A y \in FreshIds : x <= y
    BY <1>1, LeastExists
  <2> QED
    BY <2>1 DEF Min
<1>3. n \in Id \ Known(relayer) /\ InsertOne(doc) = [relayer EXCEPT ![n] = doc]
  BY <1>2 DEF FreshIds, InsertOne
<1>4. doc # NoRelayer
  BY RelayersAssumption
<1> QED
  BY <1>3, <1>4 DEF Docs, Known

LEMMA PutTyped ==
  ASSUME TypeOK, NEW docs \in Docs, NEW addresses \in AddressDocs, Put(docs, addresses)
  PROVE  /\ relayer' \in Docs /\ address' \in AddressDocs /\ before' \in View
         /\ relayer' = docs /\ address' = addresses
<1>1. Primary \in View /\ before \in View /\ Nothing \in View
  BY Sorts DEF TypeOK, Primary, View, Docs, AddressDocs
<1> QED
  BY <1>1 DEF Put

LEMMA SameTyped ==
  ASSUME TypeOK, UNCHANGED <<relayer, address, before>>
  PROVE  relayer' \in Docs /\ address' \in AddressDocs /\ before' \in View
BY DEF TypeOK, View, Docs, AddressDocs

LEMMA FailsTyped ==
  ASSUME TypeOK, NEW k \in Fault, Fails(k)
  PROVE  trouble' \in SUBSET Fault /\ faults' \in Nat /\ trouble' = trouble \cup {k}
BY DEF TypeOK, Fails

LEMMA WorksTyped ==
  ASSUME TypeOK, Works
  PROVE  trouble' \in SUBSET Fault /\ faults' \in Nat /\ trouble' = trouble
BY DEF TypeOK, Works

\* A view of the collections is typed; it is the state there is unless a
\* secondary answered.
LEMMA ReadTyped ==
  ASSUME TypeOK, NEW view \in {Primary, before}, Read(view)
  PROVE  /\ view \in View /\ trouble' \in SUBSET Fault /\ faults' \in Nat
         /\ trouble \subseteq trouble'
         /\ "stale" \notin trouble' => view = Primary
<1>1. Primary \in View /\ before \in View
  BY DEF TypeOK, Primary, View, Docs, AddressDocs
<1> QED
  BY <1>1, FailsTyped, WorksTyped DEF Read, Fails, Works, Fault, TypeOK

LEMMA ChainsTyped ==
  ASSUME TypeOK, \/ \E u \in Use : RelayPacket(u)
                 \/ \E x \in Address : UpdateClient(x)
                 \/ Tick
  PROVE  TypeOK'
<1>1. CASE \E u \in Use : RelayPacket(u)
  BY <1>1 DEF RelayPacket, TypeOK, cron, others
<1>2. CASE \E x \in Address : UpdateClient(x)
  BY <1>2 DEF UpdateClient, TypeOK, cron, others
<1>3. CASE Tick
  <2>1. now' \in Time
    BY <1>3, RelayersAssumption DEF Tick, TypeOK, Time
  <2> QED
    BY <1>3, <2>1 DEF Tick, TypeOK, cron, others
<1> QED
  BY <1>1, <1>2, <1>3

LEMMA InsertManyTyped ==
  ASSUME TypeOK, NEW docs \in AddressDocs
  PROVE  InsertMany(docs) \in AddressDocs
BY DEF InsertMany, TypeOK, AddressDocs

LEMMA UsesFinite ==
  ASSUME NEW S, S \subseteq Use
  PROVE  IsFiniteSet(S) /\ Cardinality(S) \in Nat
BY RelayersAssumption, FS_Subset, FS_CardinalityType

LEMMA StatisticsTyped ==
  ASSUME TypeOK, NEW c \in Chain, Statistics(c)
  PROVE  TypeOK'
<1>1. PICK lost \in {{}, {"stat"}, {"channels"}, {"addresses"}, {"stat", "channels", "addresses"}} :
        /\ IF lost = {} THEN Works ELSE Fails("other")
        /\ stat' = IF "stat" \in lost THEN stat ELSE SaveDenomStat(c)
        /\ uses' = IF "channels" \in lost THEN uses ELSE SaveAddrChannel(AddrChannels(c))
        /\ Put(relayer, IF "addresses" \in lost THEN address ELSE SaveRelayerAddr(AddrChannels(c)))
  BY DEF Statistics
<1>2. trouble' \in SUBSET Fault /\ faults' \in Nat
  BY <1>1, FailsTyped, WorksTyped DEF Fault
<1>3. stat' \in [Address -> Nat]
  <2>1. \A x \in Address : Cardinality({u \in relayed : u.addr = x}) \in Nat
    BY UsesFinite DEF TypeOK
  <2>2. SaveDenomStat(c) \in [Address -> Nat]
    BY <2>1 DEF SaveDenomStat, BatchSwap, RelayerDenomStatistics, TypeOK
  <2> QED
    BY <1>1, <2>2 DEF TypeOK
<1>4. uses' \in SUBSET Use
  BY <1>1 DEF SaveAddrChannel, AddrChannels, TypeOK
<1>5. relayer' \in Docs /\ address' \in AddressDocs /\ before' \in View
  <2>1. relayer \in Docs /\ address \in AddressDocs
    BY DEF TypeOK, Docs, AddressDocs
  <2>2. SaveRelayerAddr(AddrChannels(c)) \in AddressDocs
    <3>1. [status |-> "todo", key |-> FALSE] \in AddressDoc
      BY DEF AddressDoc, GatherStatus
    <3> QED
      BY <3>1, Sorts, InsertManyTyped DEF SaveRelayerAddr, AddressDocs
  <2> QED
    BY <1>1, <2>1, <2>2, PutTyped
<1>6. queue' \in SUBSET (Address \cup Chain) /\ stage' \in Cron
  BY DEF Statistics, RunIncrement, TypeOK, Cron
<1> QED
  BY <1>2, <1>3, <1>4, <1>5, <1>6
  DEF Statistics, TypeOK, chains, others, View, Docs, AddressDocs

LEMMA RepairTyped ==
  ASSUME TypeOK, RepairEmptyPubKey
  PROVE  TypeOK'
<1>1. PICK got \in SUBSET FindNoPubKey : Put(relayer, UpdatePubKey(got))
  BY DEF RepairEmptyPubKey
<1>2. relayer \in Docs /\ UpdatePubKey(got) \in AddressDocs
  <2>1. ASSUME NEW x \in got
        PROVE  [address[x] EXCEPT !.key = TRUE] \in AddressDoc
    <3>1. address[x] \in [status : GatherStatus, key : BOOLEAN]
      BY DEF FindNoPubKey, TypeOK, AddressDoc
    <3> QED
      BY <3>1 DEF AddressDoc
  <2> QED
    BY <2>1 DEF TypeOK, Docs, AddressDocs, UpdatePubKey, FindNoPubKey
<1>3. relayer' \in Docs /\ address' \in AddressDocs /\ before' \in View
  BY <1>1, <1>2, PutTyped
<1>4. trouble' \in SUBSET Fault /\ faults' \in Nat
  BY WorksTyped DEF RepairEmptyPubKey
<1> QED
  BY <1>3, <1>4 DEF RepairEmptyPubKey, TypeOK, chains, others, View, Docs, AddressDocs, Cron

LEMMA FindToBeGatheredTyped ==
  ASSUME TypeOK, FindToBeGathered
  PROVE  TypeOK'
<1>1. PICK view \in {Primary, before} : Read(view) /\ queue' = ToBeGathered(view.address)
  BY DEF FindToBeGathered
<1>2. trouble' \in SUBSET Fault /\ faults' \in Nat
  BY <1>1, ReadTyped
<1>3. queue' \in SUBSET (Address \cup Chain)
  BY <1>1 DEF ToBeGathered
<1> QED
  BY <1>2, <1>3 DEF FindToBeGathered, TypeOK, chains, others, Cron

LEMMA NewPairsAre ==
  ASSUME TypeOK, NEW x \in Address
  PROVE  /\ NewPairs(x) \in SUBSET Pair(Channel)
         /\ \A p \in NewPairs(x) : p.a = x
         /\ NewPairs(x) # {} => Addresses(NewPairs(x)) = {x}
<1>1. ASSUME NEW p \in NewPairs(x)
      PROVE  p \in Pair(Channel) /\ p.a = x /\ Ends(p) = {x}
  <2>1. PICK u \in uses : u.addr = x /\ p = GenerateSingleSideChannelPairInfo(u)
    BY DEF NewPairs, FindByAddressChain
  <2>2. u \in Usage(Channel)
    BY RelayersAssumption DEF TypeOK
  <2> QED
    BY <2>1, <2>2, PairsAssumption DEF GenerateSingleSideChannelPairInfo, Pair, Usage, Ends
<1> QED
  BY <1>1 DEF Addresses

LEMMA OwnersKnown ==
  ASSUME NEW view, NEW x, NEW status
  PROVE  /\ Owners(view, x, status) \subseteq Known(view.relayer)
         /\ \A r \in Owners(view, x, status) : \E y \in Address \ {x} :
              /\ view.address[y].key /\ KeyOf[y] = KeyOf[x] /\ view.address[y].status = status
              /\ y \in Addresses(view.relayer[r].pairs) \/ y = NoAddress
<1>1. ASSUME NEW y, NEW r \in FindByChannelPair(view.relayer, y)
      PROVE  /\ r \in Known(view.relayer)
             /\ y \in Addresses(view.relayer[r].pairs) \/ y = NoAddress
  <2>1. r \in Known(view.relayer) /\ \E p \in view.relayer[r].pairs : y \in {p.a, p.b}
    BY DEF FindByChannelPair
  <2> QED
    BY <2>1 DEF Addresses, Ends
<1> QED
  BY <1>1 DEF Owners, FindByPubKey

\* The address in hand goes to a relayer that was read, or to a new one.
LEMMA GatherDoes ==
  ASSUME TypeOK, NEW x \in Address, Gather(x)
  PROVE  /\ trouble' \in SUBSET Fault /\ faults' \in Nat /\ trouble \subseteq trouble'
         /\ \/ Done(x)
            \/ /\ stage' = "pairs" /\ queue' = queue
               /\ cur'.addr = x /\ cur'.status \in {"pubkey", "registry"}
               /\ cur' \in [addr : Address \cup {NoAddress}, id : Id \cup {0}, read : SUBSET Pair(Channel),
                            pairs : SUBSET Pair(Channel), status : GatherStatus]
               /\ Addresses(cur'.pairs) = Addresses(cur'.read) \cup {x}
               /\ cur'.id = 0 => \A p \in cur'.pairs : p.a = x
               /\ {"stale", "lookup"} \cap trouble' = {} =>
                    /\ cur'.id = 0 => /\ cur'.read = {}
                                      /\ \A s \in {"pubkey", "registry"} : Owners(Primary, x, s) = {}
                    /\ cur'.id # 0 =>
                         /\ cur'.id \in Owners(Primary, x, "registry") \cup Owners(Primary, x, "pubkey")
                         /\ cur'.read = relayer[cur'.id].pairs
<1> DEFINE CurSet == [addr : Address \cup {NoAddress}, id : Id \cup {0}, read : SUBSET Pair(Channel),
                      pairs : SUBSET Pair(Channel), status : GatherStatus]
<1>1. PICK view \in {Primary, before}, failing \in BOOLEAN :
        /\ IF failing THEN view = Primary /\ Fails("lookup") ELSE Read(view)
        /\ LET registered == IF failing THEN {} ELSE Owners(view, x, "registry")
               unknown == IF failing THEN {} ELSE Owners(view, x, "pubkey")
               To(r, status) == [addr |-> x, id |-> r, read |-> view.relayer[r].pairs,
                                 pairs |-> view.relayer[r].pairs \cup NewPairs(x), status |-> status]
           IN  IF NewPairs(x) = {} THEN Done(x)
                 ELSE /\ \/ \E r \in registered : cur' = To(r, "registry")
                         \/ registered = {} /\ \E r \in unknown : cur' = To(r, "pubkey")
                         \/ /\ registered \cup unknown = {}
                            /\ cur' = [addr |-> x, id |-> 0, read |-> {}, pairs |-> NewPairs(x),
                                       status |-> "pubkey"]
                      /\ stage' = "pairs" /\ UNCHANGED queue
  BY DEF Gather
<1>2. /\ trouble' \in SUBSET Fault /\ faults' \in Nat /\ trouble \subseteq trouble'
      /\ {"stale", "lookup"} \cap trouble' = {} => view = Primary /\ ~failing
  <2>1. CASE failing
    BY <1>1, <2>1, FailsTyped DEF Fault
  <2>2. CASE ~failing
    BY <1>1, <2>2, ReadTyped
  <2> QED
    BY <2>1, <2>2
<1>3. view \in View
  BY <1>1 DEF Primary, TypeOK, View, Docs, AddressDocs
<1>4. SUFFICES ASSUME NewPairs(x) # {}
               PROVE  /\ stage' = "pairs" /\ queue' = queue
                      /\ cur'.addr = x /\ cur'.status \in {"pubkey", "registry"}
                      /\ cur' \in CurSet
                      /\ Addresses(cur'.pairs) = Addresses(cur'.read) \cup {x}
                      /\ cur'.id = 0 => \A p \in cur'.pairs : p.a = x
                      /\ {"stale", "lookup"} \cap trouble' = {} =>
                           /\ cur'.id = 0 => /\ cur'.read = {}
                                             /\ \A s \in {"pubkey", "registry"} : Owners(Primary, x, s) = {}
                           /\ cur'.id # 0 =>
                                /\ cur'.id \in Owners(Primary, x, "registry") \cup Owners(Primary, x, "pubkey")
                                /\ cur'.read = relayer[cur'.id].pairs
  BY <1>1, <1>2
<1>5. stage' = "pairs" /\ queue' = queue
  BY <1>1, <1>4
<1>6. NewPairs(x) \in SUBSET Pair(Channel) /\ (\A p \in NewPairs(x) : p.a = x)
      /\ Addresses(NewPairs(x)) = {x}
  BY <1>4, NewPairsAre
<1>7. \A A, B : Addresses(A \cup B) = Addresses(A) \cup Addresses(B)
  BY DEF Addresses
<1>8. ASSUME ~failing, NEW status \in {"pubkey", "registry"}, NEW r \in Owners(view, x, status),
             cur' = [addr |-> x, id |-> r, read |-> view.relayer[r].pairs,
                     pairs |-> view.relayer[r].pairs \cup NewPairs(x), status |-> status]
      PROVE  /\ cur'.addr = x /\ cur'.status \in {"pubkey", "registry"} /\ cur' \in CurSet
             /\ Addresses(cur'.pairs) = Addresses(cur'.read) \cup {x}
             /\ cur'.id # 0 /\ cur'.id = r /\ cur'.read = view.relayer[r].pairs
  <2>1. r \in Known(view.relayer) /\ view.relayer \in Docs
    BY <1>3, OwnersKnown DEF View
  <2>2. r \in Id /\ view.relayer[r].pairs \in SUBSET Pair(Channel)
    BY <2>1, KnownTyped
  <2> QED
    BY <1>6, <1>7, <1>8, <2>2, Sorts DEF GatherStatus
<1>9. CASE \E status \in {"pubkey", "registry"} : ~failing /\ \E r \in Owners(view, x, status) :
             cur' = [addr |-> x, id |-> r, read |-> view.relayer[r].pairs,
                     pairs |-> view.relayer[r].pairs \cup NewPairs(x), status |-> status]
  <2>0. PICK status \in {"pubkey", "registry"} : ~failing /\ \E r \in Owners(view, x, status) :
             cur' = [addr |-> x, id |-> r, read |-> view.relayer[r].pairs,
                     pairs |-> view.relayer[r].pairs \cup NewPairs(x), status |-> status]
    BY <1>9
  <2>1. PICK r \in Owners(view, x, status) :
          cur' = [addr |-> x, id |-> r, read |-> view.relayer[r].pairs,
                  pairs |-> view.relayer[r].pairs \cup NewPairs(x), status |-> status]
    BY <2>0
  <2>2. /\ cur'.addr = x /\ cur'.status \in {"pubkey", "registry"} /\ cur' \in CurSet
        /\ Addresses(cur'.pairs) = Addresses(cur'.read) \cup {x}
        /\ cur'.id # 0 /\ cur'.id = r /\ cur'.read = view.relayer[r].pairs
    <3> HIDE DEF CurSet
    <3> QED
      BY <1>8, <2>0, <2>1
  <2>3. view = Primary => r \in Owners(Primary, x, "registry") \cup Owners(Primary, x, "pubkey")
                          /\ view.relayer = relayer
    BY DEF Primary
  <2> HIDE DEF CurSet
  <2> QED
    BY <1>2, <1>5, <2>0, <2>2, <2>3
<1>10. CASE /\ cur' = [addr |-> x, id |-> 0, read |-> {}, pairs |-> NewPairs(x), status |-> "pubkey"]
            /\ ~failing => \A s \in {"pubkey", "registry"} : Owners(view, x, s) = {}
  <2>1. cur' \in CurSet /\ cur'.addr = x /\ cur'.status = "pubkey" /\ cur'.id = 0
        /\ cur'.read = {} /\ cur'.pairs = NewPairs(x)
    BY <1>6, <1>10 DEF GatherStatus
  <2>2. Addresses(cur'.pairs) = Addresses(cur'.read) \cup {x}
    BY <1>6, <2>1 DEF Addresses
  <2> HIDE DEF CurSet
  <2> QED
    BY <1>2, <1>5, <1>6, <1>10, <2>1, <2>2
<1>11. \/ \E status \in {"pubkey", "registry"} : ~failing /\ \E r \in Owners(view, x, status) :
             cur' = [addr |-> x, id |-> r, read |-> view.relayer[r].pairs,
                     pairs |-> view.relayer[r].pairs \cup NewPairs(x), status |-> status]
       \/ /\ cur' = [addr |-> x, id |-> 0, read |-> {}, pairs |-> NewPairs(x), status |-> "pubkey"]
          /\ ~failing => \A s \in {"pubkey", "registry"} : Owners(view, x, s) = {}
  BY <1>1, <1>4
<1> HIDE DEF CurSet
<1> QED
  BY <1>9, <1>10, <1>11

LEMMA GatherTyped ==
  ASSUME TypeOK, NEW x \in Address, Gather(x)
  PROVE  TypeOK'
<1>1. trouble' \in SUBSET Fault /\ faults' \in Nat
  BY GatherDoes
<1>2. /\ stage' \in Cron /\ queue' \in SUBSET (Address \cup Chain)
      /\ cur' \in [addr : Address \cup {NoAddress}, id : Id \cup {0}, read : SUBSET Pair(Channel),
                   pairs : SUBSET Pair(Channel), status : GatherStatus]
  BY GatherDoes, Sorts DEF Done, TypeOK, Cron
<1> QED
  BY <1>1, <1>2 DEF Gather, TypeOK, chains, others

\* The list of one relayer is written.
Writes(r, pairs) ==
  /\ r \in Known(relayer) /\ Known(relayer') = Known(relayer)
  /\ relayer'[r].pairs = pairs /\ relayer'[r].named = relayer[r].named
  /\ \A q \in Id \ {r} : relayer'[q] = relayer[q]

\* A relayer is added under an id that no task has in hand.
Adds(doc) ==
  \E n \in FreshIds : /\ n \in Id \ Known(relayer) /\ relayer' = [relayer EXCEPT ![n] = doc]
                      /\ Known(relayer') = Known(relayer) \cup {n}

LEMMA AddRelayerChannelPairDoes ==
  ASSUME Typed, AddRelayerChannelPair
  PROVE  /\ TypeOK' /\ trouble \subseteq trouble' /\ address' = address
         /\ \/ /\ Writes(cur.id, cur.pairs) /\ stage' = "status" /\ UNCHANGED <<queue, cur>>
               /\ relayer[cur.id].pairs = cur.read \/ FallenOut
            \/ Done(cur.addr) /\ UNCHANGED <<relayer, taken>>
<1>1. cur.pairs \in SUBSET Pair(Channel) /\ cur.pairs # {} /\ cur.id \in Id
  <2>1. cur.addr \in Addresses(cur.pairs)
    BY DEF Typed, WorkOK, AddRelayerChannelPair
  <2> QED
    BY <2>1 DEF Typed, TypeOK, AddRelayerChannelPair, Addresses
<1>2. TypeOK /\ relayer \in Docs /\ address \in AddressDocs
  BY DEF Typed, TypeOK, Docs, AddressDocs
<1>3. CASE /\ CanUpdate(cur.id, cur.pairs) /\ Works
           /\ Put(UpdateChannelPairInfo(cur.id, cur.pairs), address)
           /\ IF relayer[cur.id].pairs # cur.read THEN FallenOut ELSE UNCHANGED taken
           /\ stage' = "status" /\ UNCHANGED <<queue, cur>>
  <2>1. cur.id \in Known(relayer)
    BY <1>1, <1>3 DEF CanUpdate, Known
  <2>2. UpdateChannelPairInfo(cur.id, cur.pairs) \in Docs
    BY <1>1, <1>2, <2>1, UpdateInfoTyped
  <2>3. /\ relayer' \in Docs /\ address' \in AddressDocs /\ before' \in View
        /\ relayer' = UpdateChannelPairInfo(cur.id, cur.pairs) /\ address' = address
    BY <1>2, <1>3, <2>2, PutTyped
  <2>4. Writes(cur.id, cur.pairs)
    BY <1>1, <1>2, <2>1, <2>3, UpdateInfoTyped DEF Writes
  <2>5. trouble' \in SUBSET Fault /\ faults' \in Nat /\ trouble' = trouble
    BY <1>2, <1>3, WorksTyped
  <2>6. taken' \in SUBSET Address
    <3>1. Listed(relayer) \subseteq Address
      BY <1>2, KnownTyped, AddressesOf DEF Listed
    <3> QED
      BY <1>2, <1>3, <3>1 DEF FallenOut, TypeOK
  <2>7. TypeOK'
    BY <1>2, <1>3, <2>3, <2>5, <2>6
    DEF AddRelayerChannelPair, TypeOK, chains, others, View, Docs, AddressDocs, Cron
  <2> QED
    BY <1>3, <2>3, <2>4, <2>5, <2>7
<1>4. CASE /\ IF CanUpdate(cur.id, cur.pairs) THEN Fails("other") ELSE Works
           /\ Done(cur.addr)
           /\ UNCHANGED <<address, relayer, before, taken>>
  <2>1. trouble' \in SUBSET Fault /\ faults' \in Nat /\ trouble \subseteq trouble'
    BY <1>2, <1>4, FailsTyped, WorksTyped DEF Fault
  <2>2. TypeOK'
    BY <1>2, <1>4, <2>1, Sorts
    DEF AddRelayerChannelPair, TypeOK, chains, others, Cron, Done
  <2> QED
    BY <1>4, <2>1, <2>2
<1> QED
  BY <1>3, <1>4 DEF AddRelayerChannelPair

LEMMA AddRelayerDoes ==
  ASSUME Typed, AddRelayer
  PROVE  /\ TypeOK' /\ trouble \subseteq trouble' /\ address' = address /\ stage' = "status"
         /\ UNCHANGED <<queue, cur, taken>>
         /\ \/ Adds(NewRelayer(FALSE, cur.pairs, 1))
            \/ UNCHANGED relayer /\ ("insert" \in trouble' \/ ~Unique(0, cur.pairs))
<1>1. cur.pairs \in SUBSET Pair(Channel) /\ cur.addr \in Address
  BY DEF Typed, TypeOK, WorkOK, AddRelayer
<1>2. TypeOK /\ relayer \in Docs /\ address \in AddressDocs
  BY DEF Typed, TypeOK, Docs, AddressDocs
<1>3. NewRelayer(FALSE, cur.pairs, 1) \in Relayer
  <2>1. ChainOf[cur.addr] \in Chain /\ IsFiniteSet(Chain)
    BY <1>1, RelayersAssumption
  <2>2. 1 \in 0 .. Cardinality(Chain)
    <3>1. Cardinality(Chain) \in Nat /\ Cardinality(Chain) # 0
      BY <2>1, FS_CardinalityType, FS_EmptySet
    <3> QED
      BY <3>1
  <2> QED
    BY <1>1, <2>2, NewTyped
<1>4. CASE /\ Unique(0, cur.pairs) /\ FreshIds # {} /\ Works
           /\ Put(InsertOne(NewRelayer(FALSE, cur.pairs, 1)), address)
  <2>1. PICK n \in FreshIds :
          /\ n \in Id \ Known(relayer)
          /\ InsertOne(NewRelayer(FALSE, cur.pairs, 1))
               = [relayer EXCEPT ![n] = NewRelayer(FALSE, cur.pairs, 1)]
          /\ InsertOne(NewRelayer(FALSE, cur.pairs, 1)) \in Docs
          /\ Known(InsertOne(NewRelayer(FALSE, cur.pairs, 1))) = Known(relayer) \cup {n}
    BY <1>2, <1>3, <1>4, InsertOneTyped
  <2>2. /\ relayer' \in Docs /\ address' \in AddressDocs /\ before' \in View
        /\ relayer' = InsertOne(NewRelayer(FALSE, cur.pairs, 1)) /\ address' = address
    BY <1>2, <1>4, <2>1, PutTyped
  <2>3. Adds(NewRelayer(FALSE, cur.pairs, 1))
    BY <2>1, <2>2 DEF Adds
  <2>4. trouble' \in SUBSET Fault /\ faults' \in Nat /\ trouble' = trouble
    BY <1>2, <1>4, WorksTyped
  <2>5. TypeOK'
    BY <1>2, <2>2, <2>4 DEF AddRelayer, TypeOK, chains, others, View, Docs, AddressDocs, Cron
  <2> QED
    BY <2>2, <2>3, <2>4, <2>5 DEF AddRelayer
<1>5. CASE /\ IF Unique(0, cur.pairs) THEN Fails("insert") ELSE Works
           /\ UNCHANGED <<address, relayer, before>>
  <2>1. /\ trouble' \in SUBSET Fault /\ faults' \in Nat /\ trouble \subseteq trouble'
        /\ "insert" \in trouble' \/ ~Unique(0, cur.pairs)
    BY <1>2, <1>5, FailsTyped, WorksTyped DEF Fault
  <2>2. TypeOK'
    BY <1>2, <1>5, <2>1 DEF AddRelayer, TypeOK, chains, others, Cron
  <2> QED
    BY <1>5, <2>1, <2>2 DEF AddRelayer
<1> QED
  BY <1>4, <1>5 DEF AddRelayer

LEMMA UpdateGatherStatusDoes ==
  ASSUME Typed, UpdateGatherStatus
  PROVE  /\ TypeOK' /\ trouble \subseteq trouble' /\ UNCHANGED <<relayer, taken>>
         /\ Done(cur.addr)
         /\ \/ address' = WithGatherStatus(cur.addr, cur.status)
            \/ address' = address /\ "status" \in trouble'
<1>1. TypeOK /\ relayer \in Docs /\ address \in AddressDocs
  BY DEF Typed, TypeOK, Docs, AddressDocs
<1>2. WithGatherStatus(cur.addr, cur.status) \in AddressDocs
  <2>1. cur.addr \in Address /\ cur.status \in GatherStatus
    BY DEF Typed, WorkOK, TypeOK, UpdateGatherStatus
  <2>2. [address[cur.addr] EXCEPT !.status = cur.status] \in AddressDoc
    <3>1. address[cur.addr] \in [status : GatherStatus \cup {"none"}, key : BOOLEAN]
      <4>1. address[cur.addr] \in AddressDoc
        BY <1>1, <2>1 DEF AddressDocs
      <4>2. NoAddressDoc \in [status : GatherStatus \cup {"none"}, key : BOOLEAN]
        BY DEF NoAddressDoc
      <4>3. ASSUME NEW d \in [status : GatherStatus, key : BOOLEAN]
            PROVE  d \in [status : GatherStatus \cup {"none"}, key : BOOLEAN]
        OBVIOUS
      <4> QED
        BY <4>1, <4>2, <4>3 DEF AddressDoc
    <3> QED
      BY <2>1, <3>1 DEF AddressDoc
  <2> QED
    BY <1>1, <2>1, <2>2 DEF WithGatherStatus, AddressDocs
<1>3. CASE Works /\ Put(relayer, WithGatherStatus(cur.addr, cur.status))
  <2>1. /\ relayer' \in Docs /\ address' \in AddressDocs /\ before' \in View
        /\ relayer' = relayer /\ address' = WithGatherStatus(cur.addr, cur.status)
    BY <1>1, <1>2, <1>3, PutTyped
  <2>2. trouble' \in SUBSET Fault /\ faults' \in Nat /\ trouble' = trouble
    BY <1>1, <1>3, WorksTyped
  <2>3. TypeOK'
    BY <1>1, <2>1, <2>2, Sorts
    DEF UpdateGatherStatus, Done, TypeOK, chains, others, View, Docs, AddressDocs, Cron
  <2> QED
    BY <2>1, <2>2, <2>3 DEF UpdateGatherStatus
<1>4. CASE Fails("status") /\ UNCHANGED <<address, relayer, before>>
  <2>1. trouble' \in SUBSET Fault /\ faults' \in Nat /\ trouble' = trouble \cup {"status"}
    BY <1>1, <1>4, FailsTyped DEF Fault
  <2>2. TypeOK'
    BY <1>1, <1>4, <2>1, Sorts DEF UpdateGatherStatus, Done, TypeOK, chains, others, Cron
  <2> QED
    BY <1>4, <2>1, <2>2 DEF UpdateGatherStatus
<1> QED
  BY <1>3, <1>4 DEF UpdateGatherStatus

LEMMA FindAllDoes ==
  ASSUME Typed, FindAll
  PROVE  /\ TypeOK' /\ trouble \subseteq trouble' /\ UNCHANGED <<relayer, address, taken, cur>>
         /\ \/ /\ stage' = "check" /\ page' \in Docs
               /\ step' = [r \in Id |-> IF page'[r] = NoRelayer THEN "done" ELSE "pairs"]
               /\ "stale" \notin trouble' => page' = relayer
            \/ stage' = "chains" /\ UNCHANGED <<page, step>>
<1>1. TypeOK
  BY DEF Typed
<1>2. CASE \E view \in {Primary, before} :
             /\ Read(view)
             /\ page' = view.relayer
             /\ step' = [r \in Id |-> IF view.relayer[r] = NoRelayer THEN "done" ELSE "pairs"]
             /\ stage' = "check" /\ UNCHANGED queue
  <2>1. PICK view \in {Primary, before} :
             /\ Read(view)
             /\ page' = view.relayer
             /\ step' = [r \in Id |-> IF view.relayer[r] = NoRelayer THEN "done" ELSE "pairs"]
             /\ stage' = "check" /\ UNCHANGED queue
    BY <1>2
  <2>2. /\ view \in View /\ trouble' \in SUBSET Fault /\ faults' \in Nat /\ trouble \subseteq trouble'
        /\ "stale" \notin trouble' => view = Primary
    BY <1>1, <2>1, ReadTyped
  <2>3. page' \in Docs /\ ("stale" \notin trouble' => page' = relayer)
    BY <2>1, <2>2 DEF View, Primary
  <2>4. TypeOK'
    BY <1>1, <2>1, <2>2, <2>3 DEF FindAll, TypeOK, chains, others, Docs, Cron
  <2> QED
    BY <2>1, <2>2, <2>3, <2>4 DEF FindAll
<1>3. CASE Fails("other") /\ stage' = "chains" /\ queue' = Chain /\ UNCHANGED <<page, step>>
  <2>1. trouble' \in SUBSET Fault /\ faults' \in Nat /\ trouble \subseteq trouble'
    BY <1>1, <1>3, FailsTyped DEF Fault
  <2>2. TypeOK'
    BY <1>1, <1>3, <2>1 DEF FindAll, TypeOK, chains, others, Cron
  <2> QED
    BY <1>3, <2>1, <2>2 DEF FindAll
<1> QED
  BY <1>2, <1>3 DEF FindAll

\* Figures and times change, lists do not.
KeepsLists ==
  /\ Known(relayer') = Known(relayer)
  /\ \A r \in Known(relayer) : /\ relayer'[r].pairs = relayer[r].pairs
                               /\ relayer'[r].named = relayer[r].named

LEMMA HandleRelayerChannelPairDoes ==
  ASSUME Typed, NEW r \in Id, HandleRelayerChannelPair(r)
  PROVE  /\ TypeOK' /\ trouble \subseteq trouble' /\ UNCHANGED <<address, cur, stage, queue>>
         /\ stage = "check" /\ page[r] \in Relayer
         /\ \E new \in SUBSET Pair(Channel) :
              /\ Addresses(new) = Addresses(page[r].pairs)
              /\ page' = [page EXCEPT ![r].pairs = new]
              /\ \/ Writes(r, new) /\ (relayer[r].pairs = page[r].pairs \/ FallenOut)
                 \/ UNCHANGED <<relayer, taken>>
         /\ \E s \in {"figures", "time", "done"} : step' = [step EXCEPT ![r] = s]
<1> DEFINE old == page[r].pairs
           new == MatchRelayerChannelPairInfo(SingleSideAddressMatchPair(old, uses), uses)
<1>1. TypeOK /\ relayer \in Docs /\ address \in AddressDocs /\ page \in Docs
  BY DEF Typed, TypeOK, Docs, AddressDocs
<1>2. stage = "check" /\ r \in Known(page) /\ page[r] \in Relayer /\ old \in SUBSET Pair(Channel)
  <2>1. stage = "check" /\ r \in Known(page)
    BY DEF HandleRelayerChannelPair, At, Typed, WorkOK, Known
  <2> QED
    BY <1>1, <2>1, KnownTyped
<1>3. new \in SUBSET Pair(Channel) /\ Addresses(new) = Addresses(old)
  <2>1. uses \subseteq Usage(Channel)
    BY <1>1, RelayersAssumption DEF TypeOK
  <2> HIDE DEF old
  <2> QED
    BY <1>2, <2>1, SingleSideKeeps, MatchKeeps
<1>4. /\ page' = [page EXCEPT ![r].pairs = new]
      /\ \/ /\ new # old /\ CanUpdate(r, new) /\ Works
            /\ Put(UpdateChannelPairInfo(r, new), address)
            /\ IF relayer[r].pairs # old THEN FallenOut ELSE UNCHANGED taken
         \/ /\ IF new # old /\ CanUpdate(r, new) THEN Fails("other") ELSE Works
            /\ UNCHANGED <<address, relayer, before, taken>>
  BY DEF HandleRelayerChannelPair
<1> HIDE DEF new, old
<1>5. page' \in Docs
  <2>1. [page[r] EXCEPT !.pairs = new] \in Relayer
    BY <1>2, <1>3 DEF Relayer
  <2> QED
    BY <1>1, <1>4, <2>1 DEF Docs
<1>6. \E s \in {"figures", "time", "done"} : step' = [step EXCEPT ![r] = s]
  BY <1>1 DEF HandleRelayerChannelPair, Goto, TypeOK
<1>7. step' \in [Id -> {"pairs", "figures", "time", "channels", "done"}]
  BY <1>1, <1>6 DEF TypeOK
<1>8. CASE /\ new # old /\ CanUpdate(r, new) /\ Works
           /\ Put(UpdateChannelPairInfo(r, new), address)
           /\ IF relayer[r].pairs # old THEN FallenOut ELSE UNCHANGED taken
  <2>1. r \in Known(relayer)
    BY <1>8 DEF CanUpdate, Known
  <2>2. new # {}
    <3>1. ASSUME new = {}
          PROVE  old = {}
      BY <1>2, <1>3, <3>1, EndsOfPair DEF Addresses
    <3> QED
      BY <1>8, <3>1
  <2>3. UpdateChannelPairInfo(r, new) \in Docs
    BY <1>1, <1>3, <2>1, UpdateInfoTyped
  <2>4. /\ relayer' \in Docs /\ address' \in AddressDocs /\ before' \in View
        /\ relayer' = UpdateChannelPairInfo(r, new) /\ address' = address
    BY <1>1, <1>8, <2>3, PutTyped
  <2>5. Writes(r, new)
    BY <1>1, <1>3, <2>1, <2>2, <2>4, UpdateInfoTyped DEF Writes
  <2>6. trouble' \in SUBSET Fault /\ faults' \in Nat /\ trouble' = trouble
    BY <1>1, <1>8, WorksTyped
  <2>7. taken' \in SUBSET Address
    <3>1. Listed(relayer) \subseteq Address
      BY <1>1, KnownTyped, AddressesOf DEF Listed
    <3> QED
      BY <1>1, <1>8, <3>1 DEF FallenOut, TypeOK
  <2>8. TypeOK'
    BY <1>1, <1>5, <1>7, <2>4, <2>6, <2>7
    DEF HandleRelayerChannelPair, TypeOK, chains, others, View, Docs, AddressDocs
  <2>9. relayer[r].pairs = page[r].pairs \/ FallenOut
    BY <1>8 DEF old
  <2> QED
    BY <1>2, <1>3, <1>4, <1>6, <2>4, <2>5, <2>6, <2>8, <2>9 DEF HandleRelayerChannelPair, old
<1>9. CASE /\ IF new # old /\ CanUpdate(r, new) THEN Fails("other") ELSE Works
           /\ UNCHANGED <<address, relayer, before, taken>>
  <2>1. trouble' \in SUBSET Fault /\ faults' \in Nat /\ trouble \subseteq trouble'
    BY <1>1, <1>9, FailsTyped, WorksTyped DEF Fault
  <2>2. TypeOK'
    BY <1>1, <1>5, <1>7, <1>9, <2>1
    DEF HandleRelayerChannelPair, TypeOK, chains, others, Docs
  <2> QED
    BY <1>2, <1>3, <1>4, <1>6, <1>9, <2>1, <2>2 DEF HandleRelayerChannelPair, old
<1> QED
  BY <1>4, <1>8, <1>9

LEMMA HandleRelayerStatisticDoes ==
  ASSUME Typed, NEW r \in Id, HandleRelayerStatistic(r)
  PROVE  /\ TypeOK' /\ trouble \subseteq trouble' /\ KeepsLists
         /\ UNCHANGED <<address, cur, stage, queue, page, taken>>
         /\ stage = "check" /\ step' = [step EXCEPT ![r] = "done"]
<1>1. TypeOK /\ relayer \in Docs /\ address \in AddressDocs /\ page \in Docs
  BY DEF Typed, TypeOK, Docs, AddressDocs
<1>2. stage = "check" /\ r \in Known(page) /\ page[r].pairs \in SUBSET Pair(Channel)
  <2>1. stage = "check" /\ r \in Known(page)
    BY DEF HandleRelayerStatistic, At, Typed, WorkOK, Known
  <2> QED
    BY <1>1, <2>1, KnownTyped
<1>3. PICK failing \in BOOLEAN :
       /\ IF failing THEN Fails("other") ELSE Works
       /\ Put(UpdateTxsInfo(r, IF failing THEN 0 ELSE AggrRelayerTxsAndAmt(page[r].pairs)), address)
  BY DEF HandleRelayerStatistic
<1> DEFINE txs == IF failing THEN 0 ELSE AggrRelayerTxsAndAmt(page[r].pairs)
<1>4. txs \in Nat
  <2>1. Addresses(page[r].pairs) \subseteq Address
    BY <1>2, AddressesOf
  <2>2. IsFiniteSet(Addresses(page[r].pairs))
    BY <2>1, RelayersAssumption, FS_Subset
  <2>3. \A y \in Addresses(page[r].pairs) : stat[y] \in Nat
    BY <1>1, <2>1 DEF TypeOK
  <2>4. SumOf(stat, Addresses(page[r].pairs)) \in Nat
    BY <2>2, <2>3, SumTyped
  <2> QED
    BY <2>4 DEF SumOf, AggrRelayerTxsAndAmt, AggrRelayerBaseDenomAmtAndTxs
<1> HIDE DEF txs
<1>5. /\ UpdateTxsInfo(r, txs) \in Docs
      /\ Known(UpdateTxsInfo(r, txs)) = Known(relayer)
      /\ \A q \in Known(relayer) : /\ UpdateTxsInfo(r, txs)[q].pairs = relayer[q].pairs
                                   /\ UpdateTxsInfo(r, txs)[q].named = relayer[q].named
  <2>1. CASE relayer[r] = NoRelayer
    BY <1>1, <2>1 DEF UpdateTxsInfo
  <2>2. CASE relayer[r] # NoRelayer
    <3> DEFINE doc == [relayer[r] EXCEPT !.txs = IF txs > 0 THEN txs ELSE @, !.value = txs]
    <3>1. relayer[r] \in Relayer
      BY <1>1, <2>2 DEF Docs
    <3>2. doc \in Relayer /\ doc.pairs = relayer[r].pairs /\ doc.named = relayer[r].named
      BY <1>4, <3>1 DEF Relayer
    <3>3. UpdateTxsInfo(r, txs) = [relayer EXCEPT ![r] = doc]
      BY <2>2 DEF UpdateTxsInfo
    <3>4. doc # NoRelayer
      BY <3>2, RelayersAssumption
    <3> HIDE DEF doc
    <3>5. \A q \in Id \ {r} : UpdateTxsInfo(r, txs)[q] = relayer[q]
      BY <1>1, <3>3 DEF Docs
    <3>6. UpdateTxsInfo(r, txs)[r] = doc /\ UpdateTxsInfo(r, txs) \in Docs
      BY <1>1, <3>2, <3>3 DEF Docs
    <3> QED
      BY <2>2, <3>2, <3>4, <3>5, <3>6 DEF Known
  <2> QED
    BY <2>1, <2>2
<1>6. /\ relayer' \in Docs /\ address' \in AddressDocs /\ before' \in View
      /\ relayer' = UpdateTxsInfo(r, txs) /\ address' = address
  BY <1>1, <1>3, <1>5, PutTyped DEF txs
<1>7. KeepsLists
  BY <1>5, <1>6 DEF KeepsLists
<1>8. trouble' \in SUBSET Fault /\ faults' \in Nat /\ trouble \subseteq trouble'
  BY <1>1, <1>3, FailsTyped, WorksTyped DEF Fault
<1>9. TypeOK'
  BY <1>1, <1>6, <1>8
  DEF HandleRelayerStatistic, Goto, TypeOK, chains, others, View, Docs, AddressDocs
<1> QED
  BY <1>2, <1>6, <1>7, <1>8, <1>9 DEF HandleRelayerStatistic, Goto

LEMMA NewestTyped ==
  ASSUME NEW pairs, NEW times \in [pairs -> Time]
  PROVE  NewestUpdateTime(pairs, times) \in Time
<1> DEFINE T == {0} \cup {times[p] : p \in pairs}
<1>1. T \subseteq Time /\ T # {}
  BY Sorts
<1>2. T \subseteq Nat /\ MaxTime \in Nat /\ \A y \in T : y <= MaxTime
  BY <1>1, Sorts, RelayersAssumption DEF Time
<1> HIDE DEF T
<1>3. PICK x \in T : \A y \in T : y <= x
  BY <1>1, <1>2, GreatestExists
<1>4. Max(T) \in T
  <2>1. \A y \in T : x >= y
    BY <1>2, <1>3
  <2> QED
    BY <2>1 DEF Max
<1> QED
  BY <1>1, <1>4 DEF T, NewestUpdateTime

LEMMA UpdateRelayerUpdateTimeDoes ==
  ASSUME Typed, NEW r \in Id, UpdateRelayerUpdateTime(r)
  PROVE  /\ TypeOK' /\ trouble \subseteq trouble' /\ KeepsLists
         /\ UNCHANGED <<address, cur, stage, queue, page, taken>>
         /\ stage = "check" /\ step[r] = "time" /\ step' = [step EXCEPT ![r] = "channels"]
<1>1. TypeOK /\ relayer \in Docs /\ address \in AddressDocs /\ page \in Docs
  BY DEF Typed, TypeOK, Docs, AddressDocs
<1>2. stage = "check" /\ step[r] = "time" /\ r \in Known(page)
  BY DEF UpdateRelayerUpdateTime, At, Typed, WorkOK, Known
<1>3. PICK down \in SUBSET Address, times \in [page[r].pairs -> Time],
           last \in [ChannelsOf(page[r].pairs) -> page[r].pairs] :
        /\ IF down = {} THEN Works ELSE Cardinality(down) = 1 /\ Fails("other")
        /\ updateTimes' = StoreUpdateTimes(last, times)
        /\ Put(UpdateRelayerTime(r, NewestUpdateTime(page[r].pairs, times)), address)
        /\ missed' \in {missed \cup {r}, missed \ {r}}
  BY DEF UpdateRelayerUpdateTime
<1> DEFINE t == NewestUpdateTime(page[r].pairs, times)
<1>4. t \in Time
  BY NewestTyped
<1> HIDE DEF t
<1>5. /\ UpdateRelayerTime(r, t) \in Docs
      /\ Known(UpdateRelayerTime(r, t)) = Known(relayer)
      /\ \A q \in Known(relayer) : /\ UpdateRelayerTime(r, t)[q].pairs = relayer[q].pairs
                                   /\ UpdateRelayerTime(r, t)[q].named = relayer[q].named
  <2>1. CASE page[r].time >= t \/ relayer[r] = NoRelayer
    BY <1>1, <2>1 DEF UpdateRelayerTime
  <2>2. CASE ~(page[r].time >= t \/ relayer[r] = NoRelayer)
    <3> DEFINE doc == [relayer[r] EXCEPT !.time = t]
    <3>1. relayer[r] \in Relayer
      BY <1>1, <2>2 DEF Docs
    <3>2. doc \in Relayer /\ doc.pairs = relayer[r].pairs /\ doc.named = relayer[r].named
      BY <1>4, <3>1 DEF Relayer
    <3>3. UpdateRelayerTime(r, t) = [relayer EXCEPT ![r] = doc]
      BY <2>2 DEF UpdateRelayerTime
    <3>4. doc # NoRelayer
      BY <3>2, RelayersAssumption
    <3> HIDE DEF doc
    <3>5. \A q \in Id \ {r} : UpdateRelayerTime(r, t)[q] = relayer[q]
      BY <1>1, <3>3 DEF Docs
    <3>6. UpdateRelayerTime(r, t)[r] = doc /\ UpdateRelayerTime(r, t) \in Docs
      BY <1>1, <3>2, <3>3 DEF Docs
    <3> QED
      BY <2>2, <3>2, <3>4, <3>5, <3>6 DEF Known
  <2> QED
    BY <2>1, <2>2
<1>6. /\ relayer' \in Docs /\ address' \in AddressDocs /\ before' \in View
      /\ relayer' = UpdateRelayerTime(r, t) /\ address' = address
  BY <1>1, <1>3, <1>5, PutTyped DEF t
<1>7. KeepsLists
  BY <1>5, <1>6 DEF KeepsLists
<1>8. trouble' \in SUBSET Fault /\ faults' \in Nat /\ trouble \subseteq trouble'
  BY <1>1, <1>3, FailsTyped, WorksTyped DEF Fault
<1>9. updateTimes' \in [ChannelId -> Time]
  BY <1>1, <1>3 DEF StoreUpdateTimes, TypeOK
<1>10. missed' \in SUBSET Id
  BY <1>1, <1>3 DEF TypeOK
<1>11. step' = [step EXCEPT ![r] = "channels"] /\ UNCHANGED <<cur, stage, queue, page, taken>>
  BY DEF UpdateRelayerUpdateTime, Goto
<1>12. TypeOK'
  BY <1>1, <1>6, <1>8, <1>9, <1>10, <1>11
  DEF UpdateRelayerUpdateTime, TypeOK, chains, others, View, Docs, AddressDocs
<1> QED
  BY <1>2, <1>6, <1>7, <1>8, <1>11, <1>12

LEMMA ChannelInfoTyped ==
  ASSUME TypeOK, NEW r \in Id, UpdateIbcChannelRelayerInfo(r)
  PROVE  TypeOK'
<1>1. channelTime' \in [ChannelId -> Time]
  BY DEF UpdateIbcChannelRelayerInfo, UpdateOneUpdateTime, TypeOK
<1> QED
  BY <1>1 DEF UpdateIbcChannelRelayerInfo, Goto, TypeOK, chains, others

LEMMA ChainsRelayerTyped ==
  ASSUME TypeOK, NEW c \in Chain, UpdateIbcChainsRelayer(c)
  PROVE  TypeOK'
<1>1. CountChainRelayers(c) \in Nat
  <2>1. Known(relayer) \subseteq 1 .. MaxId /\ IsFiniteSet(1 .. MaxId)
    BY RelayersAssumption, FS_Interval DEF Known, Id
  <2>2. IsFiniteSet({r \in Known(relayer) : c \in GetChains(relayer[r].pairs)})
    BY <2>1, FS_Subset
  <2> QED
    BY <2>2, FS_CardinalityType DEF CountChainRelayers
<1>2. chainRelayers' \in [Chain -> Nat]
  BY <1>1 DEF UpdateIbcChainsRelayer, UpdateRelayers, TypeOK
<1>3. queue' \in SUBSET (Address \cup Chain) /\ stage' \in Cron
  BY DEF UpdateIbcChainsRelayer, TypeOK, Cron
<1> QED
  BY <1>2, <1>3 DEF UpdateIbcChainsRelayer, TypeOK, chains, others

LEMMA CronTyped ==
  ASSUME TypeOK, Start \/ CheckDone \/ Crash
  PROVE  TypeOK'
<1>1. CASE Start
  BY <1>1, Sorts DEF Start, TypeOK, chains, others, Cron
<1>2. CASE CheckDone
  BY <1>2, Sorts DEF CheckDone, TypeOK, chains, others, Cron, Docs
<1>3. CASE Crash
  <2>1. trouble' \in SUBSET Fault /\ faults' \in Nat
    BY <1>3, FailsTyped DEF Crash, Fault
  <2>2. missed' \in SUBSET Id
    BY <1>3 DEF Crash, TypeOK, Known
  <2> QED
    BY <1>3, <2>1, <2>2, Sorts DEF Crash, TypeOK, chains, others, Cron, Docs
<1> QED
  BY <1>1, <1>2, <1>3

Collects == [at : {"idle", "find", "remove"}, file : SUBSET (Address \X Address),
             id : Id \cup {0}, pairs : SUBSET Pair(Channel), got : SUBSET Pair(Channel),
             left : SUBSET (Address \X Address), found : SUBSET Id]

LEMMA PairsOfTyped ==
  ASSUME TypeOK, NEW dist \in SUBSET (Address \X Address)
  PROVE  PairsOf(dist) \in SUBSET Pair(Channel)
<1>1. uses \subseteq Usage(Channel)
  BY RelayersAssumption DEF TypeOK
<1>2. ASSUME NEW d \in dist, NEW p \in GetChannelPairInfoByAddressPair(d[1], d[2], uses)
      PROVE  p \in Pair(Channel)
  <2>1. d[1] \in Address \cup {NoAddress} /\ d[2] \in Address \cup {NoAddress}
    OBVIOUS
  <2> QED
    BY <1>1, <2>1, ByAddressPairIsPair
<1> QED
  BY <1>2 DEF PairsOf

LEMMA CollectStartDoes ==
  ASSUME TypeOK, NEW file \in files, CollectStart(file)
  PROVE  /\ TypeOK' /\ trouble \subseteq trouble'
         /\ "stale" \notin trouble' /\ collect'.id # 0 => collect'.id \in Team(relayer)
<1>1. PICK view \in {Primary, before} :
       /\ Read(view)
       /\ \/ /\ Team(view.relayer) = {}
             /\ collect' = [NoCollect EXCEPT !.at = "find", !.file = file, !.left = file,
                                             !.pairs = PairsOf(file)]
          \/ \E r \in Team(view.relayer) :
               LET listed == view.relayer[r].pairs
                   kept == {p \in listed : Dist(p) \in file}
                   added == file \ {Dist(p) : p \in listed}
               IN  collect' = IF kept = listed /\ added = {} THEN NoCollect
                              ELSE [NoCollect EXCEPT !.at = "find", !.file = file, !.left = file,
                                                     !.id = r, !.pairs = kept \cup PairsOf(added)]
  BY DEF CollectStart
<1>2. /\ view \in View /\ trouble' \in SUBSET Fault /\ faults' \in Nat /\ trouble \subseteq trouble'
      /\ "stale" \notin trouble' => view = Primary
  BY <1>1, ReadTyped
<1>3. file \in SUBSET (Address \X Address)
  BY DEF TypeOK
<1>4. NoCollect \in Collects /\ NoCollect.id = 0
  BY Sorts DEF Collects, NoCollect
<1>5. collect' \in Collects /\ (collect'.id # 0 => collect'.id \in Team(view.relayer))
  <2>1. CASE collect' = [NoCollect EXCEPT !.at = "find", !.file = file, !.left = file,
                                          !.pairs = PairsOf(file)]
    <3>1. PairsOf(file) \in SUBSET Pair(Channel)
      BY <1>3, PairsOfTyped
    <3> QED
      BY <1>3, <1>4, <2>1, <3>1 DEF Collects
  <2>2. CASE collect' = NoCollect
    BY <1>4, <2>2
  <2>3. ASSUME NEW r \in Team(view.relayer), NEW kept \in SUBSET view.relayer[r].pairs,
               NEW added \in SUBSET file,
               collect' = [NoCollect EXCEPT !.at = "find", !.file = file, !.left = file,
                                            !.id = r, !.pairs = kept \cup PairsOf(added)]
        PROVE  collect' \in Collects /\ collect'.id \in Team(view.relayer)
    <3>1. PairsOf(added) \in SUBSET Pair(Channel)
      BY <1>3, PairsOfTyped
    <3>2. r \in Id /\ view.relayer[r].pairs \in SUBSET Pair(Channel)
      BY <1>2, KnownTyped DEF Team, View
    <3>3. kept \cup PairsOf(added) \in SUBSET Pair(Channel)
      BY <3>1, <3>2
    <3> QED
      BY <1>3, <1>4, <2>3, <3>2, <3>3 DEF Collects
  <2> HIDE DEF Collects
  <2>4. \/ collect' = [NoCollect EXCEPT !.at = "find", !.file = file, !.left = file,
                                        !.pairs = PairsOf(file)]
        \/ collect' = NoCollect
        \/ \E r \in Team(view.relayer) : \E kept \in SUBSET view.relayer[r].pairs, added \in SUBSET file :
             collect' = [NoCollect EXCEPT !.at = "find", !.file = file, !.left = file,
                                          !.id = r, !.pairs = kept \cup PairsOf(added)]
    <3>1. ASSUME NEW r \in Team(view.relayer),
                 LET listed == view.relayer[r].pairs
                     kept == {p \in listed : Dist(p) \in file}
                     added == file \ {Dist(p) : p \in listed}
                 IN  collect' = IF kept = listed /\ added = {} THEN NoCollect
                                ELSE [NoCollect EXCEPT !.at = "find", !.file = file, !.left = file,
                                                       !.id = r, !.pairs = kept \cup PairsOf(added)]
          PROVE  \/ collect' = NoCollect
                 \/ \E kept \in SUBSET view.relayer[r].pairs, added \in SUBSET file :
                      collect' = [NoCollect EXCEPT !.at = "find", !.file = file, !.left = file,
                                                   !.id = r, !.pairs = kept \cup PairsOf(added)]
      BY <3>1
    <3> QED
      BY <1>1, <3>1
  <2> QED
    BY <1>4, <2>1, <2>2, <2>3, <2>4
<1>6. "stale" \notin trouble' /\ collect'.id # 0 => collect'.id \in Team(relayer)
  BY <1>2, <1>5 DEF Primary
<1>7. TypeOK'
  BY <1>2, <1>5 DEF CollectStart, TypeOK, chains, cron, Collects
<1> QED
  BY <1>2, <1>6, <1>7

LEMMA CollectFindDoes ==
  ASSUME TypeOK, NEW d \in collect.left, CollectFind(d)
  PROVE  TypeOK' /\ trouble \subseteq trouble' /\ collect'.id = collect.id
<1>1. PICK view \in {Primary, before} :
       /\ Read(view)
       /\ LET docs == view.relayer
              found == {r \in Known(docs) : /\ ~docs[r].named
                                            /\ \E p \in docs[r].pairs : p.a = d[1]
                                            /\ \E p \in docs[r].pairs : p.b = d[2]}
          IN  collect' = IF found = {} THEN [collect EXCEPT !.left = @ \ {d}]
                         ELSE [collect EXCEPT !.at = "remove", !.left = @ \ {d}, !.found = found,
                                 !.got = @ \cup UNION {docs[r].pairs : r \in found}]
  BY DEF CollectFind
<1>2. view \in View /\ trouble' \in SUBSET Fault /\ faults' \in Nat /\ trouble \subseteq trouble'
  BY <1>1, ReadTyped
<1>3. PICK found \in SUBSET Known(view.relayer) :
        collect' = IF found = {} THEN [collect EXCEPT !.left = @ \ {d}]
                   ELSE [collect EXCEPT !.at = "remove", !.left = @ \ {d}, !.found = found,
                           !.got = @ \cup UNION {view.relayer[r].pairs : r \in found}]
  <2>1. {r \in Known(view.relayer) : /\ ~view.relayer[r].named
                                     /\ \E p \in view.relayer[r].pairs : p.a = d[1]
                                     /\ \E p \in view.relayer[r].pairs : p.b = d[2]}
          \in SUBSET Known(view.relayer)
    OBVIOUS
  <2> QED
    BY <1>1, <2>1
<1>4. collect' \in Collects /\ collect'.id = collect.id
  <2>1. UNION {view.relayer[r].pairs : r \in found} \in SUBSET Pair(Channel)
    BY <1>2, KnownTyped DEF View
  <2>2. found \in SUBSET Id /\ collect \in Collects
    BY DEF Known, TypeOK, Collects
  <2> QED
    BY <1>3, <2>1, <2>2 DEF Collects
<1> QED
  BY <1>2, <1>4 DEF CollectFind, TypeOK, chains, cron, Collects

LEMMA CollectRemoveDoes ==
  ASSUME TypeOK, CollectRemove
  PROVE  /\ TypeOK' /\ trouble' = trouble /\ collect'.id = collect.id
         /\ address' = address /\ FallenOut
         /\ Known(relayer') \subseteq Known(relayer)
         /\ \A r \in Known(relayer') : relayer'[r] = relayer[r]
<1>1. relayer \in Docs /\ address \in AddressDocs
  BY DEF TypeOK, Docs, AddressDocs
<1>2. RemoveDumpData(collect.found) \in Docs
  BY <1>1 DEF RemoveDumpData, Docs
<1>3. /\ relayer' \in Docs /\ address' \in AddressDocs /\ before' \in View
      /\ relayer' = RemoveDumpData(collect.found) /\ address' = address
  BY <1>1, <1>2, PutTyped DEF CollectRemove
<1>4. /\ Known(relayer') \subseteq Known(relayer)
      /\ \A r \in Known(relayer') : relayer'[r] = relayer[r]
  BY <1>3 DEF RemoveDumpData, Known
<1>5. taken' \in SUBSET Address
  <2>1. Listed(relayer) \subseteq Address
    BY <1>1, KnownTyped, AddressesOf DEF Listed
  <2> QED
    BY <2>1 DEF CollectRemove, FallenOut, TypeOK
<1>6. collect' \in Collects /\ collect'.id = collect.id
  BY DEF CollectRemove, TypeOK, Collects
<1>7. trouble' = trouble /\ faults' = faults /\ FallenOut
  BY DEF CollectRemove, Works
<1>8. TypeOK'
  BY <1>3, <1>5, <1>6, <1>7
  DEF CollectRemove, TypeOK, chains, cron, Collects, View, Docs, AddressDocs
<1> QED
  BY <1>3, <1>4, <1>6, <1>7, <1>8

LEMMA CollectWriteDoes ==
  ASSUME TypeOK, CollectWrite
  PROVE  /\ TypeOK' /\ trouble' = trouble /\ collect'.id = 0
         /\ address' = address /\ FallenOut
         /\ \/ UNCHANGED relayer
            \/ \E pairs \in SUBSET Pair(Channel) : Writes(collect.id, pairs)
            \/ \E doc \in Relayer : doc.named /\ Adds(doc)
<1> DEFINE pairs == collect.pairs \cup collect.got
           served == Cardinality({ChainOf[x] : x \in UNION {{d[1], d[2]} : d \in collect.file}})
<1>1. relayer \in Docs /\ address \in AddressDocs /\ pairs \in SUBSET Pair(Channel)
  BY DEF TypeOK, Docs, AddressDocs
<1>2. NewRelayer(TRUE, pairs, served) \in Relayer /\ NewRelayer(TRUE, pairs, served).named
  <2>1. UNION {{d[1], d[2]} : d \in collect.file} \subseteq Address
    BY DEF TypeOK
  <2>2. served \in 0 .. Cardinality(Chain)
    BY <2>1, ServedTyped
  <2> HIDE DEF served, pairs
  <2>3. NewRelayer(TRUE, pairs, served) \in Relayer
    BY <1>1, <2>2, NewTyped
  <2> QED
    BY <2>3 DEF NewRelayer
<1>3. /\ Works /\ FallenOut /\ collect' = NoCollect
      /\ \/ /\ collect.id = 0 /\ Unique(0, pairs) /\ FreshIds # {}
            /\ Put(InsertOne(NewRelayer(TRUE, pairs, served)), address)
         \/ /\ collect.id # 0 /\ CanUpdate(collect.id, pairs)
            /\ Put(UpdateChannelPairInfo(collect.id, pairs), address)
         \/ UNCHANGED <<relayer, address, before>>
  BY DEF CollectWrite
<1> HIDE DEF pairs, served
<1>4. /\ relayer' \in Docs /\ address' \in AddressDocs /\ before' \in View /\ address' = address
      /\ \/ UNCHANGED relayer
         \/ Writes(collect.id, pairs)
         \/ \E doc \in Relayer : doc.named /\ Adds(doc)
  <2>1. CASE /\ collect.id = 0 /\ Unique(0, pairs) /\ FreshIds # {}
             /\ Put(InsertOne(NewRelayer(TRUE, pairs, served)), address)
    <3> DEFINE doc == NewRelayer(TRUE, pairs, served)
    <3>1. doc \in Relayer /\ doc.named
      BY <1>2
    <3> HIDE DEF doc
    <3>2. PICK n \in FreshIds : /\ n \in Id \ Known(relayer)
                                /\ InsertOne(doc) = [relayer EXCEPT ![n] = doc]
                                /\ InsertOne(doc) \in Docs
                                /\ Known(InsertOne(doc)) = Known(relayer) \cup {n}
      BY <1>1, <2>1, <3>1, InsertOneTyped
    <3>3. /\ relayer' \in Docs /\ address' \in AddressDocs /\ before' \in View
          /\ relayer' = InsertOne(doc) /\ address' = address
      BY <1>1, <2>1, <3>2, PutTyped DEF doc
    <3>4. Adds(doc)
      BY <3>2, <3>3 DEF Adds
    <3> QED
      BY <3>1, <3>3, <3>4
  <2>2. CASE /\ collect.id # 0 /\ CanUpdate(collect.id, pairs)
             /\ Put(UpdateChannelPairInfo(collect.id, pairs), address)
    <3>1. collect.id \in Known(relayer)
      BY <2>2 DEF CanUpdate, Known, TypeOK
    <3>2. UpdateChannelPairInfo(collect.id, pairs) \in Docs
      BY <1>1, <3>1, UpdateInfoTyped
    <3>3. /\ relayer' \in Docs /\ address' \in AddressDocs /\ before' \in View
          /\ relayer' = UpdateChannelPairInfo(collect.id, pairs) /\ address' = address
      BY <1>1, <2>2, <3>2, PutTyped
    <3>4. pairs # {} => Writes(collect.id, pairs)
      BY <1>1, <3>1, <3>3, UpdateInfoTyped DEF Writes
    <3>5. pairs = {} => UNCHANGED relayer
      BY <1>1, <3>1, <3>3, UpdateInfoTyped
    <3> QED
      BY <3>3, <3>4, <3>5
  <2>3. CASE UNCHANGED <<relayer, address, before>>
    BY <2>3, SameTyped
  <2> QED
    BY <1>3, <2>1, <2>2, <2>3
<1>5. taken' \in SUBSET Address
  <2>1. Listed(relayer) \subseteq Address
    BY <1>1, KnownTyped, AddressesOf DEF Listed
  <2> QED
    BY <1>3, <2>1 DEF FallenOut, TypeOK
<1>6. trouble' = trouble /\ faults' = faults
  BY <1>3 DEF Works
<1>7. TypeOK'
  BY <1>3, <1>4, <1>5, <1>6, Sorts
  DEF CollectWrite, TypeOK, chains, cron, View, Docs, AddressDocs
<1>8. collect'.id = 0
  BY <1>3 DEF NoCollect
<1> QED
  BY <1>1, <1>3, <1>4, <1>6, <1>7, <1>8

LEMMA CollectFailsTyped ==
  ASSUME TypeOK, CollectFails
  PROVE  TypeOK' /\ trouble \subseteq trouble' /\ collect'.id = 0
<1>1. trouble' \in SUBSET Fault /\ faults' \in Nat /\ trouble \subseteq trouble'
  BY FailsTyped DEF CollectFails, Fault
<1> QED
  BY <1>1, Sorts DEF CollectFails, TypeOK, chains, cron, NoCollect

LEMMA InitReadTyped ==
  ASSUME TypeOK, InitRead
  PROVE  TypeOK'
<1>1. PICK keys \in SUBSET DistinctAddr :
       init' = [x \in Address |->
                  IF x \notin DistinctAddr THEN NoAddressDoc
                  ELSE [key |-> x \in keys,
                        status |-> IF \E r \in Team(relayer) : x \in Addresses(relayer[r].pairs)
                                     THEN "registry" ELSE "todo"]]
  BY DEF InitRead
<1>2. \A k \in BOOLEAN, s \in {"registry", "todo"} : [key |-> k, status |-> s] \in AddressDoc
  BY DEF AddressDoc, GatherStatus
<1> DEFINE status(x) == IF \E r \in Team(relayer) : x \in Addresses(relayer[r].pairs)
                          THEN "registry" ELSE "todo"
<1>3. init' \in [Address -> AddressDoc]
  <2>1. ASSUME NEW x \in Address
        PROVE  [key |-> x \in keys, status |-> status(x)] \in AddressDoc
    <3>1. (x \in keys) \in BOOLEAN /\ status(x) \in {"registry", "todo"}
      OBVIOUS
    <3> HIDE DEF status
    <3> QED
      BY <1>2, <3>1
  <2>2. init' = [x \in Address |-> IF x \notin DistinctAddr THEN NoAddressDoc
                                   ELSE [key |-> x \in keys, status |-> status(x)]]
    BY <1>1
  <2> HIDE DEF status
  <2> QED
    BY <2>1, <2>2, Sorts
<1>4. inits' \in Nat
  BY DEF InitRead, TypeOK
<1> QED
  BY <1>3, <1>4 DEF InitRead, TypeOK, chains, cron

LEMMA InitInsertDoes ==
  ASSUME TypeOK, InitInsert
  PROVE  TypeOK' /\ relayer' = relayer /\ address' = InsertMany(init) /\ trouble' = trouble
<1>1. relayer \in Docs /\ InsertMany(init) \in AddressDocs
  BY InsertManyTyped DEF TypeOK, Docs, AddressDocs
<1>2. /\ relayer' \in Docs /\ address' \in AddressDocs /\ before' \in View
      /\ relayer' = relayer /\ address' = InsertMany(init)
  BY <1>1, PutTyped DEF InitInsert
<1>3. init' \in [Address -> AddressDoc]
  BY Sorts DEF InitInsert
<1>4. trouble' = trouble /\ faults' = faults
  BY DEF InitInsert, Works
<1>5. TypeOK'
  BY <1>2, <1>3, <1>4 DEF InitInsert, TypeOK, chains, cron, View, Docs, AddressDocs
<1> QED
  BY <1>2, <1>4, <1>5

LEMMA InitTyped == Init => Typed
<1> SUFFICES ASSUME Init
             PROVE  Typed
  OBVIOUS
<1>1. PICK c \in Cases : /\ focus = c.focus /\ relayed = c.relayed /\ uses = c.uses
                         /\ relayer = c.relayer /\ address = c.address
                         /\ files = c.files /\ inits = c.inits /\ faults = c.faults
  BY DEF Init
<1>2. c \in [focus : {"lists", "times", "figures"}, relayed : SUBSET Use, uses : SUBSET Use,
             relayer : [Id -> Relayer \cup {NoRelayer}], address : [Address -> AddressDoc],
             files : SUBSET SUBSET (Address \X Address), inits : Nat, faults : Nat]
  BY RelayersAssumption
<1>3. 1 \in Time
  BY RelayersAssumption DEF Time
<1>4. /\ focus \in {"lists", "times", "figures"}
      /\ relayed \in SUBSET Use /\ uses \in SUBSET Use
      /\ address \in [Address -> AddressDoc]
      /\ relayer \in [Id -> Relayer \cup {NoRelayer}]
      /\ files \in SUBSET SUBSET (Address \X Address)
      /\ inits \in Nat /\ faults \in Nat
  BY <1>1, <1>2
<1>5. before \in View
  BY Sorts DEF Init
<1>6. /\ stage \in Cron /\ queue \in SUBSET (Address \cup Chain)
      /\ step \in [Id -> {"pairs", "figures", "time", "channels", "done"}]
  BY DEF Init, Cron
<1>7. init \in [Address -> AddressDoc] /\ page \in Docs
  BY Sorts DEF Init
<1>8. TypeOK
  BY <1>3, <1>4, <1>5, <1>6, <1>7, Sorts DEF Init, TypeOK, View, Docs, AddressDocs
<1>9. WorkOK
  BY DEF Init, WorkOK
<1> QED
  BY <1>8, <1>9 DEF Typed

\* The steps by what they change of the cron task and of the lists
Elsewhere ==
  \/ \E u \in Use : RelayPacket(u)
  \/ \E x \in Address : UpdateClient(x)
  \/ Tick \/ InitRead \/ CollectFails
  \/ \E file \in files : CollectStart(file)
  \/ \E d \in collect.left : CollectFind(d)

LEMMA ElsewhereDoes ==
  ASSUME Typed, Elsewhere
  PROVE  /\ TypeOK' /\ trouble \subseteq trouble'
         /\ UNCHANGED <<address, relayer, cron, taken>>
<1>1. TypeOK
  BY DEF Typed
<1>2. CASE (\E u \in Use : RelayPacket(u)) \/ (\E x \in Address : UpdateClient(x)) \/ Tick
  BY <1>1, <1>2, ChainsTyped DEF RelayPacket, UpdateClient, Tick
<1>3. CASE InitRead
  BY <1>1, <1>3, InitReadTyped DEF InitRead
<1>4. CASE CollectFails
  BY <1>1, <1>4, CollectFailsTyped DEF CollectFails
<1>5. CASE \E file \in files : CollectStart(file)
  BY <1>1, <1>5, CollectStartDoes DEF CollectStart
<1>6. CASE \E d \in collect.left : CollectFind(d)
  BY <1>1, <1>6, CollectFindDoes DEF CollectFind
<1> QED
  BY <1>2, <1>3, <1>4, <1>5, <1>6 DEF Elsewhere

\* Steps of the cron task that write neither lists nor what counts as gathered
Aside ==
  \/ Start \/ FindToBeGathered \/ CheckDone \/ Crash
  \/ \E c \in Chain : UpdateIbcChainsRelayer(c)
  \/ \E r \in Id : UpdateIbcChannelRelayerInfo(r)

LEMMA AsideDoes ==
  ASSUME Typed, Aside
  PROVE  /\ TypeOK' /\ trouble \subseteq trouble' /\ UNCHANGED <<relayer, address, taken, init, collect>>
         /\ WorkOK' /\ stage' \notin {"pairs", "status"}
<1>1. TypeOK /\ WorkOK
  BY DEF Typed
<1>2. CASE Start
  BY <1>1, <1>2, CronTyped DEF Start, WorkOK, others
<1>3. CASE FindToBeGathered
  BY <1>1, <1>3, FindToBeGatheredTyped, ReadTyped DEF FindToBeGathered, WorkOK, others
<1>4. CASE CheckDone
  BY <1>1, <1>4, CronTyped DEF CheckDone, WorkOK, others
<1>5. CASE Crash
  BY <1>1, <1>5, CronTyped DEF Crash, WorkOK, others, Fails
<1>6. ASSUME NEW c \in Chain, UpdateIbcChainsRelayer(c)
      PROVE  /\ TypeOK' /\ trouble \subseteq trouble' /\ UNCHANGED <<relayer, address, taken, init, collect>>
             /\ WorkOK' /\ stage' \notin {"pairs", "status"}
  BY <1>1, <1>6, ChainsRelayerTyped DEF UpdateIbcChainsRelayer, WorkOK, others
<1>7. ASSUME NEW r \in Id, UpdateIbcChannelRelayerInfo(r)
      PROVE  /\ TypeOK' /\ trouble \subseteq trouble' /\ UNCHANGED <<relayer, address, taken, init, collect>>
             /\ WorkOK' /\ stage' \notin {"pairs", "status"}
  <2>1. step' = [step EXCEPT ![r] = "done"] /\ stage = "check" /\ UNCHANGED <<stage, page, cur>>
    BY <1>7 DEF UpdateIbcChannelRelayerInfo, Goto, At
  <2>2. WorkOK'
    BY <1>1, <2>1 DEF WorkOK, TypeOK
  <2> QED
    BY <1>1, <1>7, <2>1, <2>2, ChannelInfoTyped DEF UpdateIbcChannelRelayerInfo, others
<1> QED
  BY <1>2, <1>3, <1>4, <1>5, <1>6, <1>7 DEF Aside

\* What the chains are seen to use, and keys
LEMMA SeenDoes ==
  ASSUME Typed, RepairEmptyPubKey \/ \E c \in Chain : Statistics(c)
  PROVE  /\ TypeOK' /\ WorkOK' /\ trouble \subseteq trouble' /\ UNCHANGED <<relayer, taken, init, collect>>
         /\ stage' \notin {"gather", "pairs", "status"} /\ stage \notin {"gather", "pairs", "status"}
         /\ page' = page /\ page = NoPage
         /\ \A x \in Address : /\ address[x].key => address'[x].key
                               /\ address'[x].status = address[x].status \/ ~Gathered(address'[x])
                               /\ Gathered(address[x]) => address'[x].status = address[x].status
<1>1. TypeOK /\ WorkOK /\ relayer \in Docs /\ address \in AddressDocs
  BY DEF Typed, TypeOK, Docs, AddressDocs
<1>2. CASE RepairEmptyPubKey
  <2>1. PICK got \in SUBSET FindNoPubKey : Put(relayer, UpdatePubKey(got))
    BY <1>2 DEF RepairEmptyPubKey
  <2>2. address' = UpdatePubKey(got) /\ relayer' = relayer
    BY <2>1 DEF Put
  <2>3. ASSUME NEW x \in Address
        PROVE  /\ address[x].key => address'[x].key
               /\ address'[x].status = address[x].status
    <3>1. CASE x \in got
      <4>1. address'[x] = [address[x] EXCEPT !.key = TRUE]
        BY <2>2, <3>1 DEF UpdatePubKey
      <4>2. address[x] \in [status : GatherStatus, key : BOOLEAN]
        BY <1>1, <3>1 DEF FindNoPubKey, AddressDocs, AddressDoc
      <4> QED
        BY <4>1, <4>2
    <3>2. CASE x \notin got
      BY <2>2, <3>2 DEF UpdatePubKey
    <3> QED
      BY <3>1, <3>2
  <2>4. TypeOK' /\ trouble' = trouble
    BY <1>1, <1>2, RepairTyped DEF RepairEmptyPubKey, Works
  <2>5. WorkOK' /\ page = NoPage
    BY <1>1, <1>2 DEF WorkOK, RepairEmptyPubKey
  <2> QED
    BY <1>2, <2>2, <2>3, <2>4, <2>5 DEF RepairEmptyPubKey, others
<1>3. ASSUME NEW c \in Chain, Statistics(c)
      PROVE  /\ TypeOK' /\ WorkOK' /\ trouble \subseteq trouble' /\ UNCHANGED <<relayer, taken, init, collect>>
         /\ stage' \notin {"gather", "pairs", "status"} /\ stage \notin {"gather", "pairs", "status"}
         /\ page' = page /\ page = NoPage
             /\ \A x \in Address : /\ address[x].key => address'[x].key
                                   /\ address'[x].status = address[x].status \/ ~Gathered(address'[x])
                                   /\ Gathered(address[x]) => address'[x].status = address[x].status
  <2>1. PICK lost \in {{}, {"stat"}, {"channels"}, {"addresses"}, {"stat", "channels", "addresses"}} :
          /\ IF lost = {} THEN Works ELSE Fails("other")
          /\ Put(relayer, IF "addresses" \in lost THEN address ELSE SaveRelayerAddr(AddrChannels(c)))
    BY <1>3 DEF Statistics
  <2>2. relayer' = relayer /\ address' \in {address, SaveRelayerAddr(AddrChannels(c))}
    BY <2>1 DEF Put
  <2>3. ASSUME NEW x \in Address
        PROVE  /\ address[x].key => address'[x].key
               /\ address'[x].status = address[x].status \/ ~Gathered(address'[x])
               /\ Gathered(address[x]) => address'[x].status = address[x].status
    <3>1. \/ address'[x] = address[x]
          \/ address[x] = NoAddressDoc /\ address'[x] = [status |-> "todo", key |-> FALSE]
      BY <2>2 DEF SaveRelayerAddr, InsertMany
    <3> QED
      BY <3>1 DEF NoAddressDoc, Gathered
  <2>4. TypeOK' /\ trouble \subseteq trouble'
    BY <1>1, <1>3, <2>1, StatisticsTyped DEF Works, Fails
  <2>5. WorkOK' /\ page = NoPage /\ stage' \in {"statistics", "repair"}
    BY <1>1, <1>3 DEF WorkOK, Statistics, RunIncrement
  <2> QED
    BY <1>3, <2>2, <2>3, <2>4, <2>5 DEF Statistics, others
<1> QED
  BY <1>2, <1>3

LEMMA NextTyped == Typed /\ [Next]_vars => Typed'
<1> SUFFICES ASSUME Typed, [Next]_vars
             PROVE  Typed'
  OBVIOUS
<1>1. TypeOK /\ WorkOK
  BY DEF Typed
<1>2. CASE Elsewhere
  BY <1>1, <1>2, ElsewhereDoes DEF WorkOK, Typed, cron
<1>3. CASE Aside
  BY <1>3, AsideDoes DEF Typed
<1>4. CASE RepairEmptyPubKey \/ \E c \in Chain : Statistics(c)
  BY <1>4, SeenDoes DEF Typed
<1>5. ASSUME NEW x \in Address, Gather(x)
      PROVE  Typed'
  <2>1. stage = "gather" /\ UNCHANGED <<step, page>>
    BY <1>5 DEF Gather
  <2>2. WorkOK'
    BY <1>1, <1>5, <2>1, GatherDoes DEF WorkOK, Done
  <2> QED
    BY <1>1, <1>5, <2>2, GatherTyped DEF Typed
<1>6. CASE AddRelayerChannelPair
  <2>1. stage = "pairs" /\ UNCHANGED <<step, page>>
    BY <1>6 DEF AddRelayerChannelPair
  <2>2. WorkOK'
    BY <1>1, <1>6, <2>1, AddRelayerChannelPairDoes DEF WorkOK, Done
  <2> QED
    BY <1>6, <2>2, AddRelayerChannelPairDoes DEF Typed
<1>7. CASE AddRelayer
  <2>1. stage = "pairs" /\ UNCHANGED <<step, page>>
    BY <1>7 DEF AddRelayer
  <2>2. WorkOK'
    BY <1>1, <1>7, <2>1, AddRelayerDoes DEF WorkOK
  <2> QED
    BY <1>7, <2>2, AddRelayerDoes DEF Typed
<1>8. CASE UpdateGatherStatus
  <2>1. stage = "status" /\ UNCHANGED <<step, page>>
    BY <1>8 DEF UpdateGatherStatus
  <2>2. WorkOK'
    BY <1>1, <1>8, <2>1, UpdateGatherStatusDoes DEF WorkOK, Done
  <2> QED
    BY <1>8, <2>2, UpdateGatherStatusDoes DEF Typed
<1>9. CASE FindAll
  <2>1. stage = "gather"
    BY <1>9 DEF FindAll
  <2>2. WorkOK'
    BY <1>1, <1>9, <2>1, FindAllDoes DEF WorkOK
  <2> QED
    BY <1>9, <2>2, FindAllDoes DEF Typed
<1>10. ASSUME NEW r \in Id, HandleRelayerChannelPair(r)
       PROVE  Typed'
  <2>1. TypeOK' /\ UNCHANGED <<cur, stage>> /\ stage = "check" /\ page[r] \in Relayer
    BY <1>10, HandleRelayerChannelPairDoes
  <2>2. PICK new \in SUBSET Pair(Channel) : page' = [page EXCEPT ![r].pairs = new]
    BY <1>10, HandleRelayerChannelPairDoes
  <2>3. PICK s \in {"figures", "time", "done"} : step' = [step EXCEPT ![r] = s]
    BY <1>10, HandleRelayerChannelPairDoes
  <2>4. page'[r] # NoRelayer
    <3>1. [page[r] EXCEPT !.pairs = new] \in Relayer
      BY <2>1 DEF Relayer
    <3>2. page'[r] = [page[r] EXCEPT !.pairs = new]
      BY <1>1, <2>2 DEF TypeOK
    <3> QED
      BY <3>1, <3>2, RelayersAssumption
  <2>5. \A q \in Id \ {r} : page'[q] = page[q] /\ step'[q] = step[q]
    BY <1>1, <2>2, <2>3 DEF TypeOK
  <2>6. WorkOK'
    BY <1>1, <2>1, <2>4, <2>5 DEF WorkOK
  <2> QED
    BY <2>1, <2>6 DEF Typed
<1>11. ASSUME NEW r \in Id, HandleRelayerStatistic(r) \/ UpdateRelayerUpdateTime(r)
       PROVE  Typed'
  <2>1. TypeOK' /\ UNCHANGED <<cur, stage, page>> /\ stage = "check"
    BY <1>11, HandleRelayerStatisticDoes, UpdateRelayerUpdateTimeDoes
  <2>2. page[r] # NoRelayer
    BY <1>1, <1>11 DEF WorkOK, HandleRelayerStatistic, UpdateRelayerUpdateTime, At
  <2>3. \A q \in Id \ {r} : step'[q] = step[q]
    BY <1>1, <1>11, HandleRelayerStatisticDoes, UpdateRelayerUpdateTimeDoes DEF TypeOK
  <2>4. WorkOK'
    BY <1>1, <2>1, <2>2, <2>3 DEF WorkOK
  <2> QED
    BY <2>1, <2>4 DEF Typed
<1>12. CASE CollectRemove
  BY <1>1, <1>12, CollectRemoveDoes DEF CollectRemove, WorkOK, Typed, cron
<1>13. CASE CollectWrite
  BY <1>1, <1>13, CollectWriteDoes DEF CollectWrite, WorkOK, Typed, cron
<1>14. CASE InitInsert
  BY <1>1, <1>14, InitInsertDoes DEF InitInsert, WorkOK, Typed, cron
<1>15. CASE UNCHANGED vars
  BY <1>1, <1>15 DEF vars, chains, cron, others, TypeOK, WorkOK, Typed
<1> QED
  BY <1>2, <1>3, <1>4, <1>5, <1>6, <1>7, <1>8, <1>9, <1>10, <1>11, <1>12, <1>13, <1>14, <1>15
  DEF Next, CronStep, Elsewhere, Aside

\* Lists hold pairs of known addresses on known channels, and tasks have in hand
\* what they read (ibc_relayer_task, Collect, relayer_address_init_task).
THEOREM RelayersTypeCorrect == Spec => []TypeOK
<1>1. Typed => TypeOK
  BY DEF Typed
<1> QED
  BY <1>1, InitTyped, NextTyped, PTL DEF Spec

-----------------------------------------------------------------------------
(* What counts as gathered is listed *)

\* Listed addresses stay listed or are noted as taken.
LEMMA GrowsIf ==
  ASSUME trouble \subseteq trouble',
         FallenOut \/ (Listed(relayer) \subseteq Listed(relayer') /\ taken' = taken),
         NEW x, InList(x)
  PROVE  InList(x)'
BY DEF InList, FallenOut

LEMMA WritesList ==
  ASSUME NEW r, NEW pairs, Writes(r, pairs)
  PROVE  /\ Addresses(pairs) \subseteq Listed(relayer')
         /\ Addresses(relayer[r].pairs) \subseteq Addresses(pairs)
              => Listed(relayer) \subseteq Listed(relayer')
<1>1. r \in Known(relayer')
  BY DEF Writes
<1>2. Addresses(pairs) \subseteq Listed(relayer')
  BY <1>1 DEF Writes, Listed
<1>3. ASSUME NEW q \in Known(relayer), q # r
      PROVE  Addresses(relayer[q].pairs) \subseteq Listed(relayer')
  <2>1. q \in Known(relayer') /\ relayer'[q] = relayer[q]
    BY <1>3 DEF Writes, Known
  <2> QED
    BY <2>1 DEF Listed
<1> QED
  BY <1>2, <1>3 DEF Listed

LEMMA AddsList ==
  ASSUME TypeOK, NEW doc, Adds(doc)
  PROVE  /\ Addresses(doc.pairs) \subseteq Listed(relayer')
         /\ Listed(relayer) \subseteq Listed(relayer')
<1>1. PICK n \in FreshIds : /\ n \in Id \ Known(relayer) /\ relayer' = [relayer EXCEPT ![n] = doc]
                            /\ Known(relayer') = Known(relayer) \cup {n}
  BY DEF Adds
<1>2. relayer'[n] = doc /\ \A q \in Known(relayer) : relayer'[q] = relayer[q]
  BY <1>1 DEF TypeOK, Known
<1> QED
  BY <1>1, <1>2 DEF Listed

LEMMA KeepsListsList ==
  ASSUME KeepsLists
  PROVE  Listed(relayer') = Listed(relayer)
BY DEF KeepsLists, Listed

LEMMA InitGathered == Init => GatheredInv
<1> SUFFICES ASSUME Init
             PROVE  GatheredInv
  OBVIOUS
<1>1. PICK c \in Cases : relayer = c.relayer /\ address = c.address
  BY DEF Init
<1>2. \A x \in Address : Gathered(address[x]) => InList(x)
  BY <1>1, RelayersAssumption DEF InList
<1>3. \A x \in Address : ~Gathered(init[x])
  BY DEF Init, NoAddressDoc, Gathered
<1> QED
  BY <1>2, <1>3 DEF Init, GatheredInv

LEMMA NextGathered == Typed /\ GatheredInv /\ [Next]_vars => GatheredInv'
<1> SUFFICES ASSUME Typed, GatheredInv, [Next]_vars
             PROVE  GatheredInv'
  OBVIOUS
<1>1. TypeOK /\ WorkOK
  BY DEF Typed
<1>2. ASSUME \A x : InList(x) => InList(x)', address' = address, init' = init,
             stage' # "status"
      PROVE  GatheredInv'
  BY <1>2 DEF GatheredInv
<1>3. ASSUME UNCHANGED relayer, UNCHANGED taken, trouble \subseteq trouble'
      PROVE  \A x : InList(x) => InList(x)'
  BY <1>3 DEF InList
<1>4. CASE Elsewhere
  <2>1. /\ trouble \subseteq trouble' /\ UNCHANGED <<address, relayer, stage, cur, taken>>
    BY <1>4, ElsewhereDoes DEF cron
  <2>2. ASSUME NEW x \in Address, Gathered(init'[x])
        PROVE  InList(x)
    <3>1. CASE InitRead
      <4>1. init'[x].status = "registry" => \E r \in Team(relayer) : x \in Addresses(relayer[r].pairs)
        BY <3>1 DEF InitRead, NoAddressDoc
      <4>2. init'[x].status # "pubkey"
        BY <3>1 DEF InitRead, NoAddressDoc
      <4>3. x \in Listed(relayer)
        BY <2>2, <4>1, <4>2 DEF Gathered, Team, Listed
      <4> QED
        BY <4>3 DEF InList
    <3>2. CASE init' = init
      BY <2>2, <3>2 DEF GatheredInv
    <3>3. init' = init \/ InitRead
      BY <1>4 DEF Elsewhere, RelayPacket, UpdateClient, Tick, CollectFails, CollectStart, CollectFind,
                  others
    <3> QED
      BY <3>1, <3>2, <3>3
  <2> QED
    BY <1>3, <2>1, <2>2 DEF GatheredInv
<1>5. CASE Aside
  BY <1>2, <1>3, <1>5, AsideDoes
<1>6. CASE RepairEmptyPubKey \/ \E c \in Chain : Statistics(c)
  <2>1. \A x : InList(x) => InList(x)'
    BY <1>3, <1>6, SeenDoes
  <2>2. \A x \in Address : Gathered(address'[x]) => Gathered(address[x])
    BY <1>6, SeenDoes DEF Gathered
  <2> QED
    BY <1>6, <2>1, <2>2, SeenDoes DEF GatheredInv
<1>7. ASSUME NEW x \in Address, Gather(x)
      PROVE  GatheredInv'
  <2>1. trouble \subseteq trouble' /\ UNCHANGED <<relayer, taken, address, init>> /\ stage' # "status"
    BY <1>1, <1>7, GatherDoes DEF Gather, Done, others
  <2> QED
    BY <1>2, <1>3, <2>1
<1>8. CASE AddRelayerChannelPair
  <2>1. trouble \subseteq trouble' /\ address' = address /\ init' = init
    BY <1>8, AddRelayerChannelPairDoes DEF AddRelayerChannelPair, others
  <2>2. CASE /\ Writes(cur.id, cur.pairs) /\ stage' = "status" /\ UNCHANGED <<queue, cur>>
             /\ relayer[cur.id].pairs = cur.read \/ FallenOut
    <3>1. Addresses(cur.pairs) = Addresses(cur.read) \cup {cur.addr}
      BY <1>1, <1>8 DEF WorkOK, AddRelayerChannelPair
    <3>2. taken' = taken \/ FallenOut
      BY <1>8 DEF AddRelayerChannelPair
    <3>3. (Listed(relayer) \subseteq Listed(relayer') /\ taken' = taken) \/ FallenOut
      <4>1. CASE FallenOut
        BY <4>1
      <4>2. CASE ~FallenOut
        BY <2>2, <3>1, <3>2, <4>2, WritesList
      <4> QED
        BY <4>1, <4>2
    <3>4. \A x : InList(x) => InList(x)'
      BY <2>1, <3>3, GrowsIf
    <3>5. InList(cur.addr)'
      BY <2>2, <3>1, WritesList DEF InList
    <3> QED
      BY <2>1, <2>2, <3>4, <3>5 DEF GatheredInv
  <2>3. CASE Done(cur.addr) /\ UNCHANGED <<relayer, taken>>
    BY <1>2, <1>3, <2>1, <2>3 DEF Done
  <2> QED
    BY <1>8, <2>2, <2>3, AddRelayerChannelPairDoes
<1>9. CASE AddRelayer
  <2>1. /\ trouble \subseteq trouble' /\ address' = address /\ init' = init
        /\ UNCHANGED <<cur, taken>>
    BY <1>9, AddRelayerDoes DEF AddRelayer, others
  <2>2. /\ cur.addr \in Address /\ cur.addr \in Addresses(cur.pairs)
        /\ \A p \in cur.pairs : p.a = cur.addr
    BY <1>1, <1>9 DEF WorkOK, AddRelayer
  <2>3. CASE Adds(NewRelayer(FALSE, cur.pairs, 1))
    <3>1. Listed(relayer) \subseteq Listed(relayer') /\ Addresses(cur.pairs) \subseteq Listed(relayer')
      BY <1>1, <2>3, AddsList DEF NewRelayer
    <3>2. \A x : InList(x) => InList(x)'
      BY <2>1, <3>1, GrowsIf
    <3>3. InList(cur.addr)'
      BY <2>1, <2>2, <3>1 DEF InList
    <3> QED
      BY <2>1, <3>2, <3>3 DEF GatheredInv
  <2>4. CASE UNCHANGED relayer /\ ("insert" \in trouble' \/ ~Unique(0, cur.pairs))
    <3>1. \A x : InList(x) => InList(x)'
      BY <1>3, <2>1, <2>4
    <3>2. ASSUME ~Unique(0, cur.pairs)
          PROVE  cur.addr \in Listed(relayer)
      <4>1. PICK q \in Known(relayer) : relayer[q].pairs \cap cur.pairs # {}
        BY <3>2 DEF Unique
      <4>2. PICK p \in relayer[q].pairs : p.a = cur.addr
        BY <2>2, <4>1
      <4>3. cur.addr \in Ends(p)
        BY <2>2, <4>2, PairsAssumption DEF Ends
      <4> QED
        BY <4>3 DEF Listed, Addresses
    <3>3. InList(cur.addr)'
      BY <2>1, <2>4, <3>2 DEF InList
    <3> QED
      BY <2>1, <3>1, <3>3 DEF GatheredInv
  <2> QED
    BY <1>9, <2>3, <2>4, AddRelayerDoes
<1>10. CASE UpdateGatherStatus
  <2>1. /\ trouble \subseteq trouble' /\ UNCHANGED <<relayer, taken, init>> /\ stage' # "status"
        /\ address' \in {address, WithGatherStatus(cur.addr, cur.status)} /\ stage = "status"
    BY <1>10, UpdateGatherStatusDoes DEF UpdateGatherStatus, Done, others
  <2>2. \A x : InList(x) => InList(x)'
    BY <1>3, <2>1
  <2>3. \A x \in Address : address'[x] = address[x] \/ x = cur.addr
    BY <1>1, <2>1 DEF WithGatherStatus, TypeOK
  <2> QED
    BY <2>1, <2>2, <2>3 DEF GatheredInv
<1>11. CASE FindAll
  <2>1. /\ trouble \subseteq trouble' /\ UNCHANGED <<relayer, address, taken, init>> /\ stage' # "status"
    BY <1>11, FindAllDoes DEF FindAll, others
  <2> QED
    BY <1>2, <1>3, <2>1
<1>12. ASSUME NEW r \in Id, HandleRelayerChannelPair(r)
       PROVE  GatheredInv'
  <2>1. /\ trouble \subseteq trouble' /\ UNCHANGED <<address, init>> /\ stage' # "status"
    BY <1>12, HandleRelayerChannelPairDoes DEF HandleRelayerChannelPair, others
  <2>2. PICK new \in SUBSET Pair(Channel) :
          /\ Addresses(new) = Addresses(page[r].pairs)
          /\ \/ Writes(r, new) /\ (relayer[r].pairs = page[r].pairs \/ FallenOut)
             \/ UNCHANGED <<relayer, taken>>
    BY <1>12, HandleRelayerChannelPairDoes
  <2>3. taken' = taken \/ FallenOut
    BY <1>12 DEF HandleRelayerChannelPair
  <2>4. (Listed(relayer) \subseteq Listed(relayer') /\ taken' = taken) \/ FallenOut
    BY <2>2, <2>3, WritesList
  <2>5. \A x : InList(x) => InList(x)'
    BY <2>1, <2>4, GrowsIf
  <2> QED
    BY <1>2, <2>1, <2>5
<1>13. ASSUME NEW r \in Id, HandleRelayerStatistic(r) \/ UpdateRelayerUpdateTime(r)
       PROVE  GatheredInv'
  <2>1. /\ trouble \subseteq trouble' /\ KeepsLists /\ UNCHANGED <<address, taken, stage>>
        /\ stage = "check"
    BY <1>13, HandleRelayerStatisticDoes, UpdateRelayerUpdateTimeDoes
  <2>2. init' = init
    BY <1>13 DEF HandleRelayerStatistic, UpdateRelayerUpdateTime, others
  <2>3. \A x : InList(x) => InList(x)'
    BY <2>1, GrowsIf, KeepsListsList
  <2> QED
    BY <1>2, <2>1, <2>2, <2>3
<1>14. CASE CollectRemove \/ CollectWrite
  <2>1. trouble' = trouble /\ address' = address /\ FallenOut
    BY <1>1, <1>14, CollectRemoveDoes, CollectWriteDoes
  <2>2. UNCHANGED <<init, stage, cur>>
    BY <1>14 DEF CollectRemove, CollectWrite, cron
  <2>3. \A x : InList(x) => InList(x)'
    BY <2>1, GrowsIf
  <2> QED
    BY <2>1, <2>2, <2>3 DEF GatheredInv
<1>15. CASE InitInsert
  <2>1. relayer' = relayer /\ address' = InsertMany(init) /\ trouble' = trouble
    BY <1>1, <1>15, InitInsertDoes
  <2>2. UNCHANGED <<taken, stage, cur>> /\ \A x \in Address : ~Gathered(init'[x])
    BY <1>15 DEF InitInsert, cron, Gathered, NoAddressDoc
  <2>3. \A x \in Address : address'[x] \in {address[x], init[x]}
    BY <2>1 DEF InsertMany
  <2>4. \A x : InList(x) => InList(x)'
    BY <1>3, <2>1, <2>2
  <2> QED
    BY <2>2, <2>3, <2>4 DEF GatheredInv
<1>16. CASE UNCHANGED vars
  BY <1>16 DEF vars, cron, others, GatheredInv, InList
<1> QED
  BY <1>4, <1>5, <1>6, <1>7, <1>8, <1>9, <1>10, <1>11, <1>12, <1>13, <1>14, <1>15, <1>16
  DEF Next, CronStep, Elsewhere, Aside

\* An address that counts as gathered is in a list, unless an insertion failed or
\* its list was taken over or overwritten (gather, HandleRelayerChannelPair).
THEOREM GatheredIsListedThm == Spec => []GatheredIsListed
<1>1. GatheredInv => GatheredIsListed
  BY DEF GatheredInv, GatheredIsListed, InList
<1> QED
  BY <1>1, InitTyped, NextTyped, InitGathered, NextGathered, PTL DEF Spec

-----------------------------------------------------------------------------
(* The addresses of one key are gathered in one relayer *)

\* Relayers without a name stay as they are, or go.
Thins ==
  \A r \in Nameless(relayer') :
    r \in Nameless(relayer) /\ relayer'[r].pairs = relayer[r].pairs

LEMMA NamelessTyped ==
  ASSUME TypeOK, NEW r \in Nameless(relayer)
  PROVE  r \in Id /\ relayer[r] \in Relayer /\ Addresses(relayer[r].pairs) \subseteq Address
<1>1. relayer \in Docs /\ r \in Known(relayer)
  BY DEF TypeOK, Docs, Nameless
<1> QED
  BY <1>1, KnownTyped, AddressesOf

LEMMA SameThins == UNCHANGED relayer => Thins
BY DEF Thins

LEMMA KeepsListsThins == KeepsLists => Thins
BY DEF KeepsLists, Thins, Nameless

LEMMA CollectThins ==
  ASSUME TypeOK, collect.id \notin Nameless(relayer), CollectRemove \/ CollectWrite
  PROVE  Thins
<1>1. CASE CollectRemove
  BY <1>1, CollectRemoveDoes DEF Thins, Nameless
<1>2. ASSUME NEW pairs, Writes(collect.id, pairs)
      PROVE  Thins
  <2>1. relayer'[collect.id].named
    BY <1>2 DEF Writes, Nameless
  <2> QED
    BY <1>2, <2>1 DEF Thins, Writes, Nameless, Known
<1>3. ASSUME NEW doc \in Relayer, doc.named, Adds(doc)
      PROVE  Thins
  <2>1. PICK n \in Id \ Known(relayer) : /\ relayer' = [relayer EXCEPT ![n] = doc]
                                         /\ Known(relayer') = Known(relayer) \cup {n}
    BY <1>3 DEF Adds
  <2>2. relayer'[n] = doc /\ \A q \in Known(relayer) : relayer'[q] = relayer[q]
    BY <2>1 DEF TypeOK, Known
  <2> QED
    BY <1>3, <2>1, <2>2 DEF Thins, Nameless
<1> QED
  BY <1>1, <1>2, <1>3, CollectWriteDoes, SameThins

\* What is gathered with its key stays so, and its relayers at most go.
LEMMA ThinsKeeps ==
  ASSUME TypeOK, KeyedOK, Thins,
         \A x \in Address : address[x].key => address'[x].key,
         \A x \in Address : Gathered(address[x]) => Gathered(address'[x]),
         stage = "status" => Gathered(address'[cur.addr]) \/ (stage' = "status" /\ cur' = cur)
  PROVE  KeyedOK'
<1>1. ASSUME NEW r \in Nameless(relayer'), NEW x \in Addresses(relayer'[r].pairs)
      PROVE  address'[x].key /\ (Gathered(address'[x]) \/ (stage' = "status" /\ x = cur'.addr))
  <2>1. r \in Nameless(relayer) /\ x \in Addresses(relayer[r].pairs)
    BY <1>1 DEF Thins
  <2>2. x \in Address
    BY <2>1, NamelessTyped
  <2> QED
    BY <2>1, <2>2 DEF KeyedOK
<1>2. OneRelayerPerKey(relayer')
  BY DEF KeyedOK, OneRelayerPerKey, Thins
<1> QED
  BY <1>1, <1>2 DEF KeyedOK

LEMMA HandsKeep ==
  ASSUME HandsOK, Thins, page' \in {page, NoPage}, collect'.id \in {0, collect.id},
         TypeOK
  PROVE  HandsOK'
<1>1. \A r \in Nameless(relayer') : r \in Id
  BY DEF Nameless, Known
<1> QED
  BY <1>1, Sorts DEF HandsOK, Thins, NoPage

LEMMA CurKeeps ==
  ASSUME CurOK, Thins, stage' = "pairs" => UNCHANGED <<stage, cur>>
  PROVE  CurOK'
BY DEF CurOK, Thins

LEMMA InitKey == Init => KeyInv
<1> SUFFICES ASSUME Init
             PROVE  KeyInv
  OBVIOUS
<1>1. PICK c \in Cases : relayer = c.relayer /\ address = c.address
  BY DEF Init
<1>2. KeyedOK
  BY <1>1, RelayersAssumption DEF KeyedOK
<1>3. QueueOK /\ CurOK
  BY DEF Init, QueueOK, CurOK
<1>4. HandsOK
  <2>1. \A r \in Nameless(relayer) : r \in Id
    BY DEF Nameless, Known
  <2> QED
    BY <2>1, Sorts DEF Init, HandsOK, NoPage, NoCollect
<1> QED
  BY <1>2, <1>3, <1>4 DEF KeyInv

\* gather finds the one relayer of the key, if there is one.
LEMMA GatherKey ==
  ASSUME Typed, KeyedOK, QueueOK, CurOK, HandsOK, Clean', NEW x \in Address, Gather(x)
  PROVE  KeyedOK' /\ QueueOK' /\ CurOK' /\ HandsOK'
<1>1. TypeOK
  BY DEF Typed
<1>2. /\ stage = "gather" /\ UNCHANGED <<relayer, address, page, collect>>
      /\ x \in queue /\ queue \subseteq ToBeGathered(address)
  BY DEF Gather, QueueOK, others
<1>3. KeyedOK' /\ HandsOK'
  BY <1>1, <1>2, SameThins, ThinsKeeps, HandsKeep
<1>4. CASE Done(x)
  BY <1>2, <1>3, <1>4 DEF Done, QueueOK, CurOK
<1>5. CASE ~Done(x)
  <2>1. /\ stage' = "pairs" /\ queue' = queue /\ cur'.addr = x
        /\ cur'.id = 0 => /\ cur'.read = {}
                          /\ \A s \in {"pubkey", "registry"} : Owners(Primary, x, s) = {}
        /\ cur'.id # 0 =>
             /\ cur'.id \in Owners(Primary, x, "registry") \cup Owners(Primary, x, "pubkey")
             /\ cur'.read = relayer[cur'.id].pairs
    BY <1>1, <1>5, GatherDoes DEF Clean
  <2>2. QueueOK'
    BY <1>2, <2>1 DEF QueueOK
  <2>3. ASSUME cur'.id \in Nameless(relayer) \cup {0}, NEW r \in Nameless(relayer),
               NEW y \in Addresses(relayer[r].pairs), KeyOf[y] = KeyOf[x]
        PROVE  r = cur'.id
    <3>1. y \in Address /\ address[y].key /\ Gathered(address[y])
      BY <1>1, <1>2, NamelessTyped DEF KeyedOK
    <3>2. y # x
      BY <1>2, <3>1 DEF ToBeGathered, Gathered
    <3>3. FindByChannelPair(relayer, y) # {}
      <4>1. PICK p \in relayer[r].pairs : y \in Ends(p)
        BY DEF Addresses
      <4>2. r \in Known(relayer) /\ (p.a = y \/ p.b = y)
        BY <4>1 DEF Ends, Nameless
      <4> QED
        BY <4>1, <4>2 DEF FindByChannelPair
    <3>4. Owners(Primary, x, address[y].status) # {}
      <4>1. y \in {z \in FindByPubKey(Primary.address, KeyOf[x]) \ {x} :
                     Primary.address[z].status = address[y].status}
        BY <2>3, <3>1, <3>2 DEF Primary, FindByPubKey
      <4> QED
        BY <3>3, <4>1 DEF Owners, Primary
    <3>5. address[y].status \in {"pubkey", "registry"}
      BY <3>1 DEF Gathered
    <3>6. cur'.id \in Nameless(relayer)
      BY <2>1, <2>3, <3>4, <3>5
    <3>7. cur'.id # 0
      BY <2>1, <3>4, <3>5
    <3>8. PICK s \in {"pubkey", "registry"} : cur'.id \in Owners(Primary, x, s)
      BY <2>1, <3>7
    <3>9. PICK z \in Address \ {x} : /\ KeyOf[z] = KeyOf[x]
                                     /\ z \in Addresses(Primary.relayer[cur'.id].pairs) \/ z = NoAddress
      BY <3>8, OwnersKnown
    <3>10. z \in Addresses(relayer[cur'.id].pairs)
      BY <3>9, PairsAssumption DEF Primary
    <3> QED
      BY <2>3, <3>6, <3>9, <3>10 DEF KeyedOK, OneRelayerPerKey
  <2>4. CurOK'
    <3>1. relayer' = relayer
      BY <1>2
    <3>2. ASSUME NEW r \in Nameless(relayer), r = cur'.id
          PROVE  cur'.read = relayer[r].pairs
      BY <1>1, <2>1, <3>2, Sorts, NamelessTyped
    <3> QED
      BY <2>1, <2>3, <3>1, <3>2 DEF CurOK
  <2> QED
    BY <1>3, <2>2, <2>4
<1> QED
  BY <1>4, <1>5

\* An address with a key goes to the relayer without a name that alone lists its
\* key, or to one with a name.
LEMMA AddRelayerChannelPairKey ==
  ASSUME Typed, KeyedOK, QueueOK, CurOK, HandsOK, AddRelayerChannelPair
  PROVE  KeyedOK' /\ QueueOK' /\ CurOK' /\ HandsOK'
<1>1. TypeOK /\ WorkOK
  BY DEF Typed
<1>2. /\ stage = "pairs" /\ cur.id # 0 /\ UNCHANGED <<page, collect>> /\ address' = address
      /\ queue \subseteq ToBeGathered(address) /\ cur.addr \in queue /\ page = NoPage
      /\ Addresses(cur.pairs) = Addresses(cur.read) \cup {cur.addr}
  BY <1>1, AddRelayerChannelPairDoes DEF AddRelayerChannelPair, QueueOK, others, WorkOK
<1>3. CASE Done(cur.addr) /\ UNCHANGED relayer
  <2>1. QueueOK' /\ CurOK'
    BY <1>2, <1>3 DEF Done, QueueOK, CurOK
  <2> QED
    BY <1>1, <1>2, <1>3, <2>1, SameThins, ThinsKeeps, HandsKeep
<1>4. CASE Writes(cur.id, cur.pairs) /\ stage' = "status" /\ UNCHANGED <<queue, cur>>
  <2>1. QueueOK' /\ CurOK'
    BY <1>2, <1>4 DEF QueueOK, CurOK
  <2>2. Nameless(relayer') = Nameless(relayer)
    BY <1>4 DEF Writes, Nameless, Known
  <2>3. HandsOK'
    <3>1. \A r \in Nameless(relayer) : r \in Id
      BY DEF Nameless, Known
    <3> QED
      BY <1>2, <2>2, <3>1 DEF HandsOK, NoPage
  <2>4. ASSUME NEW r \in Nameless(relayer), NEW x \in Addresses(relayer'[r].pairs)
        PROVE  \/ x \in Addresses(relayer[r].pairs)
               \/ r = cur.id /\ x = cur.addr
    <3>1. CASE r = cur.id
      <4>1. x \in Addresses(cur.read) \cup {cur.addr}
        BY <1>2, <1>4, <2>4, <3>1 DEF Writes
      <4> QED
        BY <1>2, <3>1, <4>1 DEF CurOK
    <3>2. CASE r # cur.id
      <4>1. relayer'[r] = relayer[r]
        BY <1>1, <1>4, <3>2, NamelessTyped DEF Writes
      <4> QED
        BY <4>1
    <3> QED
      BY <3>1, <3>2
  <2>5. ASSUME NEW r \in Nameless(relayer), NEW x \in Addresses(relayer'[r].pairs)
        PROVE  address'[x].key /\ (Gathered(address'[x]) \/ (stage' = "status" /\ x = cur'.addr))
    <3>1. address[cur.addr].key
      BY <1>2 DEF ToBeGathered
    <3> QED
      BY <1>2, <1>4, <2>4, <3>1 DEF KeyedOK
  <2>6. ASSUME NEW r \in Nameless(relayer), NEW q \in Nameless(relayer),
               NEW x \in Addresses(relayer'[r].pairs), NEW y \in Addresses(relayer'[q].pairs),
               KeyOf[x] = KeyOf[y]
        PROVE  r = q
    <3>1. CASE x \in Addresses(relayer[r].pairs) /\ y \in Addresses(relayer[q].pairs)
      BY <2>6, <3>1 DEF KeyedOK, OneRelayerPerKey
    <3>2. CASE r = cur.id /\ x = cur.addr
      BY <1>2, <2>4, <2>6, <3>2 DEF CurOK
    <3>3. CASE q = cur.id /\ y = cur.addr
      BY <1>2, <2>4, <2>6, <3>3 DEF CurOK
    <3> QED
      BY <2>4, <3>1, <3>2, <3>3
  <2>7. KeyedOK'
    BY <2>2, <2>5, <2>6 DEF KeyedOK, OneRelayerPerKey
  <2> QED
    BY <2>1, <2>3, <2>7
<1> QED
  BY <1>3, <1>4, AddRelayerChannelPairDoes

\* A new relayer lists an address of whose key there is no relayer.
LEMMA AddRelayerKey ==
  ASSUME Typed, KeyedOK, QueueOK, CurOK, HandsOK, AddRelayer
  PROVE  KeyedOK' /\ QueueOK' /\ CurOK' /\ HandsOK'
<1>1. TypeOK /\ WorkOK
  BY DEF Typed
<1>2. /\ stage = "pairs" /\ cur.id = 0 /\ UNCHANGED <<page, collect>> /\ address' = address
      /\ stage' = "status" /\ UNCHANGED <<queue, cur>>
      /\ queue \subseteq ToBeGathered(address) /\ cur.addr \in queue /\ page = NoPage
      /\ Addresses(cur.pairs) = {cur.addr}
  <2>1. Addresses(cur.pairs) = Addresses(cur.read) \cup {cur.addr} /\ cur.read = {}
    BY <1>1 DEF AddRelayer, WorkOK, CurOK
  <2>2. Addresses({}) = {}
    BY DEF Addresses
  <2> QED
    BY <1>1, <2>1, <2>2, AddRelayerDoes DEF AddRelayer, QueueOK, others, WorkOK
<1>3. QueueOK' /\ CurOK'
  BY <1>2 DEF QueueOK, CurOK
<1>4. CASE UNCHANGED relayer
  BY <1>1, <1>2, <1>3, <1>4, SameThins, ThinsKeeps, HandsKeep
<1>5. CASE Adds(NewRelayer(FALSE, cur.pairs, 1))
  <2> DEFINE doc == NewRelayer(FALSE, cur.pairs, 1)
  <2>1. PICK n \in FreshIds : /\ n \in Id \ Known(relayer)
                              /\ relayer' = [relayer EXCEPT ![n] = doc]
                              /\ Known(relayer') = Known(relayer) \cup {n}
    BY <1>5 DEF Adds
  <2>2. doc.pairs = cur.pairs
    BY DEF NewRelayer
  <2> HIDE DEF doc
  <2>3. relayer'[n] = doc /\ \A q \in Known(relayer) : relayer'[q] = relayer[q] /\ q # n
    BY <1>1, <2>1 DEF TypeOK, Known
  <2>4. Nameless(relayer') \subseteq Nameless(relayer) \cup {n}
    BY <2>1, <2>3 DEF Nameless
  <2>5. \A r \in Nameless(relayer) : relayer'[r] = relayer[r] /\ r # n
    BY <2>3 DEF Nameless
  <2>6. Addresses(relayer'[n].pairs) = {cur.addr}
    BY <1>2, <2>2, <2>3
  <2>7. HandsOK'
    <3>1. collect.id # n
      BY <2>1 DEF FreshIds
    <3>2. \A r \in Nameless(relayer') : r \in Id
      BY DEF Nameless, Known
    <3> QED
      BY <1>2, <2>4, <2>5, <3>1, <3>2 DEF HandsOK, NoPage
  <2>8. ASSUME NEW r \in Nameless(relayer'), NEW x \in Addresses(relayer'[r].pairs)
        PROVE  address'[x].key /\ (Gathered(address'[x]) \/ (stage' = "status" /\ x = cur'.addr))
    <3>1. address[cur.addr].key
      BY <1>2 DEF ToBeGathered
    <3>2. CASE r = n
      BY <1>2, <2>6, <2>8, <3>1, <3>2
    <3>3. CASE r \in Nameless(relayer)
      BY <1>2, <2>5, <2>8, <3>3 DEF KeyedOK
    <3> QED
      BY <2>4, <3>2, <3>3
  <2>9. \A r \in Nameless(relayer), y \in Address :
          y \in Addresses(relayer[r].pairs) => KeyOf[y] # KeyOf[cur.addr]
    BY <1>1, <1>2, Sorts, NamelessTyped DEF CurOK
  <2>10. ASSUME NEW r \in Nameless(relayer'), NEW q \in Nameless(relayer'),
                NEW x \in Addresses(relayer'[r].pairs), NEW y \in Addresses(relayer'[q].pairs),
                KeyOf[x] = KeyOf[y]
         PROVE  r = q
    <3>1. CASE r \in Nameless(relayer) /\ q \in Nameless(relayer)
      BY <2>5, <2>10, <3>1 DEF KeyedOK, OneRelayerPerKey
    <3>2. CASE r = n /\ q \in Nameless(relayer)
      BY <1>1, <2>5, <2>6, <2>9, <2>10, <3>2, NamelessTyped
    <3>3. CASE q = n /\ r \in Nameless(relayer)
      BY <1>1, <2>5, <2>6, <2>9, <2>10, <3>3, NamelessTyped
    <3> QED
      BY <2>4, <3>1, <3>2, <3>3
  <2>11. KeyedOK'
    BY <2>8, <2>10 DEF KeyedOK, OneRelayerPerKey
  <2> QED
    BY <1>3, <2>7, <2>11
<1> QED
  BY <1>4, <1>5, AddRelayerDoes

\* The address counts as gathered, and leaves the queue.
LEMMA UpdateGatherStatusKey ==
  ASSUME Typed, KeyedOK, QueueOK, HandsOK, UpdateGatherStatus, Clean'
  PROVE  KeyedOK' /\ QueueOK' /\ CurOK' /\ HandsOK'
<1>1. TypeOK /\ WorkOK
  BY DEF Typed
<1>2. /\ stage = "status" /\ UNCHANGED <<relayer, page, collect>> /\ Done(cur.addr)
      /\ address' = WithGatherStatus(cur.addr, cur.status)
      /\ queue \subseteq ToBeGathered(address) /\ cur.addr \in queue
      /\ cur.addr \in Address /\ cur.status \in {"pubkey", "registry"}
  BY <1>1, UpdateGatherStatusDoes DEF UpdateGatherStatus, QueueOK, others, WorkOK, Clean
<1>3. address[cur.addr] = [status |-> "todo", key |-> TRUE]
  BY <1>2 DEF ToBeGathered
<1>4. /\ address'[cur.addr].key /\ address'[cur.addr].status = cur.status
      /\ \A x \in Address \ {cur.addr} : address'[x] = address[x]
  <2>1. /\ [address[cur.addr] EXCEPT !.status = cur.status].key
        /\ [address[cur.addr] EXCEPT !.status = cur.status].status = cur.status
    BY <1>3
  <2>2. address' = [address EXCEPT ![cur.addr] = [address[cur.addr] EXCEPT !.status = cur.status]]
    BY <1>2 DEF WithGatherStatus
  <2> QED
    BY <1>1, <1>2, <2>1, <2>2 DEF TypeOK
<1>5. QueueOK' /\ CurOK'
  BY <1>2, <1>4 DEF Done, QueueOK, CurOK, ToBeGathered
<1>6. \A x \in Address : /\ address[x].key => address'[x].key
                         /\ Gathered(address[x]) => Gathered(address'[x])
  BY <1>2, <1>4 DEF Gathered
<1>7. Gathered(address'[cur.addr])
  BY <1>2, <1>4 DEF Gathered
<1> QED
  BY <1>1, <1>2, <1>5, <1>6, <1>7, SameThins, ThinsKeeps, HandsKeep

\* The workers start from the lists there are,
LEMMA FindAllKey ==
  ASSUME Typed, KeyedOK, HandsOK, FindAll, Clean'
  PROVE  KeyedOK' /\ QueueOK' /\ CurOK' /\ HandsOK'
<1>1. TypeOK
  BY DEF Typed
<1>2. /\ stage = "gather" /\ UNCHANGED <<relayer, address, collect, cur>>
      /\ stage' \in {"check", "chains"} /\ page' \in {relayer, page}
  BY <1>1, FindAllDoes DEF FindAll, others, Clean
<1>3. QueueOK' /\ CurOK'
  BY <1>2 DEF QueueOK, CurOK
<1>4. HandsOK'
  BY <1>2 DEF HandsOK
<1> QED
  BY <1>1, <1>2, <1>3, <1>4, SameThins, ThinsKeeps

\* and write what has the addresses of these.
LEMMA HandleRelayerChannelPairKey ==
  ASSUME Typed, KeyedOK, HandsOK, NEW r \in Id, HandleRelayerChannelPair(r)
  PROVE  KeyedOK' /\ QueueOK' /\ CurOK' /\ HandsOK'
<1>1. TypeOK
  BY DEF Typed
<1>2. /\ stage = "check" /\ UNCHANGED <<address, collect, cur, stage>> /\ page[r] \in Relayer
  BY HandleRelayerChannelPairDoes DEF HandleRelayerChannelPair, others
<1>3. QueueOK' /\ CurOK'
  BY <1>2 DEF QueueOK, CurOK
<1>4. PICK new \in SUBSET Pair(Channel) :
        /\ Addresses(new) = Addresses(page[r].pairs)
        /\ page' = [page EXCEPT ![r].pairs = new]
        /\ Writes(r, new) \/ UNCHANGED relayer
  BY HandleRelayerChannelPairDoes
<1>5. Addresses(page'[r].pairs) = Addresses(page[r].pairs) /\ \A q \in Id \ {r} : page'[q] = page[q]
  <2>1. page'[r] = [page[r] EXCEPT !.pairs = new]
    BY <1>1, <1>4 DEF TypeOK
  <2>2. page'[r].pairs = new
    BY <1>2, <2>1 DEF Relayer
  <2> QED
    BY <1>1, <1>4, <2>2 DEF TypeOK
<1>6. \A q \in Nameless(relayer) : q \in Id
  BY DEF Nameless, Known
<1>7. page[r] # NoRelayer
  BY <1>2, RelayersAssumption
<1>8. CASE UNCHANGED relayer
  <2>1. HandsOK'
    BY <1>2, <1>5, <1>6, <1>7, <1>8 DEF HandsOK
  <2> QED
    BY <1>1, <1>2, <1>3, <1>8, <2>1, SameThins, ThinsKeeps
<1>9. CASE Writes(r, new)
  <2>1. /\ Nameless(relayer') = Nameless(relayer) /\ relayer'[r].pairs = new
        /\ \A q \in Id \ {r} : relayer'[q] = relayer[q]
    BY <1>9 DEF Writes, Nameless, Known
  <2>2. \A q \in Nameless(relayer) :
          Addresses(relayer'[q].pairs) \subseteq Addresses(relayer[q].pairs)
    BY <1>4, <1>6, <1>7, <2>1 DEF HandsOK
  <2>3. HandsOK'
    BY <1>2, <1>4, <1>5, <1>6, <2>1 DEF HandsOK
  <2>4. OneRelayerPerKey(relayer')
    BY <2>1, <2>2 DEF KeyedOK, OneRelayerPerKey
  <2>5. KeyedOK'
    BY <1>2, <2>1, <2>2, <2>4 DEF KeyedOK
  <2> QED
    BY <1>3, <2>3, <2>5
<1> QED
  BY <1>4, <1>8, <1>9

\* The other steps of the cron task add to no list; the queue is read when no
\* address is in hand.
LEMMA AsideKey ==
  ASSUME Typed, KeyedOK, HandsOK, Aside, Clean'
  PROVE  KeyedOK' /\ QueueOK' /\ CurOK' /\ HandsOK'
<1>1. TypeOK
  BY DEF Typed
<1>2. UNCHANGED <<relayer, address, collect>> /\ stage' \notin {"pairs", "status"}
  BY AsideDoes
<1>3. stage # "status"
  <2>1. ~Crash
    <3>1. Crash => "crash" \in trouble'
      BY DEF Crash, Fails
    <3> QED
      BY <3>1 DEF Clean
  <2> QED
    BY <2>1 DEF Aside, Start, FindToBeGathered, CheckDone, UpdateIbcChainsRelayer,
                UpdateIbcChannelRelayerInfo, At
<1>4. page' \in {page, NoPage}
  BY DEF Aside, Start, FindToBeGathered, CheckDone, Crash, UpdateIbcChainsRelayer,
         UpdateIbcChannelRelayerInfo
<1>5. stage' = "gather" => queue' = ToBeGathered(address)
  <2>1. CASE FindToBeGathered
    <3>1. PICK view \in {Primary, before} : Read(view) /\ queue' = ToBeGathered(view.address)
      BY <2>1 DEF FindToBeGathered
    <3>2. "stale" \notin trouble'
      BY DEF Clean
    <3>3. view = Primary
      BY <1>1, <3>1, <3>2, ReadTyped
    <3> QED
      BY <3>1, <3>3 DEF Primary
  <2>2. CASE ~FindToBeGathered
    BY <2>2 DEF Aside, Start, CheckDone, Crash, UpdateIbcChainsRelayer,
                UpdateIbcChannelRelayerInfo, At
  <2> QED
    BY <2>1, <2>2
<1>6. QueueOK' /\ CurOK'
  BY <1>2, <1>5 DEF QueueOK, CurOK
<1> QED
  BY <1>1, <1>2, <1>3, <1>4, <1>6, SameThins, ThinsKeeps, HandsKeep

LEMMA NextKey == Typed /\ KeyInv /\ [Next]_vars => KeyInv'
<1> SUFFICES ASSUME Typed, KeyInv, [Next]_vars, Clean'
             PROVE  KeyedOK' /\ QueueOK' /\ CurOK' /\ HandsOK'
  BY DEF KeyInv
<1>1. TypeOK /\ WorkOK
  BY DEF Typed
<1>2. ASSUME trouble \subseteq trouble'
      PROVE  KeyedOK /\ QueueOK /\ CurOK /\ HandsOK
  BY <1>2 DEF Clean, KeyInv
<1>3. CASE Elsewhere
  <2>1. /\ KeyedOK /\ QueueOK /\ CurOK /\ HandsOK
        /\ UNCHANGED <<address, relayer, stage, queue, cur, page>>
    BY <1>2, <1>3, ElsewhereDoes DEF cron
  <2>2. KeyedOK' /\ QueueOK' /\ CurOK'
    BY <2>1 DEF KeyedOK, QueueOK, CurOK
  <2>3. collect'.id \notin Nameless(relayer)
    <3>1. CASE \E file \in files : CollectStart(file)
      <4>1. collect'.id # 0 => collect'.id \in Team(relayer)
        <5>1. "stale" \notin trouble'
          BY DEF Clean
        <5> QED
          BY <1>1, <3>1, <5>1, CollectStartDoes
      <4> QED
        BY <4>1, Sorts DEF Team, Nameless, Known
    <3>2. CASE collect'.id \in {0, collect.id}
      BY <2>1, <3>2, Sorts DEF HandsOK, Nameless, Known
    <3>3. CASE CollectFails
      BY <1>1, <3>2, <3>3, CollectFailsTyped
    <3>4. CASE \E d \in collect.left : CollectFind(d)
      BY <1>1, <3>2, <3>4, CollectFindDoes
    <3>5. CASE (\E u \in Use : RelayPacket(u)) \/ (\E x \in Address : UpdateClient(x)) \/ Tick
               \/ InitRead
      BY <3>2, <3>5 DEF RelayPacket, UpdateClient, Tick, InitRead, others
    <3> QED
      BY <1>3, <3>1, <3>3, <3>4, <3>5 DEF Elsewhere
  <2>4. HandsOK'
    BY <2>1, <2>3 DEF HandsOK
  <2> QED
    BY <2>2, <2>4
<1>4. CASE Aside
  BY <1>2, <1>4, AsideDoes, AsideKey
<1>5. CASE RepairEmptyPubKey \/ \E c \in Chain : Statistics(c)
  <2>1. /\ KeyedOK /\ HandsOK /\ UNCHANGED <<relayer, collect, page>>
        /\ stage' \notin {"gather", "pairs", "status"} /\ stage # "status"
        /\ \A x \in Address : /\ address[x].key => address'[x].key
                              /\ Gathered(address[x]) => address'[x].status = address[x].status
    BY <1>2, <1>5, SeenDoes
  <2>2. QueueOK' /\ CurOK'
    BY <2>1 DEF QueueOK, CurOK
  <2>3. \A x \in Address : Gathered(address[x]) => Gathered(address'[x])
    BY <2>1 DEF Gathered
  <2> QED
    BY <1>1, <2>1, <2>2, <2>3, SameThins, ThinsKeeps, HandsKeep
<1>6. ASSUME NEW x \in Address, Gather(x)
      PROVE  KeyedOK' /\ QueueOK' /\ CurOK' /\ HandsOK'
  BY <1>1, <1>2, <1>6, GatherDoes, GatherKey
<1>7. CASE AddRelayerChannelPair
  BY <1>2, <1>7, AddRelayerChannelPairDoes, AddRelayerChannelPairKey
<1>8. CASE AddRelayer
  BY <1>2, <1>8, AddRelayerDoes, AddRelayerKey
<1>9. CASE UpdateGatherStatus
  BY <1>2, <1>9, UpdateGatherStatusDoes, UpdateGatherStatusKey
<1>10. CASE FindAll
  BY <1>2, <1>10, FindAllDoes, FindAllKey
<1>11. ASSUME NEW r \in Id, HandleRelayerChannelPair(r)
       PROVE  KeyedOK' /\ QueueOK' /\ CurOK' /\ HandsOK'
  BY <1>2, <1>11, HandleRelayerChannelPairDoes, HandleRelayerChannelPairKey
<1>12. ASSUME NEW r \in Id, HandleRelayerStatistic(r) \/ UpdateRelayerUpdateTime(r)
       PROVE  KeyedOK' /\ QueueOK' /\ CurOK' /\ HandsOK'
  <2>1. /\ trouble \subseteq trouble' /\ Thins /\ UNCHANGED <<address, cur, stage, page>>
        /\ stage = "check"
    BY <1>12, HandleRelayerStatisticDoes, UpdateRelayerUpdateTimeDoes, KeepsListsThins
  <2>2. collect' = collect
    BY <1>12 DEF HandleRelayerStatistic, UpdateRelayerUpdateTime, others
  <2>3. QueueOK' /\ CurOK'
    BY <2>1 DEF QueueOK, CurOK
  <2> QED
    BY <1>1, <1>2, <2>1, <2>2, <2>3, ThinsKeeps, HandsKeep
<1>13. CASE CollectRemove \/ CollectWrite
  <2>1. trouble' = trouble /\ address' = address /\ collect'.id \in {0, collect.id}
    BY <1>1, <1>13, CollectRemoveDoes, CollectWriteDoes
  <2>2. UNCHANGED <<stage, queue, cur, page>>
    BY <1>13 DEF CollectRemove, CollectWrite, cron
  <2>3. KeyedOK /\ QueueOK /\ CurOK /\ HandsOK
    BY <1>2, <2>1
  <2>4. Thins
    BY <1>1, <1>13, <2>3, CollectThins DEF HandsOK
  <2>5. QueueOK'
    BY <2>1, <2>2, <2>3 DEF QueueOK
  <2> QED
    BY <1>1, <2>1, <2>2, <2>3, <2>4, <2>5, ThinsKeeps, HandsKeep, CurKeeps
<1>14. CASE InitInsert
  <2>1. relayer' = relayer /\ address' = InsertMany(init) /\ trouble' = trouble
    BY <1>1, <1>14, InitInsertDoes
  <2>2. UNCHANGED <<stage, queue, cur, page, collect>>
    BY <1>14 DEF InitInsert, cron
  <2>3. KeyedOK /\ QueueOK /\ CurOK /\ HandsOK
    BY <1>2, <2>1
  <2>4. \A x \in Address : address[x].key \/ Gathered(address[x]) => address'[x] = address[x]
    BY <2>1 DEF InsertMany, NoAddressDoc, Gathered
  <2>5. Thins
    BY <2>1, SameThins
  <2>6. \A x \in Address : Gathered(address[x]) => Gathered(address'[x])
    BY <2>4
  <2>7. KeyedOK'
    BY <1>1, <2>2, <2>3, <2>4, <2>5, <2>6, ThinsKeeps
  <2>8. QueueOK'
    BY <2>2, <2>3, <2>4 DEF QueueOK, ToBeGathered
  <2> QED
    BY <1>1, <2>2, <2>3, <2>5, <2>7, <2>8, HandsKeep, CurKeeps
<1>15. CASE UNCHANGED vars
  <2>1. UNCHANGED <<trouble, relayer, address, stage, queue, cur, page, collect>>
    BY <1>15 DEF vars, cron, others
  <2> QED
    BY <1>2, <2>1 DEF KeyedOK, QueueOK, CurOK, HandsOK
<1> QED
  BY <1>3, <1>4, <1>5, <1>6, <1>7, <1>8, <1>9, <1>10, <1>11, <1>12, <1>13, <1>14, <1>15
  DEF Next, CronStep, Elsewhere, Aside

\* Two relayers without a name never list two addresses of one public key, unless
\* a stale read, a failed look-up, an unwritten status or a stop split them
\* (gather, addRelayer, addRelayerChannelPair, updateGatherStatus).
THEOREM SameKeySameRelayerThm == Spec => []SameKeySameRelayer
<1>1. KeyInv => SameKeySameRelayer
  BY DEF KeyInv, KeyedOK, Clean, SameKeySameRelayer
<1> QED
  BY <1>1, InitTyped, NextTyped, InitKey, NextKey, PTL DEF Spec

-----------------------------------------------------------------------------
(* The time of a channel is that of a relayer *)

\* When times are looked at, nothing is left to see, to gather or to take over, so
\* that lists stay as they are;
RestInv ==
  /\ uses = Use /\ files = {} /\ inits = 0 /\ collect.at = "idle" /\ collect.left = {}
  /\ \A x \in Address : init[x] = NoAddressDoc /\ address[x].status # "todo"
  /\ \A u \in Use : address[u.addr] # NoAddressDoc
  /\ stage \notin {"pairs", "status"} /\ (stage = "gather" => queue = {})
  /\ \A r \in Known(relayer) :
       MatchRelayerChannelPairInfo(SingleSideAddressMatchPair(relayer[r].pairs, Use), Use)
         = relayer[r].pairs

\* a relayer's time is never later than when one of its addresses updated a client,
Reached(r) ==
  \/ relayer[r].time = 0
  \/ \E x \in Addresses(relayer[r].pairs) : relayer[r].time <= newest[x]
ListsOK ==
  \A r \in Known(relayer) :
    Reached(r) /\ \A p \in relayer[r].pairs : Single(p) => p.chB = NoChannel

\* and the workers have in hand the lists and the times there are.
PageIs ==
  /\ Known(page) = Known(relayer)
  /\ \A r \in Known(relayer) : /\ page[r].pairs = relayer[r].pairs
                               /\ step[r] \in {"pairs", "time"} => page[r].time = relayer[r].time
                               /\ step[r] # "figures"

\* What the map has of a channel is the time of a relayer that was looked at, and
\* the channel has that time, or one of them is still to write it.
On(c) == {r \in Known(relayer) : c \in ChannelsOf(relayer[r].pairs)}
Several(c) == \E r \in On(c) : Cardinality(relayer[r].pairs) > 1
Past(c) == {r \in On(c) : step[r] \in {"channels", "done"}}
Times(R) == {relayer[r].time : r \in R}
Refreshed(c) ==
  \/ Past(c) = {} \/ Past(c) \cap missed # {} \/ Several(c)
  \/ /\ updateTimes[c] > 0 /\ updateTimes[c] \in Times(Past(c))
     /\ channelTime[c] = updateTimes[c] \/ \E r \in Past(c) : step[r] = "channels"
Shown(c) ==
  \/ On(c) = {} \/ channelTime[c] = 0 \/ On(c) \cap missed # {} \/ Several(c)
  \/ channelTime[c] \in Times(On(c))
ChannelsOK ==
  IF stage = "check" THEN PageIs /\ \A c \in ChannelId : Refreshed(c)
                     ELSE \A c \in ChannelId : Shown(c)

TimesInv ==
  focus = "times" /\ "stale" \notin trouble => RestInv /\ ListsOK /\ ChannelsOK

\* A list of which one pair is all there is
LEMMA ImageFinite ==
  ASSUME NEW S, IsFiniteSet(S), NEW f
  PROVE  IsFiniteSet({f[x] : x \in S})
<1> DEFINE T == {f[x] : x \in S}
           g == [x \in S |-> f[x]]
<1>1. g \in [S -> T]
  OBVIOUS
<1>2. \A t \in T : \E x \in S : g[x] = t
  OBVIOUS
<1>3. g \in Surjection(S, T)
  BY <1>1, <1>2 DEF Surjection
<1> HIDE DEF g, T
<1>4. IsFiniteSet(T)
  BY <1>3, FS_Surjection
<1> QED
  BY <1>4 DEF T

LEMMA PairsFinite == IsFiniteSet(Pair(Channel))
<1>1. IsFiniteSet(Channel)
  <2> DEFINE f == [u \in Use |-> u.channel]
             g == [u \in Use |-> u.other]
  <2>1. IsFiniteSet({f[u] : u \in Use}) /\ IsFiniteSet({g[u] : u \in Use})
    <3> HIDE DEF f, g
    <3> QED
      BY ImageFinite, RelayersAssumption
  <2>2. {f[u] : u \in Use} = {u.channel : u \in Use} /\ {g[u] : u \in Use} = {u.other : u \in Use}
    OBVIOUS
  <2> QED
    BY <2>1, <2>2, FS_Union DEF Channel
<1>2. IsFiniteSet(Channel \cup {NoChannel}) /\ IsFiniteSet(Address \cup {NoAddress}) /\ IsFiniteSet(Address)
  BY <1>1, RelayersAssumption, FS_AddElement
<1> DEFINE D == Channel \cup {NoChannel}
           A == Address
           B == Address \cup {NoAddress}
           S == (A \X D) \X (B \X D)
           f == [s \in S |-> [a |-> s[1][1], chA |-> s[1][2], b |-> s[2][1], chB |-> s[2][2]]]
<1>3. IsFiniteSet(S)
  <2>1. IsFiniteSet(A) /\ IsFiniteSet(B) /\ IsFiniteSet(D)
    BY <1>2
  <2> HIDE DEF A, B, D
  <2>2. IsFiniteSet(A \X D) /\ IsFiniteSet(B \X D)
    BY <2>1, FS_Product
  <2> QED
    BY <2>2, FS_Product
<1>4. \A p \in Pair(Channel) : \E s \in S : f[s] = p
  <2> SUFFICES ASSUME NEW p \in Pair(Channel)
               PROVE  \E s \in S : f[s] = p
    OBVIOUS
  <2>1. << <<p.a, p.chA>>, <<p.b, p.chB>> >> \in S
    BY DEF Pair
  <2>2. f[<< <<p.a, p.chA>>, <<p.b, p.chB>> >>] = p
    BY <2>1 DEF Pair
  <2> QED
    BY <2>1, <2>2
<1>5. IsFiniteSet({f[s] : s \in S})
  <2> HIDE DEF f, S
  <2> QED
    BY <1>3, ImageFinite
<1>6. Pair(Channel) \subseteq {f[s] : s \in S}
  <2> HIDE DEF f, S
  <2> QED
    BY <1>4
<1> HIDE DEF f, S
<1> QED
  BY <1>5, <1>6, FS_Subset

LEMMA OnlyPair ==
  ASSUME NEW pairs \in SUBSET Pair(Channel), ~ (Cardinality(pairs) > 1),
         NEW p \in pairs, NEW q \in pairs
  PROVE  p = q
<1> SUFFICES ASSUME p # q
             PROVE  FALSE
  OBVIOUS
<1>1. IsFiniteSet(pairs)
  BY PairsFinite, FS_Subset
<1>2. IsFiniteSet({p}) /\ Cardinality({p}) = 1
  BY FS_Singleton
<1>3. Cardinality({p} \cup {q}) = 2
  BY <1>2, FS_AddElement
<1>4. Cardinality({p} \cup {q}) <= Cardinality(pairs)
  BY <1>1, FS_Subset
<1>5. Cardinality(pairs) \in Nat
  BY <1>1, FS_CardinalityType
<1> QED
  BY <1>3, <1>4, <1>5

\* The time of a pair is that of one of its ends, and the newer one if both were found.
LEMMA MaxIs ==
  ASSUME NEW S, S \subseteq Nat, NEW m \in S, \A y \in S : y <= m
  PROVE  Max(S) \in S /\ \A y \in S : y <= Max(S)
<1>1. \A y \in S : m >= y
  OBVIOUS
<1>2. Max(S) \in S /\ \A y \in S : Max(S) >= y
  BY <1>1 DEF Max
<1> QED
  BY <1>2

LEMMA EndTimes ==
  ASSUME TypeOK, NEW p \in Pair(Channel), NEW since, NEW down \in SUBSET Address,
         NEW t \in GetChannelPairUpdateTime(p, since, down)
  PROVE  /\ t = 0 \/ \E x \in Ends(p) : t = newest[x]
         /\ ~Single(p) /\ (\A x \in Ends(p) : GetUpdateTime(x, since, down) # 0) =>
              t > 0 /\ \A x \in Ends(p) : newest[x] <= t
<1> DEFINE timeA == GetUpdateTime(p.a, since, down)
           timeB == GetUpdateTime(p.b, since, down)
           most == Max({timeA, timeB})
<1>1. p.a \in Address /\ newest[p.a] \in Nat /\ timeA \in {0, newest[p.a]} /\ p.a \in Ends(p)
  BY Sorts, PairsAssumption DEF TypeOK, Pair, Ends, GetUpdateTime, GetUpdateTimeByUpdateClient
<1>2. \/ Single(p) /\ timeB = 0
      \/ /\ ~Single(p) /\ p.b \in Address /\ newest[p.b] \in Nat
         /\ timeB \in {0, newest[p.b]} /\ p.b \in Ends(p)
  BY Sorts DEF TypeOK, Pair, Single, Ends, GetUpdateTime, GetUpdateTimeByUpdateClient
<1>3. t = most \/ (t = 0 /\ (timeA = 0 \/ timeB = 0))
  BY DEF GetChannelPairUpdateTime
<1>4. Ends(p) \subseteq {p.a, p.b}
  BY DEF Ends
<1>5. ~Single(p) /\ (\A x \in Ends(p) : GetUpdateTime(x, since, down) # 0) => timeA # 0 /\ timeB # 0
  BY <1>1, <1>2
<1> HIDE DEF timeA, timeB
<1>6. most \in {timeA, timeB} /\ timeA <= most /\ timeB <= most
  <2>1. timeA \in Nat /\ timeB \in Nat
    BY <1>1, <1>2
  <2>2. \E m \in {timeA, timeB} : \A y \in {timeA, timeB} : y <= m
    BY <2>1
  <2>3. Max({timeA, timeB}) \in {timeA, timeB} /\ \A y \in {timeA, timeB} : y <= Max({timeA, timeB})
    BY <2>1, <2>2, MaxIs
  <2> QED
    BY <2>3
<1> HIDE DEF most
<1>7. t = 0 \/ \E x \in Ends(p) : t = newest[x]
  BY <1>1, <1>2, <1>3, <1>6
<1>8. ASSUME timeA # 0, ~Single(p), timeB # 0
      PROVE  t > 0 /\ \A x \in Ends(p) : newest[x] <= t
  BY <1>1, <1>2, <1>3, <1>4, <1>6, <1>8
<1> QED
  BY <1>5, <1>7, <1>8

LEMMA NewestIs ==
  ASSUME NEW pairs, NEW times \in [pairs -> Time]
  PROVE  /\ NewestUpdateTime(pairs, times) \in {0} \cup {times[p] : p \in pairs}
         /\ \A p \in pairs : times[p] <= NewestUpdateTime(pairs, times)
<1> DEFINE T == {0} \cup {times[p] : p \in pairs}
<1>1. T \subseteq Time /\ T # {} /\ \A p \in pairs : times[p] \in T
  BY Sorts
<1>2. T \subseteq Nat /\ MaxTime \in Nat /\ \A y \in T : y <= MaxTime
  BY <1>1, Sorts, RelayersAssumption DEF Time
<1>3. NewestUpdateTime(pairs, times) = Max(T)
  BY DEF NewestUpdateTime
<1> HIDE DEF T
<1>4. PICK x \in T : \A y \in T : y <= x
  BY <1>1, <1>2, GreatestExists
<1>5. Max(T) \in T /\ \A y \in T : y <= Max(T)
  BY <1>2, <1>4, MaxIs
<1> QED
  BY <1>1, <1>3, <1>5 DEF T

\* What a relayer's times become
LEMMA TimesWritten ==
  ASSUME Typed, ListsOK, PageIs, NEW r \in Id, UpdateRelayerUpdateTime(r)
  PROVE  /\ r \in Known(relayer)
         /\ relayer'[r].time = 0 \/ \E x \in Addresses(relayer[r].pairs) : relayer'[r].time <= newest[x]
         /\ \A q \in Id \ {r} : relayer'[q] = relayer[q] /\ (q \in missed' <=> q \in missed)
         /\ \A c \in ChannelId :
              IF c \notin ChannelsOf(relayer[r].pairs) THEN updateTimes'[c] = updateTimes[c]
              ELSE \/ r \in missed' \/ Cardinality(relayer[r].pairs) > 1
                   \/ updateTimes'[c] > 0 /\ updateTimes'[c] = relayer'[r].time
<1> DEFINE pairs == relayer[r].pairs
           since == Since(r)
<1>1. TypeOK /\ relayer \in Docs /\ address \in AddressDocs /\ step[r] = "time"
  BY DEF Typed, TypeOK, Docs, AddressDocs, UpdateRelayerUpdateTime, At
<1>2. r \in Known(relayer) /\ page[r].pairs = pairs /\ page[r].time = relayer[r].time
  <2>1. r \in Known(page)
    BY <1>1 DEF Typed, WorkOK, Known
  <2> QED
    BY <1>1, <2>1 DEF PageIs
<1>3. relayer[r] \in Relayer /\ pairs \in SUBSET Pair(Channel) /\ relayer[r].time \in Time
  BY <1>1, <1>2 DEF Docs, Known, Relayer
<1>4. PICK down \in SUBSET Address, times \in [pairs -> Time],
           last \in [ChannelsOf(pairs) -> pairs] :
        /\ \A p \in pairs : times[p] \in GetChannelPairUpdateTime(p, since, down)
        /\ \A c \in DOMAIN last : GenerateChannelId(last[c]) = c
        /\ updateTimes' = StoreUpdateTimes(last, times)
        /\ Put(UpdateRelayerTime(r, NewestUpdateTime(pairs, times)), address)
        /\ missed' = IF \E x \in Address : /\ \E p \in pairs : x \in Ends(p) \/ Single(p)
                                           /\ GetUpdateTime(x, since, down) = 0
                       THEN missed \cup {r} ELSE missed \ {r}
  BY <1>2 DEF UpdateRelayerUpdateTime
<1> DEFINE t == NewestUpdateTime(pairs, times)
<1>5. t \in Time /\ t \in {0} \cup {times[p] : p \in pairs} /\ \A p \in pairs : times[p] <= t
  BY NewestIs, NewestTyped
<1>6. relayer' = UpdateRelayerTime(r, t)
  BY <1>4 DEF Put
<1> HIDE DEF pairs, since, t
<1>7. /\ relayer'[r].time = IF relayer[r].time >= t THEN relayer[r].time ELSE t
      /\ \A q \in Id \ {r} : relayer'[q] = relayer[q]
  <2>1. relayer[r] # NoRelayer
    BY <1>2 DEF Known
  <2>2. CASE relayer[r].time >= t
    BY <1>2, <1>6, <2>2 DEF UpdateRelayerTime
  <2>3. CASE ~(relayer[r].time >= t)
    <3>1. relayer' = [relayer EXCEPT ![r].time = t]
      BY <1>2, <1>6, <2>1, <2>3 DEF UpdateRelayerTime
    <3> QED
      BY <1>1, <1>3, <2>3, <3>1 DEF Docs, Relayer
  <2> QED
    BY <2>2, <2>3
<1>8. \A q \in Id \ {r} : q \in missed' <=> q \in missed
  BY <1>4
<1>9. t = 0 \/ \E x \in Addresses(pairs) : t = newest[x]
  <2>1. ASSUME t # 0
        PROVE  \E x \in Addresses(pairs) : t = newest[x]
    <3>1. PICK p \in pairs : t = times[p]
      BY <1>5, <2>1
    <3>2. PICK x \in Ends(p) : t = newest[x]
      BY <1>1, <1>3, <1>4, <2>1, <3>1, EndTimes
    <3> QED
      BY <3>1, <3>2 DEF Addresses
  <2> QED
    BY <2>1
<1>10. Addresses(pairs) \subseteq Address /\ \A x \in Address : newest[x] \in Nat
  BY <1>1, <1>3, AddressesOf, Sorts DEF TypeOK
<1>11. t \in Nat /\ relayer[r].time \in Nat
  BY <1>3, <1>5, Sorts
<1>12. relayer'[r].time = 0 \/ \E x \in Addresses(pairs) : relayer'[r].time <= newest[x]
  BY <1>2, <1>7, <1>9, <1>10, <1>11 DEF ListsOK, Reached, pairs
<1>13. ASSUME NEW c \in ChannelId, c \in ChannelsOf(pairs), r \notin missed',
              ~ (Cardinality(pairs) > 1)
       PROVE  updateTimes'[c] > 0 /\ updateTimes'[c] = relayer'[r].time
  <2>1. last[c] \in pairs /\ GenerateChannelId(last[c]) = c /\ updateTimes'[c] = times[last[c]]
    BY <1>4, <1>13 DEF StoreUpdateTimes
  <2> DEFINE p == last[c]
  <2>2. p \in Pair(Channel) /\ ~Single(p)
    <3>1. p.chB \in Channel
      BY <2>1 DEF GenerateChannelId, ChannelId
    <3>2. p.chB # NoChannel
      BY <3>1, RelayersAssumption
    <3> QED
      BY <1>2, <1>3, <2>1, <3>2 DEF ListsOK, pairs
  <2> HIDE DEF p
  <2>3. p \in pairs /\ \A q \in pairs : q = p
    <3>1. p \in pairs
      BY <2>1 DEF p
    <3> QED
      BY <1>3, <1>13, <3>1, OnlyPair
  <2>4. times[p] \in Time /\ times[p] <= t /\ (t = 0 \/ t = times[p])
    BY <1>4, <1>5, <2>3
  <2>5. times[p] = t
    <3> DEFINE n == times[p]
    <3>1. n \in Nat /\ n <= t /\ (t = 0 \/ t = n)
      BY <2>4, Sorts
    <3> HIDE DEF n
    <3>2. n = t
      BY <1>11, <3>1
    <3> QED
      BY <3>2 DEF n
  <2>6. \A x \in Ends(p) : GetUpdateTime(x, since, down) # 0
    <3>1. Ends(p) \subseteq Address
      BY <2>2, EndsOfPair
    <3> QED
      BY <1>4, <1>13, <2>3, <3>1
  <2>7. t > 0 /\ \A x \in Ends(p) : newest[x] <= t
    BY <1>1, <1>4, <2>2, <2>3, <2>5, <2>6, EndTimes
  <2>8. Addresses(pairs) = Ends(p)
    BY <2>3 DEF Addresses
  <2>9. relayer[r].time <= t
    <3>1. relayer[r].time = 0 \/ \E x \in Ends(p) : relayer[r].time <= newest[x]
      BY <1>2, <2>8 DEF ListsOK, Reached, pairs
    <3> QED
      BY <1>10, <1>11, <2>7, <2>8, <3>1
  <2>10. relayer'[r].time = t
    BY <1>7, <1>11, <2>9
  <2> QED
    BY <2>1, <2>5, <2>7, <2>10 DEF p
<1>14. ASSUME NEW c \in ChannelId, c \notin ChannelsOf(pairs)
       PROVE  updateTimes'[c] = updateTimes[c]
  BY <1>4, <1>14 DEF StoreUpdateTimes
<1> QED
  BY <1>2, <1>7, <1>8, <1>12, <1>13, <1>14 DEF pairs


\* The steps there are as long as lists rest
Moves ==
  \/ UNCHANGED vars
  \/ \E u \in Use : RelayPacket(u)
  \/ \E x \in Address : UpdateClient(x)
  \/ Tick \/ Start \/ RepairEmptyPubKey \/ FindToBeGathered \/ FindAll \/ CheckDone \/ Crash
  \/ \E c \in Chain : Statistics(c) \/ UpdateIbcChainsRelayer(c)
  \/ \E r \in Id : \/ HandleRelayerChannelPair(r) \/ HandleRelayerStatistic(r)
                   \/ UpdateRelayerUpdateTime(r) \/ UpdateIbcChannelRelayerInfo(r)

LEMMA RestMoves ==
  ASSUME RestInv, [Next]_vars
  PROVE  Moves
<1>1. ~ \E x \in Address : Gather(x)
  BY DEF RestInv, Gather
<1>2. ~AddRelayerChannelPair /\ ~AddRelayer /\ ~UpdateGatherStatus
  BY DEF RestInv, AddRelayerChannelPair, AddRelayer, UpdateGatherStatus
<1>3. (~ \E file \in files : CollectStart(file)) /\ ~ \E d \in collect.left : CollectFind(d)
  BY DEF RestInv
<1>4. ~CollectRemove /\ ~CollectWrite /\ ~CollectFails
  BY DEF RestInv, CollectRemove, CollectWrite, CollectFails
<1>5. ~InitRead /\ ~InitInsert
  BY DEF RestInv, InitRead, InitInsert
<1> QED
  BY <1>1, <1>2, <1>3, <1>4, <1>5 DEF Moves, Next, CronStep

LEMMA FocusStays == [Next]_vars => focus' = focus
<1> SUFFICES ASSUME Next
             PROVE  focus' = focus
  BY DEF vars
<1>1. CASE (\E u \in Use : RelayPacket(u)) \/ (\E x \in Address : UpdateClient(x)) \/ Tick
  BY <1>1 DEF RelayPacket, UpdateClient, Tick
<1>2. CASE Start \/ RepairEmptyPubKey \/ FindToBeGathered \/ FindAll \/ CheckDone \/ Crash
  BY <1>2 DEF Start, RepairEmptyPubKey, FindToBeGathered, FindAll, CheckDone, Crash
<1>3. CASE \E c \in Chain : Statistics(c) \/ UpdateIbcChainsRelayer(c)
  BY <1>3 DEF Statistics, UpdateIbcChainsRelayer
<1>4. CASE AddRelayerChannelPair \/ AddRelayer \/ UpdateGatherStatus \/ \E x \in Address : Gather(x)
  BY <1>4 DEF AddRelayerChannelPair, AddRelayer, UpdateGatherStatus, Gather
<1>5. CASE \E r \in Id : HandleRelayerChannelPair(r) \/ HandleRelayerStatistic(r)
  BY <1>5 DEF HandleRelayerChannelPair, HandleRelayerStatistic
<1>6. CASE \E r \in Id : UpdateRelayerUpdateTime(r) \/ UpdateIbcChannelRelayerInfo(r)
  BY <1>6 DEF UpdateRelayerUpdateTime, UpdateIbcChannelRelayerInfo
<1>7. CASE (\E file \in files : CollectStart(file)) \/ (\E d \in collect.left : CollectFind(d))
  BY <1>7 DEF CollectStart, CollectFind
<1>8. CASE CollectRemove \/ CollectWrite \/ CollectFails \/ InitRead \/ InitInsert
  BY <1>8 DEF CollectRemove, CollectWrite, CollectFails, InitRead, InitInsert
<1> QED
  BY <1>1, <1>2, <1>3, <1>4, <1>5, <1>6, <1>7, <1>8 DEF Next, CronStep

\* A list that is matched is left alone.
LEMMA PairsRest ==
  ASSUME Typed, focus = "times", RestInv, PageIs, NEW r \in Id, HandleRelayerChannelPair(r)
  PROVE  /\ UNCHANGED relayer /\ UNCHANGED address /\ stage = "check" /\ step[r] = "pairs"
         /\ step' = [step EXCEPT ![r] = "time"]
         /\ Known(page') = Known(page)
         /\ \A q \in Known(page) : page'[q].pairs = page[q].pairs /\ page'[q].time = page[q].time
<1> DEFINE old == page[r].pairs
           new == MatchRelayerChannelPairInfo(SingleSideAddressMatchPair(old, uses), uses)
<1>1. TypeOK /\ page \in Docs /\ stage = "check" /\ step[r] = "pairs"
  BY DEF Typed, TypeOK, Docs, HandleRelayerChannelPair, At
<1>2. r \in Known(page) /\ page[r] \in Relayer
  <2>1. r \in Known(page)
    BY <1>1 DEF Typed, WorkOK, Known
  <2> QED
    BY <1>1, <2>1, KnownTyped
<1>3. new = old
  BY <1>2 DEF RestInv, PageIs
<1>4. /\ page' = [page EXCEPT ![r].pairs = new]
      /\ \/ new # old
         \/ UNCHANGED <<address, relayer, before, taken>>
  BY DEF HandleRelayerChannelPair
<1>5. step' = [step EXCEPT ![r] = "time"]
  BY DEF HandleRelayerChannelPair, Goto
<1> HIDE DEF new, old
<1>6. page' = [page EXCEPT ![r].pairs = old]
  BY <1>3, <1>4
<1>7. page'[r].pairs = page[r].pairs /\ page'[r].time = page[r].time /\ page'[r] \in Relayer
  BY <1>1, <1>2, <1>6 DEF Docs, Relayer, old
<1>8. \A q \in Id \ {r} : page'[q] = page[q]
  BY <1>1, <1>6 DEF Docs
<1>9. Known(page') = Known(page)
  BY <1>2, <1>7, <1>8, RelayersAssumption DEF Known
<1> QED
  BY <1>1, <1>3, <1>4, <1>5, <1>7, <1>8, <1>9 DEF Known

LEMMA NextRest ==
  ASSUME Typed, focus = "times", RestInv, ChannelsOK, [Next]_vars, "stale" \notin trouble'
  PROVE  RestInv'
<1>1. Moves
  BY RestMoves
<1>2. TypeOK /\ relayed \subseteq Use /\ address \in AddressDocs
  BY DEF Typed, TypeOK, AddressDocs
<1>3. CASE UNCHANGED vars \/ (\E u \in Use : RelayPacket(u)) \/ (\E x \in Address : UpdateClient(x)) \/ Tick
  BY <1>3 DEF RelayPacket, UpdateClient, Tick, vars, cron, others, RestInv
<1>4. CASE Start \/ CheckDone \/ Crash \/ \E c \in Chain : UpdateIbcChainsRelayer(c)
  BY <1>4 DEF Start, CheckDone, Crash, UpdateIbcChainsRelayer, others, RestInv
<1>5. CASE FindToBeGathered
  <2>1. PICK view \in {Primary, before} : Read(view) /\ queue' = ToBeGathered(view.address)
    BY <1>5 DEF FindToBeGathered
  <2>2. view = Primary
    BY <1>2, <2>1, ReadTyped
  <2>3. queue' = {}
    BY <2>1, <2>2 DEF Primary, ToBeGathered, RestInv
  <2> QED
    BY <1>5, <2>3 DEF FindToBeGathered, others, RestInv
<1>6. CASE FindAll
  BY <1>6 DEF FindAll, others, RestInv
<1>7. CASE RepairEmptyPubKey \/ \E c \in Chain : Statistics(c)
  <2>1. /\ UNCHANGED relayer /\ UNCHANGED init /\ UNCHANGED collect
        /\ stage' \notin {"gather", "pairs", "status"}
    BY <1>7, SeenDoes
  <2>2. UNCHANGED files /\ UNCHANGED inits /\ uses' = uses
    <3>1. CASE RepairEmptyPubKey
      BY <3>1 DEF RepairEmptyPubKey, others
    <3>2. ASSUME NEW c \in Chain, Statistics(c)
          PROVE  UNCHANGED files /\ UNCHANGED inits /\ uses' = uses
      <4>1. AddrChannels(c) \subseteq uses
        BY <1>2 DEF AddrChannels, RestInv
      <4> QED
        BY <3>2, <4>1 DEF Statistics, SaveAddrChannel, others
    <3> QED
      BY <1>7, <3>1, <3>2
  <2>3. /\ \A x \in Address : address'[x].status # "todo"
        /\ \A u \in Use : address'[u.addr] # NoAddressDoc
    <3>1. CASE RepairEmptyPubKey
      <4>1. PICK got \in SUBSET FindNoPubKey : Put(relayer, UpdatePubKey(got))
        BY <3>1 DEF RepairEmptyPubKey
      <4>2. ASSUME NEW x \in Address
            PROVE  /\ address'[x].status = address[x].status
                   /\ address[x] # NoAddressDoc => address'[x] # NoAddressDoc
        <5>1. CASE x \in got
          <6>1. address'[x] = [address[x] EXCEPT !.key = TRUE]
            BY <4>1, <5>1 DEF Put, UpdatePubKey
          <6>2. address[x] \in [status : GatherStatus, key : BOOLEAN]
            BY <1>2, <5>1 DEF FindNoPubKey, AddressDocs, AddressDoc
          <6> QED
            BY <6>1, <6>2 DEF NoAddressDoc
        <5>2. CASE x \notin got
          BY <4>1, <5>2 DEF Put, UpdatePubKey
        <5> QED
          BY <5>1, <5>2
      <4> QED
        BY <4>2, RelayersAssumption DEF RestInv, Usage
    <3>2. ASSUME NEW c \in Chain, Statistics(c)
          PROVE  address' = address
      <4>1. address' \in {address, SaveRelayerAddr(AddrChannels(c))}
        BY <3>2 DEF Statistics, Put
      <4>2. \A x \in Address : SaveRelayerAddr(AddrChannels(c))[x] = address[x]
        BY <1>2 DEF SaveRelayerAddr, InsertMany, AddrChannels, RestInv
      <4>3. SaveRelayerAddr(AddrChannels(c)) = address
        BY <1>2, <4>2 DEF SaveRelayerAddr, InsertMany, AddressDocs
      <4> QED
        BY <4>1, <4>3
    <3> QED
      BY <1>7, <3>1, <3>2 DEF RestInv
  <2> QED
    BY <2>1, <2>2, <2>3 DEF RestInv
<1>8. ASSUME NEW r \in Id, HandleRelayerChannelPair(r)
      PROVE  RestInv'
  <2>1. stage = "check"
    BY <1>8 DEF HandleRelayerChannelPair, At
  <2>2. UNCHANGED relayer /\ UNCHANGED address
    BY <1>8, <2>1, PairsRest DEF ChannelsOK
  <2> QED
    BY <1>8, <2>1, <2>2 DEF HandleRelayerChannelPair, others, RestInv
<1>9. ASSUME NEW r \in Id, HandleRelayerStatistic(r) \/ UpdateRelayerUpdateTime(r)
      PROVE  RestInv'
  <2>1. KeepsLists /\ UNCHANGED address /\ UNCHANGED stage /\ UNCHANGED queue
    BY <1>9, HandleRelayerStatisticDoes, UpdateRelayerUpdateTimeDoes
  <2>2. UNCHANGED uses /\ UNCHANGED others
    BY <1>9 DEF HandleRelayerStatistic, UpdateRelayerUpdateTime
  <2> QED
    BY <2>1, <2>2 DEF KeepsLists, others, RestInv
<1>10. ASSUME NEW r \in Id, UpdateIbcChannelRelayerInfo(r)
       PROVE  RestInv'
  BY <1>10 DEF UpdateIbcChannelRelayerInfo, others, RestInv
<1> QED
  BY <1>1, <1>3, <1>4, <1>5, <1>6, <1>7, <1>8, <1>9, <1>10 DEF Moves

\* What the steps do to the times
LEMMA NewestGrows ==
  ASSUME TypeOK, Moves
  PROVE  \A x \in Address : newest[x] \in Nat /\ newest'[x] \in Nat /\ newest[x] <= newest'[x]
<1>1. \A x \in Address : newest[x] \in Nat /\ now \in Nat
  BY Sorts DEF TypeOK
<1>2. CASE \E x \in Address : UpdateClient(x)
  BY <1>1, <1>2 DEF UpdateClient, TypeOK
<1>3. CASE ~ \E x \in Address : UpdateClient(x)
  <2>1. newest' = newest
    BY <1>3 DEF Moves, vars, chains, RelayPacket, Tick, Start, RepairEmptyPubKey, FindToBeGathered,
       FindAll, CheckDone, Crash, Statistics, UpdateIbcChainsRelayer, HandleRelayerChannelPair,
       HandleRelayerStatistic, UpdateRelayerUpdateTime, UpdateIbcChannelRelayerInfo
  <2> QED
    BY <1>1, <2>1
<1> QED
  BY <1>2, <1>3

LEMMA ListsGrow ==
  ASSUME TypeOK, ListsOK, UNCHANGED relayer,
         \A x \in Address : newest[x] \in Nat /\ newest'[x] \in Nat /\ newest[x] <= newest'[x]
  PROVE  ListsOK'
<1> SUFFICES ASSUME NEW r \in Known(relayer)
             PROVE  \/ relayer[r].time = 0
                    \/ \E x \in Addresses(relayer[r].pairs) : relayer[r].time <= newest'[x]
  BY DEF ListsOK, Reached
<1>1. relayer[r] \in Relayer /\ Addresses(relayer[r].pairs) \subseteq Address /\ relayer[r].time \in Nat
  <2>1. relayer \in Docs
    BY DEF TypeOK, Docs
  <2>2. relayer[r] \in Relayer /\ relayer[r].pairs \in SUBSET Pair(Channel)
    BY <2>1, KnownTyped
  <2> QED
    BY <2>2, AddressesOf, Sorts DEF Relayer
<1>2. CASE relayer[r].time = 0
  BY <1>2
<1>3. ASSUME NEW x \in Addresses(relayer[r].pairs), relayer[r].time <= newest[x]
      PROVE  relayer[r].time <= newest'[x]
  BY <1>1, <1>3
<1> QED
  BY <1>2, <1>3 DEF ListsOK, Reached

LEMMA NextTimes ==
  ASSUME Typed, focus = "times", RestInv, ListsOK, ChannelsOK, [Next]_vars, "stale" \notin trouble'
  PROVE  ListsOK' /\ ChannelsOK'
<1>1. Moves
  BY RestMoves
<1>2. TypeOK /\ WorkOK /\ relayer \in Docs /\ page \in Docs
  BY DEF Typed, TypeOK, Docs
<1>3. \A x \in Address : newest[x] \in Nat /\ newest'[x] \in Nat /\ newest[x] <= newest'[x]
  BY <1>1, <1>2, NewestGrows
<1>4. UNCHANGED relayer => ListsOK'
  BY <1>2, <1>3, ListsGrow
<1>5. ASSUME UNCHANGED relayer, UNCHANGED channelTime, missed \subseteq missed',
             stage # "check", stage' # "check"
      PROVE  ListsOK' /\ ChannelsOK'
  <2>1. \A c \in ChannelId : Shown(c)
    BY <1>5 DEF ChannelsOK
  <2>2. \A c \in ChannelId : Shown(c)'
    BY <1>5, <2>1 DEF Shown, On, Several, Times
  <2> QED
    BY <1>4, <1>5, <2>2 DEF ChannelsOK
<1>6. CASE UNCHANGED vars \/ (\E u \in Use : RelayPacket(u)) \/ (\E x \in Address : UpdateClient(x)) \/ Tick
  <2>1. /\ UNCHANGED relayer /\ UNCHANGED channelTime /\ UNCHANGED missed /\ UNCHANGED stage
        /\ UNCHANGED page /\ UNCHANGED step /\ UNCHANGED updateTimes
    BY <1>6 DEF vars, cron, RelayPacket, UpdateClient, Tick
  <2>2. ChannelsOK'
    BY <2>1 DEF ChannelsOK, PageIs, Refreshed, Shown, On, Several, Past, Times
  <2> QED
    BY <1>4, <2>1, <2>2
<1>7. CASE Start \/ RepairEmptyPubKey \/ FindToBeGathered
  <2>1. /\ UNCHANGED relayer /\ UNCHANGED channelTime /\ UNCHANGED missed
        /\ stage # "check" /\ stage' # "check"
    BY <1>7 DEF Start, RepairEmptyPubKey, FindToBeGathered, Put
  <2> QED
    BY <1>5, <2>1
<1>8. CASE \E c \in Chain : Statistics(c) \/ UpdateIbcChainsRelayer(c)
  <2>1. /\ UNCHANGED relayer /\ UNCHANGED channelTime /\ UNCHANGED missed
        /\ stage # "check" /\ stage' # "check"
    BY <1>8 DEF Statistics, UpdateIbcChainsRelayer, RunIncrement, Put
  <2> QED
    BY <1>5, <2>1
<1>9. CASE FindAll
  <2>1. UNCHANGED relayer /\ UNCHANGED channelTime /\ UNCHANGED missed /\ stage # "check"
    BY <1>9 DEF FindAll
  <2>2. CASE stage' = "chains"
    BY <1>5, <2>1, <2>2
  <2>3. CASE /\ stage' = "check" /\ page' = relayer
             /\ step' = [r \in Id |-> IF page'[r] = NoRelayer THEN "done" ELSE "pairs"]
    <3>1. \A r \in Known(relayer) : step'[r] = "pairs"
      BY <2>3 DEF Known
    <3>2. PageIs'
      BY <2>1, <2>3, <3>1 DEF PageIs
    <3>3. \A c \in ChannelId : Past(c)' = {}
      BY <2>1, <3>1 DEF Past, On
    <3> QED
      BY <1>4, <2>1, <2>3, <3>2, <3>3 DEF ChannelsOK, Refreshed
  <2> QED
    BY <1>9, <2>2, <2>3, FindAllDoes
<1>10. CASE CheckDone
  <2>1. /\ UNCHANGED relayer /\ UNCHANGED channelTime /\ UNCHANGED missed
        /\ stage = "check" /\ stage' = "chains" /\ \A r \in Id : step[r] = "done"
    BY <1>10 DEF CheckDone
  <2>2. ASSUME NEW c \in ChannelId
        PROVE  Shown(c)
    <3>1. Past(c) = On(c) /\ ~ \E r \in Past(c) : step[r] = "channels"
      BY <2>1 DEF Past, On, Known
    <3> QED
      BY <2>1, <3>1 DEF ChannelsOK, Refreshed, Shown
  <2>3. \A c \in ChannelId : Shown(c)'
    BY <2>1, <2>2 DEF Shown, On, Several, Times
  <2> QED
    BY <1>4, <2>1, <2>3 DEF ChannelsOK
<1>11. CASE Crash
  <2>1. /\ UNCHANGED relayer /\ UNCHANGED channelTime /\ missed' = missed \cup Known(page)
        /\ stage' = "idle"
    BY <1>11 DEF Crash
  <2>2. CASE stage = "check"
    <3>1. Known(page) = Known(relayer)
      BY <2>2 DEF ChannelsOK, PageIs
    <3>2. \A c \in ChannelId : Shown(c)'
      BY <2>1, <3>1 DEF Shown, On
    <3> QED
      BY <1>4, <2>1, <3>2 DEF ChannelsOK
  <2> QED
    BY <1>5, <2>1, <2>2
<1>12. ASSUME NEW r \in Id, HandleRelayerChannelPair(r)
       PROVE  ListsOK' /\ ChannelsOK'
  <2>1. stage = "check" /\ PageIs
    BY <1>12 DEF HandleRelayerChannelPair, At, ChannelsOK
  <2>2. /\ UNCHANGED relayer /\ step[r] = "pairs" /\ step' = [step EXCEPT ![r] = "time"]
        /\ Known(page') = Known(page)
        /\ \A q \in Known(page) : page'[q].pairs = page[q].pairs /\ page'[q].time = page[q].time
    BY <1>12, <2>1, PairsRest
  <2>3. /\ UNCHANGED channelTime /\ UNCHANGED missed /\ UNCHANGED updateTimes /\ UNCHANGED stage
    BY <1>12 DEF HandleRelayerChannelPair
  <2>4. step'[r] = "time" /\ \A q \in Id \ {r} : step'[q] = step[q]
    BY <1>2, <2>2 DEF TypeOK
  <2>5. Known(relayer) \subseteq Id
    BY DEF Known
  <2>6. PageIs'
    BY <2>1, <2>2, <2>4, <2>5 DEF PageIs
  <2>7. ASSUME NEW c \in ChannelId
        PROVE  Refreshed(c)'
    <3>1. Past(c)' = Past(c) /\ \A q \in Past(c) : step'[q] = step[q]
      BY <2>2, <2>4, <2>5 DEF Past, On
    <3>2. Several(c)' = Several(c) /\ Times(Past(c))' = Times(Past(c))
      BY <2>2, <3>1 DEF Several, On, Times
    <3>3. Refreshed(c)
      BY <2>1 DEF ChannelsOK
    <3> QED
      BY <2>3, <3>1, <3>2, <3>3 DEF Refreshed
  <2> QED
    BY <1>4, <2>1, <2>2, <2>3, <2>6, <2>7 DEF ChannelsOK
<1>13. ASSUME NEW r \in Id, HandleRelayerStatistic(r)
       PROVE  FALSE
  <2>1. stage = "check" /\ step[r] = "figures" /\ r \in Known(page)
    BY <1>2, <1>13 DEF HandleRelayerStatistic, At, WorkOK, Known
  <2> QED
    BY <2>1 DEF ChannelsOK, PageIs
<1>14. ASSUME NEW r \in Id, UpdateIbcChannelRelayerInfo(r)
       PROVE  ListsOK' /\ ChannelsOK'
  <2>1. /\ stage = "check" /\ PageIs /\ step[r] = "channels"
        /\ UNCHANGED relayer /\ UNCHANGED missed /\ UNCHANGED updateTimes /\ UNCHANGED stage
        /\ UNCHANGED page /\ step' = [step EXCEPT ![r] = "done"]
        /\ channelTime' = UpdateOneUpdateTime({c \in ChannelsOf(page[r].pairs) : updateTimes[c] > 0})
    BY <1>14 DEF UpdateIbcChannelRelayerInfo, At, Goto, ChannelsOK
  <2>2. step'[r] = "done" /\ \A q \in Id \ {r} : step'[q] = step[q]
    BY <1>2, <2>1 DEF TypeOK
  <2>3. r \in Known(relayer) /\ Known(relayer) \subseteq Id /\ page[r].pairs = relayer[r].pairs
    <3>1. r \in Known(page)
      BY <1>2, <2>1 DEF WorkOK, Known
    <3> QED
      BY <2>1, <3>1 DEF PageIs, Known
  <2>4. PageIs'
    BY <2>1, <2>2, <2>3 DEF PageIs
  <2>5. ASSUME NEW c \in ChannelId
        PROVE  Refreshed(c)'
    <3>1. Past(c)' = Past(c) /\ Times(Past(c))' = Times(Past(c)) /\ Several(c)' = Several(c)
      BY <2>1, <2>2, <2>3 DEF Past, On, Times, Several
    <3>2. Refreshed(c)
      BY <2>1 DEF ChannelsOK
    <3>3. CASE c \in ChannelsOf(relayer[r].pairs)
      <4>1. updateTimes[c] > 0 => channelTime'[c] = updateTimes[c]
        BY <2>1, <2>3, <3>3 DEF UpdateOneUpdateTime
      <4> QED
        BY <2>1, <3>1, <3>2, <4>1 DEF Refreshed
    <3>4. CASE c \notin ChannelsOf(relayer[r].pairs)
      <4>1. channelTime'[c] = channelTime[c]
        BY <2>1, <2>3, <3>4 DEF UpdateOneUpdateTime
      <4>2. \A q \in Past(c) : q # r /\ step'[q] = step[q]
        BY <2>2, <2>3, <3>4 DEF Past, On
      <4> QED
        BY <2>1, <3>1, <3>2, <4>1, <4>2 DEF Refreshed
    <3> QED
      BY <3>3, <3>4
  <2> QED
    BY <1>4, <2>1, <2>4, <2>5 DEF ChannelsOK
<1>15. ASSUME NEW r \in Id, UpdateRelayerUpdateTime(r)
       PROVE  ListsOK' /\ ChannelsOK'
  <2>1. /\ KeepsLists /\ UNCHANGED stage /\ UNCHANGED page /\ stage = "check" /\ step[r] = "time"
        /\ step' = [step EXCEPT ![r] = "channels"]
    BY <1>15, UpdateRelayerUpdateTimeDoes
  <2>2. PageIs /\ UNCHANGED channelTime /\ UNCHANGED newest
    BY <1>15, <2>1 DEF ChannelsOK, UpdateRelayerUpdateTime, chains
  <2>3. /\ r \in Known(relayer)
        /\ relayer'[r].time = 0 \/ \E x \in Addresses(relayer[r].pairs) : relayer'[r].time <= newest[x]
        /\ \A q \in Id \ {r} : relayer'[q] = relayer[q] /\ (q \in missed' <=> q \in missed)
        /\ \A c \in ChannelId :
             IF c \notin ChannelsOf(relayer[r].pairs) THEN updateTimes'[c] = updateTimes[c]
             ELSE \/ r \in missed' \/ Cardinality(relayer[r].pairs) > 1
                  \/ updateTimes'[c] > 0 /\ updateTimes'[c] = relayer'[r].time
    BY <1>15, <2>2, TimesWritten
  <2>4. Known(relayer') = Known(relayer) /\ \A q \in Known(relayer) : relayer'[q].pairs = relayer[q].pairs
    BY <2>1 DEF KeepsLists
  <2>5. Known(relayer) \subseteq Id /\ step'[r] = "channels" /\ \A q \in Id \ {r} : step'[q] = step[q]
    BY <1>2, <2>1 DEF TypeOK, Known
  <2>6. ListsOK'
    BY <2>2, <2>3, <2>4, <2>5 DEF ListsOK, Reached
  <2>7. PageIs'
    BY <2>1, <2>2, <2>3, <2>4, <2>5 DEF PageIs
  <2>8. ASSUME NEW c \in ChannelId
        PROVE  Refreshed(c)'
    <3>1. On(c)' = On(c) /\ Several(c)' = Several(c)
      BY <2>4 DEF On, Several
    <3>2. Refreshed(c)
      BY <2>1 DEF ChannelsOK
    <3>3. CASE r \in On(c)
      <4>1. r \in Past(c)' /\ r \notin Past(c) /\ Past(c)' = Past(c) \cup {r}
        BY <2>1, <2>5, <3>1, <3>3 DEF Past, On
      <4>2. r \in missed' \/ Several(c) \/ (updateTimes'[c] > 0 /\ updateTimes'[c] = relayer'[r].time)
        BY <2>3, <3>3 DEF On, Several
      <4>3. relayer'[r].time \in Times(Past(c))'
        BY <4>1 DEF Times
      <4> QED
        BY <2>5, <3>1, <4>1, <4>2, <4>3 DEF Refreshed
    <3>4. CASE r \notin On(c)
      <4>1. updateTimes'[c] = updateTimes[c]
        BY <2>3, <3>4 DEF On
      <4>2. \A q \in On(c) : q # r /\ q \in Id /\ step'[q] = step[q] /\ relayer'[q] = relayer[q]
        BY <2>3, <2>5, <3>4 DEF On
      <4>3. Past(c)' = Past(c)
        BY <3>1, <4>2 DEF Past
      <4>4. \A q \in Past(c) : q \in On(c)
        BY DEF Past
      <4>5. Times(Past(c))' = Times(Past(c)) /\ (Past(c) \cap missed # {} => Past(c) \cap missed' # {})
        BY <2>3, <4>2, <4>3, <4>4 DEF Times
      <4>6. (\E q \in Past(c) : step[q] = "channels") => \E q \in Past(c) : step'[q] = "channels"
        BY <4>2, <4>4
      <4> QED
        BY <2>2, <3>1, <3>2, <4>1, <4>3, <4>5, <4>6 DEF Refreshed
    <3> QED
      BY <3>3, <3>4
  <2> QED
    BY <2>1, <2>6, <2>7, <2>8 DEF ChannelsOK
<1> QED
  BY <1>1, <1>6, <1>7, <1>8, <1>9, <1>10, <1>11, <1>12, <1>13, <1>14, <1>15 DEF Moves

LEMMA TroubleStays == [Next]_vars => trouble \subseteq trouble'
<1> SUFFICES ASSUME Next
             PROVE  trouble \subseteq trouble'
  BY DEF vars
<1> USE DEF Works, Fails, Read
<1>1. CASE (\E u \in Use : RelayPacket(u)) \/ (\E x \in Address : UpdateClient(x)) \/ Tick
  BY <1>1 DEF RelayPacket, UpdateClient, Tick
<1>2. CASE Start \/ RepairEmptyPubKey \/ FindToBeGathered \/ FindAll \/ CheckDone \/ Crash
  BY <1>2 DEF Start, RepairEmptyPubKey, FindToBeGathered, FindAll, CheckDone, Crash
<1>3. CASE \E c \in Chain : Statistics(c) \/ UpdateIbcChainsRelayer(c)
  BY <1>3 DEF Statistics, UpdateIbcChainsRelayer
<1>4. CASE AddRelayerChannelPair \/ AddRelayer \/ UpdateGatherStatus \/ \E x \in Address : Gather(x)
  BY <1>4 DEF AddRelayerChannelPair, AddRelayer, UpdateGatherStatus, Gather
<1>5. CASE \E r \in Id : HandleRelayerChannelPair(r) \/ HandleRelayerStatistic(r)
  BY <1>5 DEF HandleRelayerChannelPair, HandleRelayerStatistic
<1>6. CASE \E r \in Id : UpdateRelayerUpdateTime(r) \/ UpdateIbcChannelRelayerInfo(r)
  BY <1>6 DEF UpdateRelayerUpdateTime, UpdateIbcChannelRelayerInfo
<1>7. CASE (\E file \in files : CollectStart(file)) \/ (\E d \in collect.left : CollectFind(d))
  BY <1>7 DEF CollectStart, CollectFind
<1>8. CASE CollectRemove \/ CollectWrite \/ CollectFails \/ InitRead \/ InitInsert
  BY <1>8 DEF CollectRemove, CollectWrite, CollectFails, InitRead, InitInsert
<1> QED
  BY <1>1, <1>2, <1>3, <1>4, <1>5, <1>6, <1>7, <1>8 DEF Next, CronStep

LEMMA InitTimes == Init => TimesInv
<1> SUFFICES ASSUME Init, focus = "times"
             PROVE  RestInv /\ ListsOK /\ ChannelsOK
  BY DEF TimesInv
<1>1. PICK c \in Cases : /\ c.focus = "times" /\ uses = c.uses /\ relayer = c.relayer
                         /\ address = c.address /\ files = c.files /\ inits = c.inits
  BY DEF Init
<1>2. AtRest(c)
  BY <1>1, TimesAssumption
<1>3. RestInv
  BY <1>1, <1>2 DEF AtRest, RestInv, Init, NoCollect
<1>4. ListsOK
  BY <1>1, <1>2 DEF AtRest, ListsOK, Reached
<1>5. ChannelsOK
  BY DEF Init, NoTimes, ChannelsOK, Shown
<1> QED
  BY <1>3, <1>4, <1>5

LEMMA NextTimesInv == Typed /\ TimesInv /\ [Next]_vars => TimesInv'
<1> SUFFICES ASSUME Typed, TimesInv, [Next]_vars, focus' = "times", "stale" \notin trouble'
             PROVE  RestInv' /\ ListsOK' /\ ChannelsOK'
  BY DEF TimesInv
<1>1. focus = "times" /\ "stale" \notin trouble
  BY FocusStays, TroubleStays
<1> QED
  BY <1>1, NextRest, NextTimes DEF TimesInv

\* Between runs, the time shown for a channel is the time of a relayer on it
\* (CheckAndChangeRelayer: the map that its workers share, the relayers' times and
\* the channels'), whatever fails but for a stale read.
THEOREM ChannelTimeThm == Spec => []ChannelTimeOfARelayer
<1>1. TimesInv => ChannelTimeOfARelayer
  <2> SUFFICES ASSUME TimesInv, focus = "times", stage # "check", "stale" \notin trouble,
                      NEW c \in ChannelId
               PROVE  Shown(c)
    BY DEF ChannelTimeOfARelayer, Shown, On, Several, Times
  <2> QED
    BY DEF TimesInv, ChannelsOK
<1> QED
  BY <1>1, InitTimes, InitTyped, NextTyped, NextTimesInv, PTL DEF Spec

=============================================================================

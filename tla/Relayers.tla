------------------------------ MODULE Relayers ------------------------------
(***************************************************************************)
(* Who relays: ibc_relayer groups the addresses that sign relayed packets  *)
(* into relayers.                                                          *)
(*   ibc_relayer_task, run again and again under its lock, looks at the    *)
(*     transactions of every chain, notes new addresses, asks nodes for    *)
(*     their public keys, puts every address into the relayer that has     *)
(*     another address of the same key, matches the pairs of all relayers  *)
(*     and refreshes their figures and the chains' numbers of relayers;    *)
(*   Collect (REST) takes over a team's list from the public registry: it  *)
(*     removes nameless relayers with those addresses and lists their      *)
(*     pairs under the team's name;                                        *)
(*   relayer_address_init_task (manual) notes the addresses of a database  *)
(*     that has none.                                                      *)
(* None of them excludes the others.  A unique index on the pairs' ids     *)
(* keeps a pair in one relayer.                                            *)
(***************************************************************************)
EXTENDS RelayerPairs, FiniteSetsExt

CONSTANTS Chain,
          KeyOf,      \* the public key of an address
          Use,        \* which channels addresses will be seen to use
          MaxId,      \* bound: relayers
          MaxTime,    \* bound: time
          Lookback,   \* 21 days
          NoRelayer,  \* a null value
          Cases       \* what to look at together; first states, and bounds:
                      \* registry lists to collect, manual runs, and faults

Id == 1 .. MaxId
Channel == {u.channel : u \in Use} \cup {u.other : u \in Use}
Time == 0 .. MaxTime
Cron == {"idle", "statistics", "repair", "todo", "gather", "pairs", "status",
         "check", "chains"}
Fault == {"stale", "lookup", "insert", "status", "crash", "other"}
\* GatherStatusTODO, GatherStatusPubKey and GatherStatusRegistry
GatherStatus == {"todo", "pubkey", "registry"}

NoAddressDoc == [status |-> "none", key |-> FALSE]
AddressDoc == [status : GatherStatus, key : BOOLEAN] \cup {NoAddressDoc}
Relayer == [named : BOOLEAN, pairs : SUBSET Pair(Channel), served : 0 .. Cardinality(Chain),
            time : Time, txs : Nat, value : Nat]
NewRelayer(named, pairs, served) ==
  [named |-> named, pairs |-> pairs, served |-> served, time |-> 0, txs |-> 0, value |-> 0]

Known(docs) == {r \in Id : docs[r] # NoRelayer}
Nameless(docs) == {r \in Known(docs) : ~docs[r].named}
Listed(docs) == UNION {Addresses(docs[r].pairs) : r \in Known(docs)}
Gathered(doc) == doc.status \in {"pubkey", "registry"}

\* No two relayers without a name list addresses of one key.
OneRelayerPerKey(docs) ==
  \A r, q \in Nameless(docs) :
    \A x \in Addresses(docs[r].pairs), y \in Addresses(docs[q].pairs) :
      KeyOf[x] = KeyOf[y] => r = q

ASSUME RelayersAssumption ==
  /\ ChainOf \in [Address -> Chain]
  /\ Use \subseteq Usage(Channel) /\ IsFiniteSet(Use) /\ NoChannel \notin Channel
  /\ IsFiniteSet(Address) /\ IsFiniteSet(Chain) /\ MaxId \in Nat /\ MaxTime \in Nat \ {0} /\ Lookback \in Nat
  /\ NoRelayer \notin Relayer
  /\ Cases \subseteq
       [focus : {"lists", "times", "figures"}, relayed : SUBSET Use, uses : SUBSET Use,
        relayer : [Id -> Relayer \cup {NoRelayer}], address : [Address -> AddressDoc],
        files : SUBSET SUBSET (Address \X Address), inits : Nat, faults : Nat]
  \* What earlier runs leave when nothing went wrong: what counts as gathered is
  \* listed, and relayers without a name come from gathering.
  /\ \A c \in Cases :
       /\ \A x \in Address : Gathered(c.address[x]) => x \in Listed(c.relayer)
       /\ \A r \in Nameless(c.relayer) : \A x \in Addresses(c.relayer[r].pairs) :
            c.address[x].key /\ Gathered(c.address[x])
       /\ OneRelayerPerKey(c.relayer)

\* Times are looked at when lists are at rest: what addresses use was seen, they
\* were gathered and matched, no list of the registry is to come, and nobody has
\* updated a client.
AtRest(c) ==
  /\ c.uses = Use /\ c.files = {} /\ c.inits = 0
  /\ \A u \in Use : c.address[u.addr] # NoAddressDoc
  /\ \A x \in Address : c.address[x].status # "todo"
  /\ \A r \in Known(c.relayer) :
       LET pairs == c.relayer[r].pairs
       IN  /\ MatchRelayerChannelPairInfo(SingleSideAddressMatchPair(pairs, Use), Use) = pairs
           /\ \A p \in pairs : Single(p) => p.chB = NoChannel
           /\ c.relayer[r].time = 0

ASSUME TimesAssumption == \A c \in Cases : c.focus = "times" => AtRest(c)

VARIABLES
  focus,      \* "lists", or what is refreshed: "times", "figures"
  \* the chains
  relayed,    \* the uses of channels that have happened
  newest,     \* when an address last updated its client
  now,
  \* the collections
  uses,       \* ibc_relayer_address_channel
  address,    \* ibc_relayer_address
  relayer,    \* ibc_relayer
  stat,       \* ibc_relayer_denom_statistics: packets of an address
  chainRelayers, \* relayers of ibc_chain
  channelTime,   \* channel_update_at of ibc_channel
  before,     \* relayer and address before the last write, what a slow secondary answers
  \* ibc_relayer_task
  stage,      \* where it stands
  queue,      \* the chains or addresses left
  cur,        \* the address in hand and the list it goes to
  page,       \* the relayers it has read
  step,       \* what is next for each of them
  updateTimes,   \* channelUpdateTimeMap
  \* the others
  collect,    \* a run of Collect
  files,      \* registry lists still to come
  init,       \* what the manual task is about to insert
  inits,      \* manual runs still to come
  \* histories
  taken,      \* addresses that fell out when their relayer was taken over, or
              \* overwritten by a list that had been read before
  missed,     \* relayers of which an end's update time was not found
  trouble,    \* the kinds of faults so far
  faults      \* faults still to come

chains == <<relayed, newest, now>>
cron == <<stage, queue, cur, page, step, updateTimes>>
others == <<collect, files, init, inits>>
vars == <<focus, chains, uses, address, relayer, stat, chainRelayers, channelTime, before,
          cron, others, taken, missed, trouble, faults>>

NoCur == [addr |-> NoAddress, id |-> 0, read |-> {}, pairs |-> {}, status |-> "todo"]
NoPage == [r \in Id |-> NoRelayer]
NoCollect == [at |-> "idle", file |-> {}, id |-> 0, pairs |-> {}, got |-> {}, left |-> {}, found |-> {}]
ChannelId == Channel \X Channel
NoTimes == [c \in ChannelId |-> 0]
Nothing == [relayer |-> NoPage, address |-> [x \in Address |-> NoAddressDoc]]

\* Lists hold pairs of known addresses on known channels, and what the tasks have
\* in hand is of the shape they read.
TypeOK ==
  /\ focus \in {"lists", "times", "figures"}
  /\ relayed \in SUBSET Use /\ uses \in SUBSET Use
  /\ newest \in [Address -> Time] /\ now \in Time
  /\ address \in [Address -> AddressDoc]
  /\ relayer \in [Id -> Relayer \cup {NoRelayer}]
  /\ stat \in [Address -> Nat]
  /\ chainRelayers \in [Chain -> Nat]
  /\ channelTime \in [ChannelId -> Time]
  /\ before \in [relayer : [Id -> Relayer \cup {NoRelayer}], address : [Address -> AddressDoc]]
  /\ stage \in Cron
  /\ queue \in SUBSET (Address \cup Chain)
  /\ cur \in [addr : Address \cup {NoAddress}, id : Id \cup {0}, read : SUBSET Pair(Channel),
              pairs : SUBSET Pair(Channel), status : GatherStatus]
  /\ page \in [Id -> Relayer \cup {NoRelayer}]
  /\ step \in [Id -> {"pairs", "figures", "time", "channels", "done"}]
  /\ updateTimes \in [ChannelId -> Time]
  /\ collect \in [at : {"idle", "find", "remove"}, file : SUBSET (Address \X Address),
                  id : Id \cup {0}, pairs : SUBSET Pair(Channel), got : SUBSET Pair(Channel),
                  left : SUBSET (Address \X Address), found : SUBSET Id]
  /\ files \in SUBSET SUBSET (Address \X Address)
  /\ init \in [Address -> AddressDoc] /\ inits \in Nat
  /\ taken \in SUBSET Address /\ missed \in SUBSET Id
  /\ trouble \in SUBSET Fault /\ faults \in Nat

Init ==
  /\ \E c \in Cases : /\ focus = c.focus /\ relayed = c.relayed /\ uses = c.uses
                      /\ relayer = c.relayer /\ address = c.address
                      /\ files = c.files /\ inits = c.inits /\ faults = c.faults
  /\ newest = [x \in Address |-> 0] /\ now = 1
  /\ stat = [x \in Address |-> 0]
  /\ chainRelayers = [c \in Chain |-> 0]
  /\ channelTime = NoTimes
  /\ before = Nothing
  /\ stage = "idle" /\ queue = {} /\ cur = NoCur
  /\ page = NoPage /\ step = [r \in Id |-> "done"] /\ updateTimes = NoTimes
  /\ collect = NoCollect
  /\ init = [x \in Address |-> NoAddressDoc]
  /\ taken = {} /\ missed = {} /\ trouble = {}

-----------------------------------------------------------------------------
\* Failures, reads that a secondary may answer, and writes.

Works == UNCHANGED <<trouble, faults>>
Fails(kind) ==
  /\ faults > 0
  /\ faults' = faults - 1
  /\ trouble' = trouble \cup {kind}

Primary == [relayer |-> relayer, address |-> address]
Read(view) ==
  \/ view = Primary /\ Works
  \/ view = before /\ before \notin {Primary, Nothing} /\ Fails("stale")

\* What was there before matters while a stale read may come.
Put(docs, addresses) ==
  /\ relayer' = docs /\ address' = addresses
  /\ before' = IF faults' = 0 THEN Nothing
               ELSE IF Primary = [relayer |-> docs, address |-> addresses] THEN before
               ELSE Primary

\* The index on channel_pair_info.pair_id.
Unique(r, pairs) == \A q \in Known(relayer) \ {r} : relayer[q].pairs \cap pairs = {}
CanUpdate(r, pairs) == relayer[r] # NoRelayer /\ Unique(r, pairs)

\* Mutant: the chains are counted once for every pair.
UpdateChannelPairInfoTwice(r, pairs) ==
  IF pairs = {} THEN relayer
    ELSE [relayer EXCEPT ![r].pairs = pairs,
                         ![r].served = MapThenSumSet(LAMBDA p : Cardinality(GetChains({p})), pairs)]

\* Mutant: only the pairs that are new are written.
UpdateChannelPairInfoNew(r, pairs) ==
  IF pairs = {} THEN relayer
    ELSE [relayer EXCEPT ![r].pairs = pairs \ @, ![r].served = Cardinality(GetChains(pairs))]

UpdateChannelPairInfo(r, pairs) ==
  IF pairs = {} THEN relayer
    ELSE [relayer EXCEPT ![r].pairs = pairs, ![r].served = Cardinality(GetChains(pairs))]

\* A new ObjectID is none that is, or was, in somebody's hands.
FreshIds == Id \ (Known(relayer) \cup Known(page) \cup Known(before.relayer)
                    \cup collect.found \cup {collect.id, cur.id})
InsertOne(doc) == [relayer EXCEPT ![Min(FreshIds)] = doc]

FallenOut == taken' = taken \cup (Listed(relayer) \ Listed(relayer'))

\* What else is found in the collections, and written to them.
RemoveDumpData(ids) == [r \in Id |-> IF r \in ids THEN NoRelayer ELSE relayer[r]]
\* A number that would become 0 is left alone, a value not.
UpdateTxsInfo(r, txs) ==
  IF relayer[r] = NoRelayer THEN relayer
  ELSE [relayer EXCEPT ![r].txs = IF txs > 0 THEN txs ELSE @, ![r].value = txs]
FindNoPubKey == {x \in Address : address[x] # NoAddressDoc /\ ~address[x].key}
UpdatePubKey(got) ==
  [x \in Address |-> IF x \in got THEN [address[x] EXCEPT !.key = TRUE] ELSE address[x]]
ToBeGathered(docs) == {x \in Address : docs[x] = [status |-> "todo", key |-> TRUE]}
FindByPubKey(docs, key) == {x \in Address : docs[x].key /\ KeyOf[x] = key}
WithGatherStatus(x, status) == [address EXCEPT ![x].status = status]
\* An address that is there stays as it is.
InsertMany(docs) == [x \in Address |-> IF address[x] = NoAddressDoc THEN docs[x] ELSE address[x]]
FindByAddressChain(x) == {u \in uses : u.addr = x}
DistinctAddr == {u.addr : u \in uses}
AggrRelayerBaseDenomAmtAndTxs(combs) == MapThenSumSet(LAMBDA y : stat[y], combs)

-----------------------------------------------------------------------------
\* The chains.

\* An address signs a relayed packet on a channel.
RelayPacket(u) ==
  /\ u \in Use \ relayed
  /\ relayed' = relayed \cup {u}
  /\ UNCHANGED <<focus, newest, now, uses, address, relayer, stat, chainRelayers, channelTime,
                 before, cron, others, taken, missed, trouble, faults>>

UpdateClient(x) ==
  /\ focus = "times" /\ newest[x] < now
  /\ newest' = [newest EXCEPT ![x] = now]
  /\ UNCHANGED <<focus, relayed, now, uses, address, relayer, stat, chainRelayers, channelTime,
                 before, cron, others, taken, missed, trouble, faults>>

Tick ==
  /\ focus = "times" /\ now < MaxTime
  /\ now' = now + 1
  /\ UNCHANGED <<focus, relayed, newest, uses, address, relayer, stat, chainRelayers,
                 channelTime, before, cron, others, taken, missed, trouble, faults>>

-----------------------------------------------------------------------------
\* IbcRelayerCronTask: the statistics of today, chain by chain.

Start ==
  /\ stage = "idle"
  /\ stage' = "statistics" /\ queue' = Chain /\ updateTimes' = NoTimes
  /\ UNCHANGED <<focus, chains, uses, address, relayer, stat, chainRelayers, channelTime, before,
                 cur, page, step, others, taken, missed, trouble, faults>>

\* The segment of today is counted anew and swapped, and what it shows of
\* addresses and channels is noted unless it is known.  Each of the three
\* writes may fail, and is not missed.
RelayerDenomStatistics(c) ==
  [x \in {y \in Address : ChainOf[y] = c} |-> Cardinality({u \in relayed : u.addr = x})]
BatchSwap(batch) ==
  IF focus # "figures" THEN stat
    ELSE [x \in Address |-> IF x \in DOMAIN batch THEN batch[x] ELSE stat[x]]
SaveDenomStat(c) == BatchSwap(RelayerDenomStatistics(c))
AddrChannels(c) == {u \in relayed : ChainOf[u.addr] = c}
SaveAddrChannel(seen) == uses \cup seen
SaveRelayerAddr(seen) ==
  InsertMany([x \in Address |-> IF \E u \in seen : u.addr = x THEN [status |-> "todo", key |-> FALSE]
                                ELSE NoAddressDoc])

\* One chain after the other
RunIncrement(c) ==
  /\ queue' = queue \ {c}
  /\ stage' = IF queue' = {} THEN "repair" ELSE stage

Statistics(c) ==
  /\ stage = "statistics" /\ c \in queue
  /\ \E lost \in {{}, {"stat"}, {"channels"}, {"addresses"}, {"stat", "channels", "addresses"}} :
       /\ IF lost = {} THEN Works ELSE Fails("other")
       /\ stat' = IF "stat" \in lost THEN stat ELSE SaveDenomStat(c)
       /\ uses' = IF "channels" \in lost THEN uses ELSE SaveAddrChannel(AddrChannels(c))
       /\ Put(relayer, IF "addresses" \in lost THEN address ELSE SaveRelayerAddr(AddrChannels(c)))
  /\ RunIncrement(c)
  /\ UNCHANGED <<focus, chains, chainRelayers, channelTime, cur, page, step, updateTimes, others,
                 taken, missed>>

\* RelayerAddressGatherTask.  Nodes give the public keys of some addresses;
RepairEmptyPubKey ==
  /\ stage = "repair" /\ Works
  /\ \E got \in SUBSET FindNoPubKey : Put(relayer, UpdatePubKey(got))
  /\ stage' = "todo"
  /\ UNCHANGED <<focus, chains, uses, stat, chainRelayers, channelTime, queue, cur, page, step,
                 updateTimes, others, taken, missed>>

\* those with a key are gathered, one by one.
FindToBeGathered ==
  /\ stage = "todo"
  /\ \E view \in {Primary, before} :
       /\ Read(view)
       /\ queue' = ToBeGathered(view.address)
  /\ stage' = "gather"
  /\ UNCHANGED <<focus, chains, uses, address, relayer, stat, chainRelayers, channelTime, before,
                 cur, page, step, updateTimes, others, taken, missed>>

\* FindByChannelPairChainA, then FindByChannelPairChainB: any that match.
FindByChannelPair(docs, x) ==
  LET onSideA == {r \in Known(docs) : \E p \in docs[r].pairs : p.a = x}
      onSideB == {r \in Known(docs) : \E p \in docs[r].pairs : p.b = x}
  IN  IF onSideA # {} THEN onSideA ELSE onSideB

\* Mutant: whatever the status, the addresses still to be gathered.
OwnersToGather(view, x, status) ==
  UNION {FindByChannelPair(view.relayer, y) :
           y \in (ToBeGathered(view.address) \cap FindByPubKey(view.address, KeyOf[x])) \ {x}}

\* The relayers of the addresses that have the same key and that status.
Owners(view, x, status) ==
  UNION {FindByChannelPair(view.relayer, y) :
           y \in {z \in FindByPubKey(view.address, KeyOf[x]) \ {x} : view.address[z].status = status}}
NewPairs(x) == {GenerateSingleSideChannelPairInfo(u) : u \in FindByAddressChain(x)}

Done(x) == stage' = "gather" /\ queue' = queue \ {x} /\ cur' = NoCur

\* gather: a registered relayer first, else an unknown one, else a new one.  A
\* look-up that fails counts as one that finds nothing.
Gather(x) ==
  /\ stage = "gather" /\ x \in queue
  /\ \E view \in {Primary, before}, failing \in BOOLEAN :
       /\ IF failing THEN view = Primary /\ Fails("lookup") ELSE Read(view)
       /\ LET registered == IF failing THEN {} ELSE Owners(view, x, "registry")
              unknown == IF failing THEN {} ELSE Owners(view, x, "pubkey")
              To(r, status) == [addr |-> x, id |-> r, read |-> view.relayer[r].pairs,
                                pairs |-> view.relayer[r].pairs \cup NewPairs(x), status |-> status]
          IN  IF NewPairs(x) = {} THEN Done(x)
                ELSE /\ \/ \E r \in registered : cur' = To(r, "registry")
                        \/ registered = {} /\ \E r \in unknown : cur' = To(r, "pubkey")
                        \/ /\ registered \cup unknown = {}
                           /\ cur' = [addr |-> x, id |-> 0, read |-> {}, pairs |-> NewPairs(x),
                                      status |-> "pubkey"]
                     /\ stage' = "pairs" /\ UNCHANGED queue
  /\ UNCHANGED <<focus, chains, uses, address, relayer, stat, chainRelayers, channelTime, before,
                 page, step, updateTimes, others, taken, missed>>

\* addRelayerChannelPair: an address stays to be gathered if this fails.
AddRelayerChannelPair ==
  /\ stage = "pairs" /\ cur.id # 0
  /\ \/ /\ CanUpdate(cur.id, cur.pairs) /\ Works
        /\ Put(UpdateChannelPairInfo(cur.id, cur.pairs), address)
        /\ IF relayer[cur.id].pairs # cur.read THEN FallenOut ELSE UNCHANGED taken
        /\ stage' = "status" /\ UNCHANGED <<queue, cur>>
     \/ /\ IF CanUpdate(cur.id, cur.pairs) THEN Fails("other") ELSE Works
        /\ Done(cur.addr)
        /\ UNCHANGED <<address, relayer, before, taken>>
  /\ UNCHANGED <<focus, chains, uses, stat, chainRelayers, channelTime, page, step, updateTimes,
                 others, missed>>

\* addRelayer: whether it was inserted or not, the address counts as gathered.
AddRelayer ==
  /\ stage = "pairs" /\ cur.id = 0
  /\ \/ /\ Unique(0, cur.pairs) /\ FreshIds # {} /\ Works
        /\ Put(InsertOne(NewRelayer(FALSE, cur.pairs, 1)), address)
     \/ /\ IF Unique(0, cur.pairs) THEN Fails("insert") ELSE Works
        /\ UNCHANGED <<address, relayer, before>>
  /\ stage' = "status"
  /\ UNCHANGED <<focus, chains, uses, stat, chainRelayers, channelTime, queue, cur, page, step,
                 updateTimes, others, taken, missed>>

UpdateGatherStatus ==
  /\ stage = "status"
  /\ \/ /\ Works
        /\ Put(relayer, WithGatherStatus(cur.addr, cur.status))
     \/ /\ Fails("status")
        /\ UNCHANGED <<address, relayer, before>>
  /\ Done(cur.addr)
  /\ UNCHANGED <<focus, chains, uses, stat, chainRelayers, channelTime, page, step, updateTimes,
                 others, taken, missed>>

-----------------------------------------------------------------------------
\* CheckAndChangeRelayer: all relayers are read, and five workers go through
\* them, each relayer in steps of its own.  (There are no more than a page of
\* a thousand, and no more than workers.)

FindAll ==
  /\ stage = "gather" /\ queue = {}
  /\ \/ \E view \in {Primary, before} :
          /\ Read(view)
          /\ page' = view.relayer
          /\ step' = [r \in Id |-> IF view.relayer[r] = NoRelayer THEN "done" ELSE "pairs"]
          /\ stage' = "check" /\ UNCHANGED queue
     \/ Fails("other") /\ stage' = "chains" /\ queue' = Chain /\ UNCHANGED <<page, step>>
  /\ UNCHANGED <<focus, chains, uses, address, relayer, stat, chainRelayers, channelTime, before,
                 cur, updateTimes, others, taken, missed>>

At(r, s) == stage = "check" /\ step[r] = s
Goto(r, s) == step' = [step EXCEPT ![r] = s]

\* The whole list is written, if it has changed, as it was read with the page
\* and matched.
HandleRelayerChannelPair(r) ==
  /\ At(r, "pairs")
  /\ LET old == page[r].pairs
         new == MatchRelayerChannelPairInfo(SingleSideAddressMatchPair(old, uses), uses)
     IN  /\ page' = [page EXCEPT ![r].pairs = new]
         /\ \/ /\ new # old /\ CanUpdate(r, new) /\ Works
               /\ Put(UpdateChannelPairInfo(r, new), address)
               /\ IF relayer[r].pairs # old THEN FallenOut ELSE UNCHANGED taken
            \/ /\ IF new # old /\ CanUpdate(r, new) THEN Fails("other") ELSE Works
               /\ UNCHANGED <<address, relayer, before, taken>>
  /\ Goto(r, CASE focus = "lists" -> "done" [] focus = "figures" -> "figures"
               [] focus = "times" -> "time")
  /\ UNCHANGED <<focus, chains, uses, stat, chainRelayers, channelTime, stage, queue, cur,
                 updateTimes, others, missed>>

\* GetChainAddrCombs lists an address once, whatever the number of its pairs.
AggrRelayerTxsAndAmt(pairs) == AggrRelayerBaseDenomAmtAndTxs(Addresses(pairs))

\* Aggregations that fail count as ones that find nothing.
HandleRelayerStatistic(r) ==
  /\ At(r, "figures")
  /\ \E failing \in BOOLEAN :
       /\ IF failing THEN Fails("other") ELSE Works
       /\ LET txs == IF failing THEN 0 ELSE AggrRelayerTxsAndAmt(page[r].pairs)
          IN  Put(UpdateTxsInfo(r, txs), address)
  /\ Goto(r, "done")
  /\ UNCHANGED <<focus, chains, uses, stat, chainRelayers, channelTime, stage, queue, cur, page,
                 updateTimes, others, taken, missed>>

\* getChannelPairUpdateTime: when an end was last updated, as its node knows
\* the client and the chain has a transaction since; 0 otherwise, an error.
\* Both ends are looked up at once and share the variable for the error, so an
\* end may stop at an error of the other one.
Since(r) == IF 0 < page[r].time /\ page[r].time <= now - Lookback
              THEN page[r].time ELSE now - Lookback
GetUpdateTimeByUpdateClient(x, since) == IF newest[x] < since THEN 0 ELSE newest[x]
GetUpdateTime(x, since, down) ==
  IF x \in down \cup {NoAddress} THEN 0 ELSE GetUpdateTimeByUpdateClient(x, since)
GetChannelPairUpdateTime(p, since, down) ==
  LET timeA == GetUpdateTime(p.a, since, down)
      timeB == GetUpdateTime(p.b, since, down)
  IN  {Max({timeA, timeB})} \cup (IF timeA = 0 \/ timeB = 0 THEN {0} ELSE {})

GenerateChannelId(p) == <<p.chA, p.chB>>
ChannelsOf(pairs) == {GenerateChannelId(p) : p \in pairs} \cap ChannelId

\* Mutant: compared the wrong way round.
UpdateRelayerTimeOlder(r, updateTime) ==
  IF page[r].time <= updateTime \/ relayer[r] = NoRelayer THEN relayer
    ELSE [relayer EXCEPT ![r].time = updateTime]

UpdateRelayerTime(r, updateTime) ==
  IF page[r].time >= updateTime \/ relayer[r] = NoRelayer THEN relayer
    ELSE [relayer EXCEPT ![r].time = updateTime]

\* The times of the pairs go to a map all workers share, by channel, whichever
\* comes last; the newest is the relayer's.
StoreUpdateTimes(last, times) ==
  [c \in ChannelId |-> IF c \in DOMAIN last THEN times[last[c]] ELSE updateTimes[c]]
NewestUpdateTime(pairs, times) == Max({0} \cup {times[p] : p \in pairs})
UpdateRelayerUpdateTime(r) ==
  /\ At(r, "time")
  /\ \E down \in SUBSET Address, times \in [page[r].pairs -> Time],
        last \in [ChannelsOf(page[r].pairs) -> page[r].pairs] :
       /\ IF down = {} THEN Works ELSE Cardinality(down) = 1 /\ Fails("other")
       /\ \A p \in page[r].pairs : times[p] \in GetChannelPairUpdateTime(p, Since(r), down)
       /\ \A c \in DOMAIN last : GenerateChannelId(last[c]) = c
       /\ updateTimes' = StoreUpdateTimes(last, times)
       /\ Put(UpdateRelayerTime(r, NewestUpdateTime(page[r].pairs, times)), address)
       /\ missed' = IF \E x \in Address : /\ \E p \in page[r].pairs : x \in Ends(p) \/ Single(p)
                                          /\ GetUpdateTime(x, Since(r), down) = 0
                      THEN missed \cup {r} ELSE missed \ {r}
  /\ Goto(r, "channels")
  /\ UNCHANGED <<focus, chains, uses, stat, chainRelayers, channelTime, stage, queue, cur, page,
                 others, taken>>

UpdateOneUpdateTime(C) == [c \in ChannelId |-> IF c \in C THEN updateTimes[c] ELSE channelTime[c]]
UpdateIbcChannelRelayerInfo(r) ==
  /\ At(r, "channels")
  /\ channelTime' = UpdateOneUpdateTime({c \in ChannelsOf(page[r].pairs) : updateTimes[c] > 0})
  /\ Goto(r, "done")
  /\ UNCHANGED <<focus, chains, uses, address, relayer, stat, chainRelayers, before, stage, queue,
                 cur, page, updateTimes, others, taken, missed, trouble, faults>>

CheckDone ==
  /\ stage = "check" /\ \A r \in Id : step[r] = "done"
  /\ stage' = "chains" /\ queue' = Chain /\ page' = NoPage
  /\ UNCHANGED <<focus, chains, uses, address, relayer, stat, chainRelayers, channelTime, before,
                 cur, step, updateTimes, others, taken, missed, trouble, faults>>

\* Mutant: the relayers that have the chain on side A.
CountChainRelayersA(c) ==
  Cardinality({r \in Known(relayer) : \E p \in relayer[r].pairs : ChainOf[p.a] = c})

CountChainRelayers(c) ==
  Cardinality({r \in Known(relayer) : c \in GetChains(relayer[r].pairs)})

UpdateRelayers(c, count) == [chainRelayers EXCEPT ![c] = count]
\* updateIbcChainsRelayer: nobody else writes these numbers.
UpdateIbcChainsRelayer(c) ==
  /\ stage = "chains" /\ c \in queue
  /\ chainRelayers' = UpdateRelayers(c, CountChainRelayers(c))
  /\ queue' = queue \ {c}
  /\ stage' = IF queue' = {} THEN "idle" ELSE stage
  /\ UNCHANGED <<focus, chains, uses, address, relayer, stat, channelTime, before, cur, page,
                 step, updateTimes, others, taken, missed, trouble, faults>>

\* The process is stopped; another run starts over.
Crash ==
  /\ stage # "idle"
  /\ Fails("crash")
  /\ stage' = "idle" /\ queue' = {} /\ cur' = NoCur /\ page' = NoPage
  /\ step' = [r \in Id |-> "done"]
  /\ missed' = missed \cup Known(page)
  /\ UNCHANGED <<focus, chains, uses, address, relayer, stat, chainRelayers, channelTime, before,
                 updateTimes, others, taken>>

CronStep ==
  \/ Start \/ RepairEmptyPubKey \/ FindToBeGathered \/ AddRelayerChannelPair \/ AddRelayer
  \/ UpdateGatherStatus \/ FindAll \/ CheckDone
  \/ \E c \in Chain : Statistics(c) \/ UpdateIbcChainsRelayer(c)
  \/ \E x \in Address : Gather(x)
  \/ \E r \in Id : \/ HandleRelayerChannelPair(r) \/ HandleRelayerStatistic(r)
                   \/ UpdateRelayerUpdateTime(r) \/ UpdateIbcChannelRelayerInfo(r)

-----------------------------------------------------------------------------
\* Collect, for one team: a list is a set of pairs of addresses, the one on the
\* first chain first.

PairsOf(dist) == UNION {GetChannelPairInfoByAddressPair(d[1], d[2], uses) : d \in dist}
Dist(p) == <<p.a, p.b>>
Team(docs) == {r \in Known(docs) : docs[r].named}

\* fetchSave and saveRegistryRelayer.  An update keeps the listed pairs that
\* are in the team's relayer and adds those that are not; it ends here if
\* there is nothing to change.
CollectStart(file) ==
  /\ collect.at = "idle" /\ file \in files
  /\ files' = files \ {file}
  /\ \E view \in {Primary, before} :
       /\ Read(view)
       /\ \/ /\ Team(view.relayer) = {}
             /\ collect' = [NoCollect EXCEPT !.at = "find", !.file = file, !.left = file,
                                             !.pairs = PairsOf(file)]
          \/ \E r \in Team(view.relayer) :
               LET listed == view.relayer[r].pairs
                   kept == {p \in listed : Dist(p) \in file}
                   added == file \ {Dist(p) : p \in listed}
               IN  collect' = IF kept = listed /\ added = {} THEN NoCollect
                              ELSE [NoCollect EXCEPT !.at = "find", !.file = file, !.left = file,
                                                     !.id = r, !.pairs = kept \cup PairsOf(added)]
  /\ UNCHANGED <<focus, chains, uses, address, relayer, stat, chainRelayers, channelTime, before,
                 cron, init, inits, taken, missed>>

\* removeDumpChannelPairs: for each pair of addresses the nameless relayers
\* that list one and the other are read,
CollectFind(d) ==
  /\ collect.at = "find" /\ d \in collect.left
  /\ \E view \in {Primary, before} :
       /\ Read(view)
       /\ LET docs == view.relayer
              found == {r \in Known(docs) : /\ ~docs[r].named
                                            /\ \E p \in docs[r].pairs : p.a = d[1]
                                            /\ \E p \in docs[r].pairs : p.b = d[2]}
          IN  collect' = IF found = {} THEN [collect EXCEPT !.left = @ \ {d}]
                         ELSE [collect EXCEPT !.at = "remove", !.left = @ \ {d}, !.found = found,
                                 !.got = @ \cup UNION {docs[r].pairs : r \in found}]
  /\ UNCHANGED <<focus, chains, uses, address, relayer, stat, chainRelayers, channelTime, before,
                 cron, files, init, inits, taken, missed>>

\* and removed.
CollectRemove ==
  /\ collect.at = "remove" /\ Works
  /\ Put(RemoveDumpData(collect.found), address)
  /\ FallenOut
  /\ collect' = [collect EXCEPT !.at = "find", !.found = {}]
  /\ UNCHANGED <<focus, chains, uses, stat, chainRelayers, channelTime, cron, files, init, inits,
                 missed>>

\* The team's relayer is inserted or its list is written, unless the index
\* refuses that.  A new one serves the chains of the registry's list.
CollectWrite ==
  /\ collect.at = "find" /\ collect.left = {} /\ Works
  /\ LET pairs == collect.pairs \cup collect.got
         served == Cardinality({ChainOf[x] : x \in UNION {{d[1], d[2]} : d \in collect.file}})
     IN  \/ /\ collect.id = 0 /\ Unique(0, pairs) /\ FreshIds # {}
            /\ Put(InsertOne(NewRelayer(TRUE, pairs, served)), address)
         \/ /\ collect.id # 0 /\ CanUpdate(collect.id, pairs)
            /\ Put(UpdateChannelPairInfo(collect.id, pairs), address)
         \/ /\ IF collect.id = 0 THEN ~Unique(0, pairs) ELSE ~CanUpdate(collect.id, pairs)
            /\ UNCHANGED <<relayer, address, before>>
  /\ FallenOut
  /\ collect' = NoCollect
  /\ UNCHANGED <<focus, chains, uses, stat, chainRelayers, channelTime, cron, files, init, inits,
                 missed>>

CollectFails ==
  /\ collect.at # "idle"
  /\ Fails("other")
  /\ collect' = NoCollect
  /\ UNCHANGED <<focus, chains, uses, address, relayer, stat, chainRelayers, channelTime, before,
                 cron, files, init, inits, taken, missed>>

-----------------------------------------------------------------------------
\* IbcRelayerAddressInitTask: nodes may give the key of each address seen, and
\* those of the registry count as gathered;

InitRead ==
  /\ inits > 0 /\ inits' = inits - 1
  /\ \E keys \in SUBSET DistinctAddr :
       init' = [x \in Address |->
                  IF x \notin DistinctAddr THEN NoAddressDoc
                  ELSE [key |-> x \in keys,
                        status |-> IF \E r \in Team(relayer) : x \in Addresses(relayer[r].pairs)
                                     THEN "registry" ELSE "todo"]]
  /\ UNCHANGED <<focus, chains, uses, address, relayer, stat, chainRelayers, channelTime, before,
                 cron, collect, files, taken, missed, trouble, faults>>

\* InsertMany, each that is not there yet.
InitInsert ==
  /\ Works /\ \E x \in Address : init[x] # NoAddressDoc
  /\ Put(relayer, InsertMany(init))
  /\ init' = [x \in Address |-> NoAddressDoc]
  /\ UNCHANGED <<focus, chains, uses, stat, chainRelayers, channelTime, cron, collect, files,
                 inits, taken, missed>>

-----------------------------------------------------------------------------

Next ==
  \/ \E u \in Use : RelayPacket(u)
  \/ \E x \in Address : UpdateClient(x)
  \/ Tick
  \/ CronStep \/ Crash
  \/ \E file \in files : CollectStart(file)
  \/ \E d \in collect.left : CollectFind(d)
  \/ CollectRemove \/ CollectWrite \/ CollectFails
  \/ InitRead \/ InitInsert

Spec == Init /\ [][Next]_vars
\* The cron task runs again and again.
FairSpec == Spec /\ WF_vars(CronStep)

-----------------------------------------------------------------------------
\* The addresses of one key are gathered in one relayer: two relayers without
\* a name never list two addresses with one public key.  Only a stale read, a
\* look-up that fails, a status that is not written or a stop between a
\* relayer's and its address's write split them.
SameKeySameRelayer ==
  trouble \cap {"stale", "lookup", "status", "crash"} = {} => OneRelayerPerKey(relayer)

\* An address that counts as gathered is never looked at again, so it must be
\* in a relayer's list.  Matching, joining and clearing pairs never lose it:
\* only an insertion that failed, and a list taken over by the registry or
\* overwritten by what was read of it before, do.
GatheredIsListed ==
  \A x \in Address :
    Gathered(address[x]) =>
      x \in Listed(relayer) \cup taken \/ "insert" \in trouble

\* Between runs, the time shown for a channel is the time of a relayer on it,
\* as long as both ends of its relayers' pairs were found, no relayer has other
\* pairs, and no secondary answered: a new time is compared with the one that was
\* read, so that after stale reads a relayer's may stay behind its channel's.
ChannelTimeOfARelayer ==
  focus = "times" /\ stage # "check" /\ "stale" \notin trouble =>
    \A c \in ChannelId :
      LET on == {r \in Known(relayer) : c \in ChannelsOf(relayer[r].pairs)}
      IN  \/ on = {} \/ channelTime[c] = 0
          \/ on \cap missed # {}
          \/ \E r \in on : Cardinality(relayer[r].pairs) > 1
          \/ channelTime[c] \in {relayer[r].time : r \in on}

\* The runs end: the relayers of every chain are counted as they are listed in
\* the end, and every relayer's packets are those of its addresses.
FiguresSettle ==
  <>[](/\ \A c \in Chain :
            chainRelayers[c] =
              Cardinality({r \in Known(relayer) :
                             \E p \in relayer[r].pairs : \E x \in Ends(p) : ChainOf[x] = c})
       /\ focus = "figures" =>
            \A r \in Known(relayer) :
              relayer[r].txs =
                Cardinality({u \in relayed : \E p \in relayer[r].pairs : u.addr \in Ends(p)}))

=============================================================================

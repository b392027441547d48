---------------------------- MODULE RelayerPairs ----------------------------
(***************************************************************************)
(* The lists of a relayer (channel_pair_info of ibc_relayer): which        *)
(* addresses it uses on which channels.  A pair has two sides, or one when *)
(* the address at the other end is not known yet; a pair of two addresses  *)
(* that share no channel has no channels.  Pairs are matched with          *)
(* ibc_relayer_address_channel, what the addresses were seen to use.       *)
(*                                                                         *)
(* The lists are sets here: nothing reads their order, and every reader    *)
(* passes over a pair that is listed twice.  The id of a pair, a hash of   *)
(* its fields, is the pair.                                                *)
(***************************************************************************)
EXTENDS Integers, FiniteSets

CONSTANTS Address,    \* addresses of relayers, each on one chain
          NoAddress,  \* ""
          NoChannel,  \* ""
          ChainOf,    \* the chain of an address
          Rank        \* of chains: Cosmos first, Iris second, the others by name

ASSUME PairsAssumption ==
  /\ NoAddress \notin Address
  /\ \A x \in Address : Rank[ChainOf[x]] \in Nat
  /\ \A x, y \in Address : Rank[ChainOf[x]] = Rank[ChainOf[y]] => ChainOf[x] = ChainOf[y]

\* One document per address and channel: the channel at the other end.
Usage(channels) == [addr : Address, channel : channels, other : channels]
Pair(channels) ==
  [a : Address, chA : channels \cup {NoChannel},
   b : Address \cup {NoAddress}, chB : channels \cup {NoChannel}]

Single(p) == p.b = NoAddress
Ends(p) == {p.a, p.b} \ {NoAddress}
Addresses(pairs) == UNION {Ends(p) : p \in pairs}
GetChains(pairs) == {ChainOf[x] : x \in Addresses(pairs)}

\* The first of two chains is chain A of their pairs.
ConfirmRelayerPair(x, y) == Rank[ChainOf[x]] <= Rank[ChainOf[y]]

GenerateSingleSideChannelPairInfo(u) ==
  [a |-> u.addr, chA |-> u.channel, b |-> NoAddress, chB |-> NoChannel]

GenerateChannelPairInfo(x, chX, y, chY) ==
  IF ConfirmRelayerPair(x, y) THEN [a |-> x, chA |-> chX, b |-> y, chB |-> chY]
                              ELSE [a |-> y, chA |-> chY, b |-> x, chB |-> chX]

\* GetChannelPairInfoByAddressPair: the channels both are seen to use, one at
\* each end; if there are none, a pair without channels.
Matched(x, y, uses) ==
  {GenerateChannelPairInfo(x, u.channel, y, u.other) :
     u \in {v \in uses : /\ v.addr = x
                         /\ \E w \in uses : /\ w.addr = y
                                            /\ w.channel = v.other
                                            /\ w.other = v.channel}}
GetChannelPairInfoByAddressPair(x, y, uses) ==
  IF x = NoAddress \/ y = NoAddress THEN {}
    ELSE IF Matched(x, y, uses) # {} THEN Matched(x, y, uses)
    ELSE {GenerateChannelPairInfo(x, NoChannel, y, NoChannel)}

\* singleSideAddressMatchPair: a one-sided pair is replaced by the pairs its
\* address has, on that channel, with addresses of the list on other chains.
Counterparts(p, pairs, uses) ==
  {t \in UNION {Matched(p.a, y, uses) : y \in {z \in Addresses(pairs) : ChainOf[z] # ChainOf[p.a]}} :
     \/ t.a = p.a /\ t.chA = p.chA
     \/ t.b = p.a /\ t.chB = p.chA}
MatchedSingles(pairs, uses) == {p \in pairs : Single(p) /\ Counterparts(p, pairs, uses) # {}}

SingleSideAddressMatchPair(pairs, uses) ==
  (pairs \cup UNION {Counterparts(p, pairs, uses) : p \in MatchedSingles(pairs, uses)})
    \ MatchedSingles(pairs, uses)

\* removeEmptyChannelData: a pair without channels goes when its addresses are
\* listed with some.
NoChannels(p) == p.chA = NoChannel \/ p.chB = NoChannel
RemoveEmptyChannelData(pairs) ==
  {p \in pairs : \/ ~NoChannels(p)
                 \/ \A q \in pairs : NoChannels(q) \/ <<q.a, q.b>> # <<p.a, p.b>>}

\* matchRelayerChannelPairInfo: more channels of the pairs of addresses listed.
MatchRelayerChannelPairInfo(pairs, uses) ==
  LET found == UNION {GetChannelPairInfoByAddressPair(p.a, p.b, uses) : p \in pairs}
  IN  IF found \subseteq pairs THEN pairs ELSE RemoveEmptyChannelData(pairs \cup found)

=============================================================================

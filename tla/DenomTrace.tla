----------------------------- MODULE DenomTrace -----------------------------
(***************************************************************************)
(* The names of tokens and where they lead (pkg/ibctool), and what it      *)
(* looks channels up in: the channels of every chain in chain_config.      *)
(*                                                                         *)
(* A full path is a sequence of hops before a root.  A hop is "port/       *)
(* channel" of the chain that received the token; chains use the same      *)
(* hops for different channels.  The hash is injective, so the denom of a  *)
(* path with hops is the path itself, and that of one without is its root. *)
(***************************************************************************)
EXTENDS Integers, FiniteSets, Sequences, FiniteSetsExt

CONSTANTS Chain, Hop, Root,
          NoChain, NoHop  \* null values

PathState == {"none", "init", "tryopen", "open", "closed"}
\* ChannelPath.  `state' of the counterparty is "none" while it is unknown.
ChannelPath == [state : PathState, chain : Chain \cup {NoChain}, client : BOOLEAN,
                other : Hop \cup {NoHop}, otherState : PathState]

\* chain_config: the channels of a chain, by port and channel
NoInfo == [h \in {} |-> NoHop]

FullPath(hops, root) == [hops |-> hops, root |-> root]
NoDenom == FullPath(<<>>, NoHop)
Denom == [hops : Seq(Hop \cup {NoHop}), root : Root \cup {NoHop}]

\* GetRootDenom and SplitFullPath
GetRootDenom(path) == path.root
SplitFullPath(path) == <<path.hops, path.root>>

\* CalculateIBCHash: injective on paths with a hop, the identity on the others.
CalculateIBCHash(path) == path
IsIBCDenom(denom) == denom.hops # <<>>

\* IBCHops counts "/channel": what is in front of a native root that has a slash
\* of its own (NoHop) is no hop, though CalculateIBCHash hashes such a root.
IBCHops(hops) == Cardinality({i \in DOMAIN hops : hops[i] # NoHop})

\* MatchDcInfo: the other end of a channel, or null values
MatchDcInfo(chain, hop, conf) ==
  IF chain \in DOMAIN conf /\ hop \in DOMAIN conf[chain]
  THEN [chain |-> conf[chain][hop].chain, hop |-> conf[chain][hop].other]
  ELSE [chain |-> NoChain, hop |-> NoHop]

\* GetChannelClient: whether the client is known
GetChannelClient(chain, hop, conf) ==
  chain \in DOMAIN conf /\ hop \in DOMAIN conf[chain] /\ conf[chain][hop].client

\* CalculateNextDenomPath: a token that leaves over the channel its path begins
\* with goes back; any other gets the hop of the channel it arrives over.
IsCrossBack(path, source) == path.hops # <<>> /\ Head(path.hops) = source
CalculateNextDenomPath(path, source, dest) ==
  IF IsCrossBack(path, source) THEN [path EXCEPT !.hops = Tail(@)]
  ELSE [path EXCEPT !.hops = <<dest>> \o @]

\* The chains a path leads through, as far as the configuration knows them.
Stations(path, chain, conf) ==
  LET far[n \in 0 .. Len(path.hops)] ==
        IF n = 0 THEN <<chain>>
        ELSE LET before == far[n - 1]
                 next == MatchDcInfo(before[n], path.hops[n], conf).chain
             IN  IF Len(before) < n \/ next = NoChain THEN before ELSE Append(before, next)
  IN  far[Len(path.hops)]

IBCDenom(chain, denom, prevChain, prevDenom, baseChain, baseDenom, isBase) ==
  [chain |-> chain, denom |-> denom, prevChain |-> prevChain, prevDenom |-> prevDenom,
   baseChain |-> baseChain, baseDenom |-> baseDenom, isBase |-> isBase,
   ibcHops |-> IBCHops(denom.hops)]

\* TraceDenom: its base is the last station the configuration leads to.
TraceDenom(path, chain, conf) ==
  LET stations == Stations(path, chain, conf)
      last == Len(stations)
      At(n) == CalculateIBCHash([path EXCEPT !.hops = SubSeq(@, n, Len(@))])
  IN  IF last = 1 THEN IBCDenom(chain, At(1), NoChain, NoDenom, chain, At(1), TRUE)
      ELSE IBCDenom(chain, At(1), stations[2], At(2), stations[last], At(last), FALSE)
=============================================================================

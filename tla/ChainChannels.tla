---------------------------- MODULE ChainChannels ----------------------------
(***************************************************************************)
(* The channels of the chains and what is shown of them.                   *)
(*   ibc_chain_config_task copies the channels of every listed chain from  *)
(*     a node of it to chain_config.  A node does not say what chain is at *)
(*     the other end, nor in what state that end is: the first is asked of *)
(*     the node, once per channel, and the second found among the channels *)
(*     of the other chains;                                                *)
(*   ibc_chain_task counts the channels of every chain in ibc_chain;       *)
(*   ibc_channel_task derives ibc_channel, one document per channel, and   *)
(*     the chains' transfers in ibc_chain.                                 *)
(* Each runs again and again under a lock of its own, while channels open  *)
(* and close on the chains and operators list more chains.                 *)
(***************************************************************************)
EXTENDS DenomTrace

CONSTANTS Peer,       \* the other end of every end of a channel
          Rank,       \* chains by name
          Cosmos, Iris,  \* chains named cosmos... and iris...
          Limit,      \* channels of a page
          OpenAt,     \* ibc_channel_config: opening times of some channels
          Commits,    \* packets on their way from an end
          MaxTime, MaxTxs  \* bounds: time, transfers of a channel

End == DOMAIN Peer
Time == 0 .. MaxTime
ChannelId == (Chain \X (Hop \cup {NoHop})) \X (Chain \X (Hop \cup {NoHop}))
ChannelDoc == [status : {"opened", "closed"}, open : Time, period : Time, pending : Nat, txs : Nat]
ChainDoc == [channels : Nat, connected : Nat, txs : Nat]

ASSUME ChannelsAssumption ==
  /\ Peer \in [End -> End] /\ End \subseteq Chain \X Hop
  /\ \A e \in End : Peer[Peer[e]] = e /\ Peer[e][1] # e[1]
  /\ Rank \in [Chain -> Nat] /\ \A c, d \in Chain : Rank[c] = Rank[d] => c = d
  /\ Cosmos \subseteq Chain /\ Iris \subseteq Chain
  /\ \A c, d \in Cosmos : c = d
  /\ \A c, d \in Iris : c = d
  /\ Limit \in Nat /\ MaxTime \in Nat /\ MaxTxs \in Nat
  /\ Commits \in [End -> Nat]
  /\ NoChain \notin Chain /\ NoHop \notin Hop \cup Root

VARIABLES
  \* the chains
  ends,        \* the state of every end of a channel
  confirmed,   \* when channel_open_confirm was seen, 0 if not
  stat,        \* ibc_channel_statistics: transfers of the channel of an end
  now,
  steps,       \* bound: steps of handshakes still to come
  \* the collections
  conf,        \* chain_config
  chainDoc,    \* ibc_chain
  channels,    \* ibc_channel
  \* ibc_chain_config_task
  cfg,         \* where it stands
  cfgConf,     \* the configuration it began with
  cfgLeft,     \* chains to ask, or to write
  cfgSeen,     \* channelStateMap
  cfgList,     \* chainChannelMap, of chains that answered
  \* ibc_channel_task
  chan,        \* where it stands
  chanDocs,    \* the channels it found, and the documents they will have
  faults       \* answers and writes that may still be lost

network == <<ends, confirmed, stat, now, steps>>
configTask == <<cfg, cfgConf, cfgLeft, cfgSeen, cfgList>>
channelTask == <<chan, chanDocs>>
channelVars == <<network, conf, chainDoc, channels, configTask, channelTask>>

Nothing == [c \in {} |-> NoInfo]
SumOf(f) == MapThenSumSet(LAMBDA x : f[x], DOMAIN f)
\* At most one of some answers or writes is lost, if that may still happen.
Lost(things) == {{}} \cup {{x} : x \in IF faults > 0 THEN things ELSE {}}
Spend(lost) == faults' = faults - Cardinality(lost)
Listed == DOMAIN conf

\* Who an end knows to be at the other: ChannelOpenInit names no channel.
OtherHop(e) == IF ends[e] = "init" THEN NoHop ELSE Peer[e][2]
EndsOf(c) == {e \in End : e[1] = c /\ ends[e] # "none"}

ChannelsTypeOK ==
  /\ ends \in [End -> PathState]
  /\ confirmed \in [End -> Time] /\ now \in Time /\ steps \in Nat
  /\ stat \in [End -> Nat]
  /\ DOMAIN conf \subseteq Chain /\ DOMAIN cfgConf \subseteq Chain /\ DOMAIN cfgList \subseteq Chain
  /\ \A f \in {conf, cfgConf, cfgList} :
       \A c \in DOMAIN f : /\ DOMAIN f[c] \subseteq Hop
                           /\ \A h \in DOMAIN f[c] : f[c][h] \in ChannelPath
  /\ DOMAIN chainDoc \subseteq Chain /\ \A c \in DOMAIN chainDoc : chainDoc[c] \in ChainDoc
  /\ \A f \in {channels, chanDocs} :
       DOMAIN f \subseteq ChannelId /\ \A i \in DOMAIN f : f[i] \in ChannelDoc
  /\ cfg \in {"idle", "fetch", "write"} /\ cfgLeft \subseteq Chain
  /\ cfgSeen \subseteq [end : End, other : Hop \cup {NoHop}, state : PathState]
  /\ chan \in {"idle", "write"}

\* The chains and the operators' part of the first state are the composition's.
ChannelsInit ==
  /\ confirmed = [e \in End |-> IF ends[e] = "open" /\ ends[Peer[e]] = "open" THEN 1 ELSE 0]
  /\ chainDoc = [c \in {} |-> 0] /\ channels = [i \in {} |-> 0]
  /\ cfg = "idle" /\ cfgConf = Nothing /\ cfgLeft = {} /\ cfgSeen = {} /\ cfgList = Nothing
  /\ chan = "idle" /\ chanDocs = [i \in {} |-> 0]

----------------------------------------------------------------------------
(* The chains and the operators.                                           *)

\* The handshake, and the closing, of a channel; confirming is the last step of
\* either, and is seen on the chain that did not begin.
Move(e, from, otherIn, to) ==
  /\ steps > 0 /\ steps' = steps - 1
  /\ ends[e] = from /\ ends[Peer[e]] \in otherIn
  /\ ends' = [ends EXCEPT ![e] = to]
  /\ confirmed' = [confirmed EXCEPT ![e] = IF from = "tryopen" THEN now ELSE @]
  /\ UNCHANGED <<stat, now, conf, chainDoc, channels, configTask, channelTask, faults>>

Handshake(e) ==
  \/ Move(e, "none", {"none"}, "init")
  \/ Move(e, "none", {"init"}, "tryopen")
  \/ Move(e, "init", {"tryopen"}, "open")
  \/ Move(e, "tryopen", {"open"}, "open")
  \/ Move(e, "open", {"open", "closed"}, "closed")

\* A transfer enters the statistics of the channel.
Transfer(e) ==
  /\ ends[e] = "open" /\ ends[Peer[e]] = "open" /\ Rank[e[1]] < Rank[Peer[e][1]]
  /\ stat[e] < MaxTxs
  /\ stat' = [stat EXCEPT ![e] = @ + 1, ![Peer[e]] = @ + 1]
  /\ UNCHANGED <<ends, confirmed, now, steps, conf, chainDoc, channels, configTask, channelTask, faults>>

Tick ==
  /\ now < MaxTime /\ now' = now + 1
  /\ UNCHANGED <<ends, confirmed, stat, steps, conf, chainDoc, channels, configTask, channelTask, faults>>

\* An operator adds a chain to chain_config.
ListChain(c) ==
  /\ c \notin Listed
  /\ conf' = [d \in Listed \cup {c} |-> IF d = c THEN NoInfo ELSE conf[d]]
  /\ UNCHANGED <<network, chainDoc, channels, configTask, channelTask, faults>>

----------------------------------------------------------------------------
(* ibc_chain_config_task.                                                  *)

\* getChainConf, and the names of chains
ConfigStart ==
  /\ cfg = "idle"
  /\ cfg' = "fetch" /\ cfgConf' = conf /\ cfgLeft' = Listed
  /\ cfgSeen' = {} /\ cfgList' = Nothing
  /\ UNCHANGED <<network, conf, chainDoc, channels, channelTask, faults>>

\* What the configuration has of a channel: it must lead to the same other end.
Existing(c, h) ==
  h \in DOMAIN cfgConf[c] /\ cfgConf[c][h].other = OtherHop(<<c, h>>)
Complete(c, h) ==
  Existing(c, h) /\ cfgConf[c][h].chain # NoChain /\ cfgConf[c][h].client

GetChainIdNameMap == DOMAIN cfgConf
\* QueryClientState: the chain of the channel's client, if its id has a name
QueryClientState(e) == IF Peer[e][1] \in GetChainIdNameMap THEN Peer[e][1] ELSE NoChain

\* setChainAndCounterpartyState: what is known is kept; a node is asked for the
\* rest until it fails to answer once.
SetChainAndCounterpartyState(c, answered) ==
  [h \in {e[2] : e \in EndsOf(c)} |->
    LET e == <<c, h>>
    IN  [state |-> ends[e], other |-> OtherHop(e),
         otherState |-> IF Existing(c, h) THEN cfgConf[c][h].otherState ELSE "none",
         client |-> Complete(c, h) \/ h \in answered,
         chain |-> IF Complete(c, h) THEN cfgConf[c][h].chain
                   ELSE IF h \in answered THEN QueryClientState(e) ELSE NoChain]]

\* getIbcChannels of a chain.  A page that is full is never left: its offset has
\* replaced the placeholder in the path, so the next request is for it again.
Fetch(c) ==
  /\ cfg = "fetch" /\ c \in cfgLeft
  /\ Cardinality(EndsOf(c)) < Limit
  /\ LET asked == {h \in {e[2] : e \in EndsOf(c)} : ~Complete(c, h)}
     IN  \/ \E lost \in Lost({"answers"}) :
              \E answered \in IF lost = {} THEN {asked} ELSE SUBSET asked \ {asked} :
                /\ cfgSeen' = cfgSeen \cup
                     {[end |-> e, other |-> OtherHop(e), state |-> ends[e]] : e \in EndsOf(c)}
                /\ cfgList' = [d \in DOMAIN cfgList \cup {c} |->
                                 IF d = c THEN SetChainAndCounterpartyState(c, answered)
                                 ELSE cfgList[d]]
                /\ Spend(lost)
         \/ faults > 0 /\ Spend({c}) /\ UNCHANGED <<cfgSeen, cfgList>>
  /\ cfgLeft' = cfgLeft \ {c}
  /\ UNCHANGED <<network, cfg, cfgConf, conf, chainDoc, channels, channelTask>>

\* Mutant: a state that is known is not looked up again.
SetCounterpartyStateOnce(c) ==
  [h \in DOMAIN cfgList[c] |->
    LET v == cfgList[c][h]
        found == {s \in cfgSeen : s.end = <<v.chain, v.other>> /\ s.other = h}
    IN  IF found = {} \/ v.otherState # "none" THEN v
        ELSE [v EXCEPT !.otherState = (CHOOSE s \in found : TRUE).state]]

\* setCounterpartyState: the other end is found if it names this one.
SetCounterpartyState(c) ==
  [h \in DOMAIN cfgList[c] |->
    LET v == cfgList[c][h]
        found == {s \in cfgSeen : s.end = <<v.chain, v.other>> /\ s.other = h}
    IN  IF found = {} THEN v
        ELSE [v EXCEPT !.otherState = (CHOOSE s \in found : TRUE).state]]

ConfigMatch ==
  /\ cfg = "fetch" /\ cfgLeft = {}
  /\ cfg' = "write" /\ cfgLeft' = DOMAIN cfgList
  /\ cfgList' = [c \in DOMAIN cfgList |-> SetCounterpartyState(c)]
  /\ UNCHANGED <<network, cfgConf, cfgSeen, conf, chainDoc, channels, channelTask, faults>>

UpdateIbcInfo(c, info) == [conf EXCEPT ![c] = info]
\* updateChain: channels to chains that are not listed are left out.
UpdateChain(c) ==
  /\ cfg = "write" /\ c \in cfgLeft
  /\ LET kept == {h \in DOMAIN cfgList[c] : cfgList[c][h].chain \in DOMAIN cfgConf}
     IN  \E lost \in Lost({c}) :
           /\ conf' = IF lost = {} THEN UpdateIbcInfo(c, [h \in kept |-> cfgList[c][h]]) ELSE conf
           /\ Spend(lost)
  /\ cfgLeft' = cfgLeft \ {c}
  /\ UNCHANGED <<network, cfg, cfgConf, cfgSeen, cfgList, chainDoc, channels, channelTask>>

ConfigDone ==
  /\ cfg = "write" /\ cfgLeft = {}
  /\ cfg' = "idle" /\ cfgConf' = Nothing /\ cfgSeen' = {} /\ cfgList' = Nothing
  /\ UNCHANGED <<network, cfgLeft, conf, chainDoc, channels, channelTask, faults>>

----------------------------------------------------------------------------
(* ibc_chain_task.                                                         *)

CreateChainData(c) ==
  [channels |-> Cardinality(DOMAIN conf[c]),
   connected |-> Cardinality({conf[c][h].chain : h \in DOMAIN conf[c]}),
   txs |-> 0]
\* InserOrUpdate leaves the transfers of a chain alone.
InserOrUpdate(c) ==
  IF c \in DOMAIN chainDoc THEN [CreateChainData(c) EXCEPT !.txs = chainDoc[c].txs]
  ELSE CreateChainData(c)
ChainTask ==
  \E lost \in Lost(Listed) :
    /\ chainDoc' = [c \in DOMAIN chainDoc \cup (Listed \ lost) |->
                      IF c \in lost THEN chainDoc[c] ELSE InserOrUpdate(c)]
    /\ Spend(lost)
    /\ UNCHANGED <<network, conf, channels, configTask, channelTask>>

----------------------------------------------------------------------------
(* ibc_channel_task.                                                       *)

\* generateChannelId: the same id from either end
GenerateChannelId(a, b) ==
  IF \/ a[1] \in Cosmos
     \/ b[1] \notin Cosmos /\ a[1] \in Iris
     \/ {a[1], b[1]} \cap (Cosmos \cup Iris) = {} /\ Rank[a[1]] < Rank[b[1]]
  THEN <<a, b>> ELSE <<b, a>>

\* analyzeChainConfig: a channel has the status of the end that is met first.
IdAt(c, h) == GenerateChannelId(<<c, h>>, <<conf[c][h].chain, conf[c][h].other>>)
PathsOf(id) ==
  {p \in {id[1], id[2]} : p[1] \in Listed /\ p[2] \in DOMAIN conf[p[1]] /\ IdAt(p[1], p[2]) = id}
AllChannelIds == UNION {{IdAt(c, h) : h \in DOMAIN conf[c]} : c \in Listed}
StatusAt(p) ==
  IF conf[p[1]][p[2]].state = "open" /\ conf[p[1]][p[2]].otherState = "open"
  THEN "opened" ELSE "closed"

GetChannelOpenConfirmTime(e) == IF e \in End THEN {confirmed[e]} \ {0} ELSE {}
\* Of chain A, and else of chain B
QueryChannelOpenConfirmTime(id) ==
  IF GetChannelOpenConfirmTime(id[1]) # {} THEN GetChannelOpenConfirmTime(id[1])
  ELSE GetChannelOpenConfirmTime(id[2])
\* Find in ibc_channel_config, which has a channel either way round
Find(id) == {OpenAt[i] : i \in {id, <<id[2], id[1]>>} \cap DOMAIN OpenAt}

\* setLatestSettlementTime.  The 48 hours it looks for the confirmation of a known
\* channel are in nanoseconds: it always does.
LatestOpenTime(id, status) ==
  LET confirm == QueryChannelOpenConfirmTime(id)
      settled == IF Find(id) # {} THEN Find(id) ELSE confirm
      first(times, otherwise) == IF times = {} THEN otherwise ELSE CHOOSE x \in times : TRUE
  IN  IF id \notin DOMAIN channels THEN first(settled, 0)
      ELSE LET doc == channels[id]
               open == IF doc.open = 0 /\ doc.status = "opened" THEN first(settled, 0) ELSE doc.open
           IN  IF doc.status = "closed" /\ status = "opened" THEN first(confirm, open) ELSE open

\* setStatusAndOperatingPeriod, after that: a new channel counts as open before.
NewDoc == [status |-> "opened", open |-> 0, period |-> 0, pending |-> 0, txs |-> 0]
WithStatus(id, status) ==
  LET doc == IF id \in DOMAIN channels THEN channels[id] ELSE NewDoc
      open == LatestOpenTime(id, status)
      works == open # 0 /\ ~(doc.status = "closed" /\ status = "closed")
  IN  [doc EXCEPT !.open = open, !.status = status, !.period = IF works THEN now - open ELSE @]

AnalyzeChannels ==
  /\ chan = "idle"
  /\ \E first \in [AllChannelIds -> UNION {PathsOf(id) : id \in AllChannelIds}] :
       /\ \A id \in AllChannelIds : first[id] \in PathsOf(id)
       /\ chanDocs' = [id \in AllChannelIds |-> WithStatus(id, StatusAt(first[id]))]
  /\ chan' = "write"
  /\ UNCHANGED <<network, conf, chainDoc, channels, configTask, faults>>

\* setTransferTxs, and the sums of chains with statistics of a channel
TransferTxs(id) == IF id[1] \in End /\ Peer[id[1]] = id[2] THEN stat[id[1]] ELSE 0
ChainTxs(c) ==
  SumOf([id \in {i \in DOMAIN chanDocs : c \in {i[1][1], i[2][1]}} |-> TransferTxs(id)])
\* setPendingTxs asks a node of each end, and counts none if it does not answer.
PendingTxs(id, lost) ==
  LET asked == {e \in {id[1], id[2]} \cap End : e[1] \in Listed /\ <<"node", e>> \notin lost}
  IN  SumOf([e \in asked |-> Commits[e]])

\* What InsertBatch, DeleteByChannelIds and UpdateChannel leave in ibc_channel.
InsertChannels(lost) == IF <<"insert", NoHop>> \in lost THEN {} ELSE DOMAIN chanDocs \ DOMAIN channels
DeleteByChannelIds(lost) ==
  IF <<"delete", NoHop>> \in lost THEN DOMAIN channels ELSE DOMAIN channels \cap DOMAIN chanDocs
UpdateChannel(id, lost) ==
  IF id \notin DOMAIN chanDocs \/ <<"update", id>> \in lost THEN channels[id]
  ELSE [chanDocs[id] EXCEPT !.txs = TransferTxs(id), !.pending = PendingTxs(id, lost)]
UpdateTransferTxs(c, lost) ==
  IF ChainTxs(c) > 0 /\ <<"chain", c>> \notin lost
  THEN [chainDoc[c] EXCEPT !.txs = ChainTxs(c)] ELSE chainDoc[c]

\* The run goes on to its writes, unless statistics, tokens or chains cannot be read.
\* What it has read before may have changed since.
WriteChannels ==
  /\ chan = "write"
  /\ LET known == DOMAIN channels \cap DOMAIN chanDocs
         runs == {<<"run", NoHop>>}
     IN  \E lost \in Lost(runs \cup ({"insert", "delete"} \X {NoHop}) \cup ({"update"} \X known)
                            \cup ({"node"} \X End) \cup ({"chain"} \X DOMAIN chainDoc)) :
           /\ IF lost = runs THEN UNCHANGED <<channels, chainDoc>>
              ELSE /\ channels' = [id \in InsertChannels(lost) \cup DeleteByChannelIds(lost) |->
                                     UpdateChannel(id, lost)]
                   /\ chainDoc' = [c \in DOMAIN chainDoc |-> UpdateTransferTxs(c, lost)]
           /\ Spend(lost)
  /\ chan' = "idle" /\ chanDocs' = [id \in {} |-> 0]
  /\ UNCHANGED <<network, conf, configTask>>

----------------------------------------------------------------------------
(* What is promised once the channels and the list of chains do not change. *)

Shown(e) == ends[e] # "none" /\ {e[1], Peer[e][1]} \subseteq Listed
TrueId(e) == GenerateChannelId(e, <<Peer[e][1], OtherHop(e)>>)
Works(e) == ends[e] = "open" /\ ends[Peer[e]] = "open"

ChannelsShown ==
  /\ DOMAIN channels = {TrueId(e) : e \in {x \in End : Shown(x)}}
  /\ \A e \in End : Shown(e) =>
       LET doc == channels[TrueId(e)]
       IN  /\ doc.status = "opened" <=> Works(e)
           /\ Works(e) => /\ doc.pending = Commits[e] + Commits[Peer[e]]
                          /\ doc.txs = stat[e]
                          /\ doc.open \in {confirmed[e], confirmed[Peer[e]]} \ {0}
ChainsShown ==
  \A c \in Listed : /\ c \in DOMAIN chainDoc
                    /\ LET of == {e \in End : e[1] = c /\ Shown(e)}
                       IN  /\ chainDoc[c].channels = Cardinality(of)
                           /\ chainDoc[c].connected = Cardinality({Peer[e][1] : e \in of})
                           /\ chainDoc[c].txs = SumOf([e \in of |-> stat[e]])
=============================================================================

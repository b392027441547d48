------------------------------- MODULE Denoms -------------------------------
(***************************************************************************)
(* How ibc_denom comes to know the tokens of all chains and where they     *)
(* come from.  Tokens travel over channels; a transfer is noted by         *)
(* sync_transfer_tx_task, which traces an unknown denom with the           *)
(* configuration it has read, and matched by the relate task, which        *)
(* registers the denom the token has where it arrived.  While a chain on   *)
(* the way is not listed a trace ends before it, and what is noted is      *)
(* taken for the origin.  The manual add_chain_task, run once the chain    *)
(* and its channels are in chain_config, traces all denoms again and moves *)
(* the transfers with them.                                                *)
(***************************************************************************)
EXTENDS ChainChannels

CONSTANTS MaxSends,  \* bound: transfers
          Slashed    \* native tokens with a slash in their name

Send == 1 .. MaxSends
\* Where the denoms of a chain are registered
Key == [chain : Chain, denom : Denom]
KeyOf(chain, denom) == [chain |-> chain, denom |-> denom]
NoToken == [path |-> NoDenom, via |-> <<>>]
NoSend == [token |-> NoToken, from |-> <<NoChain, NoHop>>]
NoTx == [status |-> "none", base |-> NoDenom, baseChain |-> NoChain, sure |-> FALSE]

VARIABLES
  \* the chains
  tokens,   \* tokens that exist: their path, and the chains they went through
  sends,    \* transfers, all of which arrive
  \* the collections
  denoms,   \* ibc_denom
  txs,      \* ex_ibc_tx; history: whether the base is surely that of its denom
  \* the tasks
  sync,     \* sync_transfer_tx_task: the chain in hand and what it has read
  relate,   \* the relate task: the same
  add,      \* add_chain_task: the same, and the denoms left
  \* histories
  settled,  \* denoms traced again with a configuration that has all channels
  skipped   \* received denoms that were not registered

denomVars == <<tokens, sends, denoms, txs, sync, relate, add, settled, skipped>>

NoSync == [chain |-> NoChain, conf |-> Nothing, known |-> [k \in {} |-> 0]]
NoRelate == [chain |-> NoChain, txs |-> [i \in {} |-> 0], known |-> {}]
NoAdd == [at |-> "idle", chain |-> NoChain, conf |-> Nothing, list |-> [k \in {} |-> 0], base |-> {}]

Native(chain, root) ==
  [path |-> FullPath(IF root \in Slashed THEN <<NoHop>> ELSE <<>>, root), via |-> <<chain>>]
TokenKey(t) == KeyOf(Head(t.via), t.path)
Token(k) == CHOOSE t \in tokens : TokenKey(t) = k
Origin(t) == t.via[Len(t.via)]

\* The n-th station of a token, by the chains it really went through.
StationDenom(t, n) == [t.path EXCEPT !.hops = SubSeq(@, n, Len(@))]
OriginDenom(t) == StationDenom(t, Len(t.via))

\* The hops of a token's path lead from each chain it went through to the one before;
\* a slash of its name comes after them.
Leg(t, n) == <<t.via[n], t.path.hops[n]>>
FollowsPath(t) ==
  /\ t \in [path : Denom, via : Seq(Chain) \ {<<>>}]
  /\ Len(t.path.hops) \in {Len(t.via) - 1, Len(t.via)}
  /\ Len(t.path.hops) = Len(t.via) => t.path.hops[Len(t.via)] = NoHop
  /\ \A n \in 1 .. Len(t.via) - 1 : Leg(t, n) \in End /\ Peer[Leg(t, n)][1] = t.via[n + 1]

DenomsTypeOK ==
  /\ \A t \in tokens : t.path \in Denom /\ t.via \in Seq(Chain)
  /\ \A i \in Send : sends[i] # NoSend => sends[i].token \in tokens /\ sends[i].from \in End
  /\ \A k \in DOMAIN denoms : k \in Key /\ denoms[k].chain = k.chain /\ denoms[k].denom = k.denom
  /\ \A i \in Send : txs[i] # NoTx => /\ txs[i].status \in {"setting", "processing", "success"}
                                      /\ txs[i].base \in Denom /\ txs[i].baseChain \in Chain
  /\ sync.chain \in Chain \cup {NoChain} /\ relate.chain \in Chain \cup {NoChain}
  /\ add.at \in {"idle", "run"} /\ DOMAIN add.list \subseteq Key
  /\ settled \subseteq Key /\ skipped \subseteq Key

DenomsInit ==
  /\ sends = [i \in Send |-> NoSend] /\ txs = [i \in Send |-> NoTx]
  /\ sync = NoSync /\ relate = NoRelate /\ add = NoAdd
  /\ settled = {} /\ skipped = {}

----------------------------------------------------------------------------
(* The chains.                                                             *)

\* What a token is called after it has gone over a channel, as the chains have it:
\* the channel it came over last takes it back.
Arrived(t, e) ==
  LET back == IsCrossBack(t.path, e[2]) /\ Len(t.via) > 1
  IN  [path |-> CalculateNextDenomPath(t.path, e[2], Peer[e][2]),
       via |-> IF back THEN Tail(t.via) ELSE <<Peer[e][1]>> \o t.via]

SendToken(t, e) ==
  \E i \in Send :
    /\ sends[i] = NoSend /\ \A j \in 1 .. i - 1 : sends[j] # NoSend
    /\ t \in tokens /\ e[1] = Head(t.via) /\ Works(e)
    /\ sends' = [sends EXCEPT ![i] = [token |-> t, from |-> e]]
    /\ tokens' = tokens \cup {Arrived(t, e)}
    /\ UNCHANGED <<denoms, txs, sync, relate, add, settled, skipped, faults>>

----------------------------------------------------------------------------
(* sync_transfer_tx_task, on a chain.                                      *)

FindByChain(chain) == [k \in {d \in DOMAIN denoms : d.chain = chain} |-> denoms[k]]
\* InsertBatch: a denom that is there stays as it is.
InsertBatch(docs) ==
  [k \in DOMAIN denoms \cup DOMAIN docs |-> IF k \in DOMAIN denoms THEN denoms[k] ELSE docs[k]]

SyncRead(c) ==
  /\ sync.chain = NoChain /\ c \in Listed
  /\ \E i \in Send : sends[i] # NoSend /\ txs[i] = NoTx /\ sends[i].from[1] = c
  /\ sync' = [chain |-> c, conf |-> conf, known |-> FindByChain(c)]
  /\ UNCHANGED <<tokens, sends, denoms, txs, relate, add, settled, skipped, faults>>

\* handleSourceTx: a denom is registered only with a transfer that has a
\* destination; other transfers are put off, with the base the trace gave.
SourceDenom(s) ==
  LET k == TokenKey(s.token)
  IN  IF k \in DOMAIN sync.known THEN sync.known[k] ELSE TraceDenom(k.denom, k.chain, sync.conf)
Destined(s) == MatchDcInfo(s.from[1], s.from[2], sync.conf).chain # NoChain

SyncWrite ==
  /\ sync.chain # NoChain
  /\ LET mine == {i \in Send : sends[i] # NoSend /\ txs[i] = NoTx /\ sends[i].from[1] = sync.chain}
         found == {TokenKey(sends[i].token) : i \in {j \in mine : Destined(sends[j])}} \ DOMAIN sync.known
         docs == InsertBatch([k \in found |-> TraceDenom(k.denom, k.chain, sync.conf)])
     IN  /\ denoms' = docs
         /\ txs' = [i \in Send |->
              IF i \notin mine THEN txs[i]
              ELSE LET d == SourceDenom(sends[i])
                       k == TokenKey(sends[i].token)
                   IN  [status |-> IF Destined(sends[i]) THEN "processing" ELSE "setting",
                        base |-> d.baseDenom, baseChain |-> d.baseChain,
                        sure |-> k \in DOMAIN docs /\ docs[k].baseDenom = d.baseDenom
                                                   /\ docs[k].baseChain = d.baseChain]]
  /\ sync' = NoSync
  /\ UNCHANGED <<tokens, sends, relate, add, settled, skipped, faults>>

----------------------------------------------------------------------------
(* The relate task, on a chain that sent.                                  *)

GetChainDenomMap(c) == {k.denom : k \in DOMAIN FindByChain(c)}
RelateRead(c) ==
  /\ relate.chain = NoChain
  /\ LET todo == {i \in Send : txs[i].status = "processing" /\ sends[i].from[1] = c}
     IN  /\ todo # {}
         /\ relate' = [chain |-> c, txs |-> [i \in todo |-> txs[i]], known |-> GetChainDenomMap(c)]
  /\ UNCHANGED <<tokens, sends, denoms, txs, sync, add, settled, skipped, faults>>

\* loadRecvPacketTx: the denom where the token arrived, unless it came back.
Received(i) ==
  LET s == sends[i]
      path == CalculateNextDenomPath(s.token.path, s.from[2], Peer[s.from][2])
  IN  IBCDenom(Peer[s.from][1], CalculateIBCHash(path), s.from[1], s.token.path,
               relate.txs[i].baseChain, relate.txs[i].base, FALSE)

\* Mutant: a token that came back is taken for a new one.
LandsAlways(i) == TRUE
\* Whether the token is on its way out
Lands(i) == ~IsCrossBack(sends[i].token.path, sends[i].from[2])

\* A received denom is registered unless a denom of the same name is known on the
\* chain that sent, or was received before on any chain.
RelateWrite ==
  /\ relate.chain # NoChain
  /\ LET arrived == {i \in DOMAIN relate.txs : Lands(i)}
         Key1(i) == KeyOf(Received(i).chain, Received(i).denom)
         fresh == {i \in arrived : /\ Received(i).denom \notin relate.known
                                   /\ \A j \in arrived : j < i => Received(j).denom # Received(i).denom}
     IN  \E lost \in Lost({"insert"}) :
           /\ denoms' = IF lost # {} THEN denoms
                        ELSE InsertBatch([k \in {Key1(i) : i \in fresh} |->
                                            Received(CHOOSE i \in fresh : Key1(i) = k)])
           /\ skipped' = skipped \cup {Key1(i) : i \in IF lost # {} THEN arrived ELSE arrived \ fresh}
           /\ Spend(lost)
  /\ txs' = [i \in Send |-> IF i \in DOMAIN relate.txs THEN [txs[i] EXCEPT !.status = "success"] ELSE txs[i]]
  /\ relate' = NoRelate
  /\ UNCHANGED <<tokens, sends, sync, add, settled>>

----------------------------------------------------------------------------
(* add_chain_task, for a chain that is new.                                *)

\* An operator runs it when ibc_chain_config_task has seen the listed chains.  Run
\* before, it takes good bases away: see the README.
Configured == \A e \in End : Shown(e) => e[2] \in DOMAIN conf[e[1]]
AddRead(c) ==
  /\ add.at = "idle" /\ c \in Listed /\ Configured
  /\ add' = [at |-> "run", chain |-> c, conf |-> conf, base |-> {},
             list |-> [k \in {d \in DOMAIN denoms : d.denom.hops # <<>>} |-> denoms[k]]]
  /\ UNCHANGED <<tokens, sends, denoms, txs, sync, relate, settled, skipped, faults>>

\* AddNewChainUpdate: what was put off gets its destination.
AddNewChainUpdate(from) ==
  [i \in Send |-> IF txs[i].status = "setting" /\ sends[i].from \in from
                  THEN [txs[i] EXCEPT !.status = "processing"] ELSE txs[i]]
\* updateIbcTx: what was sent to the new chain, over channels that are open.
AddUpdateTxs ==
  /\ add.at = "run" /\ add.chain # NoChain
  /\ LET info == add.conf[add.chain]
         open == {h \in DOMAIN info : info[h].state = "open"}
     IN  txs' = AddNewChainUpdate({<<info[h].chain, info[h].other>> : h \in open})
  /\ add' = [add EXCEPT !.chain = NoChain]
  /\ UNCHANGED <<tokens, sends, denoms, sync, relate, settled, skipped, faults>>

\* All channels on the way of a token are in a configuration.
KnowsWay(t, cf) == Stations(t.path, Head(t.via), cf) = t.via

\* UpdateDenom leaves the hops alone.
UpdateDenom(k, new) ==
  [denoms EXCEPT ![k].baseDenom = new.baseDenom, ![k].baseChain = new.baseChain,
                 ![k].prevDenom = new.prevDenom, ![k].prevChain = new.prevChain,
                 ![k].isBase = new.isBase]

\* updateDenom, first a denom ...
AddUpdateDenom ==
  /\ add.at = "run" /\ add.base = {} /\ DOMAIN add.list # {}
  /\ LET k == CHOOSE d \in DOMAIN add.list : TRUE
         old == add.list[k]
         new == TraceDenom(k.denom, k.chain, add.conf)
     IN  \E lost \in Lost({"denom"}) :
           /\ denoms' = IF lost # {} THEN denoms ELSE UpdateDenom(k, new)
           /\ add' = [add EXCEPT !.list = [d \in DOMAIN @ \ {k} |-> @[d]],
                                 !.base = {[key |-> k, old |-> old, new |-> new, lost |-> lost]}]
           /\ Spend(lost)
  /\ UNCHANGED <<tokens, sends, txs, sync, relate, settled, skipped>>

\* ... then the transfers that have the base it had.
HasBase(tx, d) == tx.base = d.baseDenom /\ tx.baseChain = d.baseChain
UpdateBaseDenomInfo(tx, u, lost) ==
  IF ~HasBase(tx, u.old) \/ HasBase(tx, u.new) THEN tx
  ELSE IF lost = {} THEN [tx EXCEPT !.base = u.new.baseDenom, !.baseChain = u.new.baseChain,
                                    !.sure = @ /\ u.lost = {}]
  ELSE [tx EXCEPT !.sure = FALSE]
AddUpdateBase ==
  /\ add.at = "run"
  /\ \E u \in add.base : \E lost \in Lost({"txs"}) :
       /\ txs' = [i \in Send |-> IF txs[i] = NoTx THEN NoTx ELSE UpdateBaseDenomInfo(txs[i], u, lost)]
       /\ settled' = settled \cup {k \in {u.key} : u.lost = {} /\ KnowsWay(Token(k), add.conf)}
       /\ Spend(lost)
  /\ add' = [add EXCEPT !.base = {}]
  /\ UNCHANGED <<tokens, sends, denoms, sync, relate, skipped>>

AddDone ==
  /\ add.at = "run" /\ add.chain = NoChain /\ DOMAIN add.list = {} /\ add.base = {}
  /\ add' = NoAdd
  /\ UNCHANGED <<tokens, sends, denoms, txs, sync, relate, settled, skipped, faults>>

----------------------------------------------------------------------------
(* What is promised of the denoms.                                         *)

\* A denom is that of a token of its chain; its base is a station on the way the
\* token came; its hops are those of its way; what is before it is the station
\* before; and once traced again with all channels the base is the origin.
LeadsHome(k) ==
  LET t == Token(k)
      d == denoms[k]
      At(n) == <<t.via[n], StationDenom(t, n)>>
  IN  /\ <<d.baseChain, d.baseDenom>> \in {At(n) : n \in DOMAIN t.via}
      /\ d.ibcHops = Len(t.via) - 1
      /\ d.prevChain # NoChain => Len(t.via) > 1 /\ <<d.prevChain, d.prevDenom>> = At(2)
      /\ d.isBase => <<d.baseChain, d.baseDenom>> = At(1)
      /\ k \in settled => <<d.baseChain, d.baseDenom>> = At(Len(t.via))

\* add_chain_task writes a denom, and the transfers with its base one step later.
\* Those that were moved along with another denom's wait for that one again.
BeingMoved(i) ==
  \/ \E u \in add.base : HasBase(txs[i], u.old)
  \/ \E k \in DOMAIN add.list : HasBase(txs[i], add.list[k])
\* Every registered denom is that of a token of its chain and leads towards where
\* the token came from; a transfer whose denom was traced with all channels known
\* has the token's origin as its base, unless it waits for a denom still to be traced
\* or a write of add_chain_task was lost; and what a settled transfer brought is
\* registered unless the relate task took it for one it knows, whatever sync, relate
\* and add_chain_task read before a chain was listed (TraceDenom, handleSourceTx,
\* updateDenom).
DenomsLeadHome ==
  /\ \A k \in DOMAIN denoms : k \in {TokenKey(t) : t \in tokens} /\ LeadsHome(k)
  /\ \A i \in {j \in Send : txs[j] # NoTx} :
       LET t == sends[i].token
           r == Arrived(t, sends[i].from)
       IN  /\ txs[i].sure /\ TokenKey(t) \in settled /\ ~BeingMoved(i) =>
                txs[i].baseChain = Origin(t) /\ txs[i].base = OriginDenom(t)
           /\ txs[i].status = "success" /\ ~IsCrossBack(t.path, sends[i].from[2]) =>
                TokenKey(r) \in DOMAIN denoms \cup skipped
=============================================================================

------------------------------- MODULE Tokens -------------------------------
(***************************************************************************)
(* How much of every token is where.                                       *)
(*   denom_heatmap_task copies the supply of every denom of every chain    *)
(*     from the chains' nodes to a cache, page by page, and notes the      *)
(*     supply and price of the tokens that are vouched for;                *)
(*   ibc_token_task copies what the escrow accounts of every chain hold    *)
(*     to another cache, and derives from both, and from ibc_denom,        *)
(*     ibc_token (a document per origin), ibc_token_trace (one per denom   *)
(*     of a token, with the amount that is on its chain and not passed on) *)
(*     and the figures of ibc_chain;                                       *)
(*   TokenDistribution (REST) shows a token's traces as a tree.            *)
(* The two tasks run on schedules of their own, while tokens move.         *)
(***************************************************************************)
EXTENDS Denoms

CONSTANTS Auth,      \* auth_denom: tokens that are vouched for
          PageSize   \* denoms on a page of supplies

Unknown == -1
Amount == Nat \cup {Unknown}
TokenDoc == [authed : BOOLEAN, priced : BOOLEAN, supply : Amount, amount : Amount, involved : Nat]
TraceDoc == [chain : Chain, denom : Denom, hops : Nat, type : {"genesis", "authed", "other"},
             supply : Amount, amount : Amount, value : Nat]
NewToken(k) == [authed |-> k \in Auth, priced |-> FALSE, supply |-> Unknown, amount |-> Unknown, involved |-> 1]

VARIABLES
  \* the chains
  supply,      \* of every token on its chain
  escrow,      \* what the escrow account of an end holds of it
  moving,      \* what is on its way
  moves,       \* moves still to come
  \* the caches and collections
  supplyCache, amountCache, priced, heatmap,
  tokenDocs,   \* ibc_token
  traces,      \* ibc_token_trace, by origin
  chainTokens, \* ibc_tokens and ibc_tokens_value of ibc_chain
  \* the tasks
  heat,        \* denom_heatmap_task: where it stands on every chain
  tok,         \* ibc_token_task
  \* history
  exact        \* origins whose traces were derived from what the chains had

tokenVars == <<supply, escrow, moving, moves, supplyCache, amountCache, priced, heatmap,
               tokenDocs, traces, chainTokens, heat, tok, exact>>
bank == <<supply, escrow, moving, moves>>

NoTok == [at |-> "idle", chains |-> {}, ends |-> {}, left |-> {},
          docs |-> [k \in {} |-> 0], new |-> {}, gone |-> {}]
NoCache == [d \in {} |-> 0]
Keys == {TokenKey(t) : t \in tokens}
DenomsOn(c) == {k.denom : k \in {x \in Keys : x.chain = c}}
EndsAt(c) == {e \in End : e[1] = c}
\* What the escrow accounts of its chain hold of a token
LockedIn(k, accounts) == SumOf([e \in EndsAt(k.chain) |-> accounts[e][k]])
Escrowed(k) == LockedIn(k, escrow)
\* What a token was before the last channel it came over, and at first.
Before(t) == [path |-> StationDenom(t, 2), via |-> SubSeq(t.via, 2, Len(t.via))]
OriginKey(t) == KeyOf(Origin(t), OriginDenom(t))
KeysFrom(origin, things) == {TokenKey(t) : t \in {x \in things : OriginKey(x) = TokenKey(origin)}}
\* The amount that is on its chain and not passed on.
Held(k) == supply[k] - Escrowed(k)

TokensTypeOK ==
  /\ DOMAIN supply \subseteq Keys /\ supply \in [DOMAIN supply -> Nat]
  /\ escrow \in [End -> [DOMAIN supply -> Nat]]
  /\ \A c \in Chain : /\ DOMAIN supplyCache[c] \subseteq DenomsOn(c)
                      /\ DOMAIN amountCache[c] \subseteq DenomsOn(c)
  /\ \A k \in DOMAIN tokenDocs : k \in Key /\ tokenDocs[k] \in TokenDoc
  /\ \A k \in DOMAIN traces : \A t \in traces[k] : t \in TraceDoc
  /\ priced \in BOOLEAN /\ exact \subseteq Key
  /\ \A c \in Chain : heat[c].at \in {"idle", "get", "set", "done"}
  /\ tok.at \in {"idle", "amounts", "traces", "write", "chains"}

TokensInit ==
  /\ moving = {} /\ supplyCache = [c \in Chain |-> NoCache] /\ amountCache = [c \in Chain |-> NoCache]
  /\ heatmap = [k \in {} |-> 0]
  /\ traces = [k \in {} |-> {}]
  /\ chainTokens = [c \in Chain |-> [count |-> 0, value |-> 0]]
  /\ heat = [c \in Chain |-> [at |-> "idle", page |-> NoCache, rest |-> {}]]
  /\ tok = NoTok /\ exact = {}

----------------------------------------------------------------------------
(* The chains: a unit goes over a channel to where its voucher exists.  It *)
(* is locked in the escrow account, or burnt where it came from over that  *)
(* channel; and minted, or taken out of the escrow account, at the other.  *)

Goes(t, e) == t \in tokens /\ e[1] = Head(t.via) /\ Works(e) /\ Arrived(t, e) \in tokens
Back(t, e) == IsCrossBack(t.path, e[2]) /\ Len(t.via) > 1

Leave(t, e) ==
  LET k == TokenKey(t)
  IN  /\ moves > 0 /\ moving = {} /\ Goes(t, e) /\ Held(k) > 0
      /\ IF Back(t, e) THEN supply' = [supply EXCEPT ![k] = @ - 1] /\ UNCHANGED escrow
         ELSE escrow' = [escrow EXCEPT ![e][k] = @ + 1] /\ UNCHANGED supply
      /\ moving' = {[token |-> t, end |-> e]} /\ moves' = moves - 1
  /\ UNCHANGED <<supplyCache, amountCache, priced, heatmap, tokenDocs, traces, chainTokens,
                 heat, tok, exact, faults>>

\* It arrives, or is given back.
Arrive(m) ==
  /\ m \in moving /\ moving' = {}
  /\ \/ LET k == TokenKey(Arrived(m.token, m.end))
        IN  IF Back(m.token, m.end)
            THEN escrow' = [escrow EXCEPT ![Peer[m.end]][k] = @ - 1] /\ UNCHANGED supply
            ELSE supply' = [supply EXCEPT ![k] = @ + 1] /\ UNCHANGED escrow
     \/ LET k == TokenKey(m.token)
        IN  IF Back(m.token, m.end) THEN supply' = [supply EXCEPT ![k] = @ + 1] /\ UNCHANGED escrow
            ELSE escrow' = [escrow EXCEPT ![m.end][k] = @ - 1] /\ UNCHANGED supply
  /\ UNCHANGED <<moves, supplyCache, amountCache, priced, heatmap, tokenDocs, traces, chainTokens,
                 heat, tok, exact, faults>>

----------------------------------------------------------------------------
(* denom_heatmap_task.                                                     *)

SupplyHandler ==
  [c \in Chain |-> [at |-> IF c \in Listed THEN "get" ELSE "done", page |-> NoCache, rest |-> DenomsOn(c)]]
HeatStart ==
  /\ \A c \in Chain : heat[c].at = "idle"
  /\ heat' = SupplyHandler
  /\ UNCHANGED <<bank, supplyCache, amountCache, priced, heatmap, tokenDocs, traces, chainTokens,
                 tok, exact, faults>>

\* DelSupply and BatchSetSupply, which adds to what is there
DelSupply(c) == [supplyCache EXCEPT ![c] = NoCache]
BatchSetSupply(c, page) ==
  [supplyCache EXCEPT ![c] = [d \in DOMAIN @ \cup DOMAIN page |-> IF d \in DOMAIN page THEN page[d] ELSE @[d]]]

\* getSupplyFromLcd: a page, and with the first one the old supplies are removed.
\* The pages after one that cannot be had are left out.
GetPage(c) ==
  /\ heat[c].at = "get"
  /\ LET first == heat[c].rest = DenomsOn(c)
         page == CHOOSE P \in SUBSET heat[c].rest :
                   \/ Cardinality(P) = PageSize
                   \/ P = heat[c].rest /\ Cardinality(P) < PageSize
     IN  \/ /\ heat' = [heat EXCEPT ![c] = [at |-> "set", rest |-> @.rest \ page,
                                            page |-> [d \in {x \in page : supply[KeyOf(c, x)] > 0} |->
                                                        supply[KeyOf(c, d)]]]]
            /\ supplyCache' = IF first THEN DelSupply(c) ELSE supplyCache
            /\ UNCHANGED faults
         \/ /\ faults > 0 /\ Spend({c})
            /\ heat' = [heat EXCEPT ![c].at = "done"] /\ UNCHANGED supplyCache
  /\ UNCHANGED <<bank, amountCache, priced, heatmap, tokenDocs, traces, chainTokens, tok, exact>>

SetPage(c) ==
  /\ heat[c].at = "set"
  /\ \E lost \in Lost({c}) :
       /\ supplyCache' = IF lost # {} THEN supplyCache ELSE BatchSetSupply(c, heat[c].page)
       /\ Spend(lost)
  /\ heat' = [heat EXCEPT ![c].at = IF heat[c].rest = {} THEN "done" ELSE "get"]
  /\ UNCHANGED <<bank, amountCache, priced, heatmap, tokenDocs, traces, chainTokens, tok, exact>>

GetSupply(k) == IF k.denom \in DOMAIN supplyCache[k.chain] THEN {supplyCache[k.chain][k.denom]} ELSE {}

\* Prices stay as they were if they cannot be had, or written.
CoinPriceHandler(lost) == priced' = (priced \/ lost = {})
AggrData ==
  /\ \A c \in Chain : heat[c].at = "done"
  /\ \E lost \in Lost({"price"}) :
       /\ CoinPriceHandler(lost)
       /\ Spend(lost)
  /\ heatmap' = [k \in Auth |-> [supply |-> IF GetSupply(k) = {} THEN 0
                                            ELSE CHOOSE x \in GetSupply(k) : TRUE,
                                 priced |-> priced']]
  /\ heat' = [c \in Chain |-> [at |-> "idle", page |-> NoCache, rest |-> {}]]
  /\ UNCHANGED <<bank, supplyCache, amountCache, tokenDocs, traces, chainTokens, tok, exact>>

----------------------------------------------------------------------------
(* ibc_token_task.                                                         *)

\* FindBaseDenom: the origins
FindBaseDenom == {KeyOf(d.chain, d.baseDenom) : d \in {denoms[x] : x \in {y \in DOMAIN denoms : denoms[y].isBase}}}

\* setTokenType, setTokenPrice and setDenomSupply of a token
WithSupply(k, doc, lost) ==
  [doc EXCEPT !.authed = k \in Auth, !.priced = @ \/ (k \in Auth /\ priced),
              !.supply = IF k.chain \in Listed /\ GetSupply(k) # {} /\ k \notin lost
                         THEN CHOOSE x \in GetSupply(k) : TRUE ELSE @]

\* analyzeChainConf and getAllToken.  Tokens that are none any more are among those
\* that exist, and among those to remove.
TokenRead ==
  /\ tok.at = "idle"
  /\ LET old == DOMAIN tokenDocs
         new == FindBaseDenom \ old
         Doc(k) == IF k \in new THEN NewToken(k) ELSE tokenDocs[k]
     IN  \E lost \in Lost(old \cup new) :
           /\ tok' = [at |-> "amounts", chains |-> Listed, left |-> Listed,
                      ends |-> UNION {{<<c, h>> : h \in DOMAIN conf[c]} : c \in Listed},
                      new |-> new, gone |-> old \ FindBaseDenom,
                      docs |-> [k \in old \cup new |-> WithSupply(k, Doc(k), lost)]]
           /\ Spend(lost)
  /\ UNCHANGED <<bank, supplyCache, amountCache, priced, heatmap, tokenDocs, traces, chainTokens,
                 heat, exact>>

\* getTransAmountFromLcd: the accounts of a chain, until one cannot be had.  What
\* is found replaces what was known of the chain, unless nothing is found.
GetTransAmount(c) ==
  /\ tok.at = "amounts" /\ c \in tok.left
  /\ LET mine == {e \in tok.ends : e[1] = c}
     IN  \E lost \in Lost({"account", "set"}) :
         \E got \in IF "account" \in lost THEN SUBSET mine \ {mine} ELSE {mine} :
           LET Total(d) == SumOf([e \in got |-> escrow[e][KeyOf(c, d)]])
               found == {d \in DenomsOn(c) : Total(d) > 0}
               new == IF "set" \in lost THEN NoCache ELSE [d \in found |-> Total(d)]
           IN  /\ amountCache' = IF found = {} THEN amountCache ELSE [amountCache EXCEPT ![c] = new]
               /\ Spend(lost)
  /\ tok' = [tok EXCEPT !.left = @ \ {c}]
  /\ UNCHANGED <<bank, supplyCache, priced, heatmap, tokenDocs, traces, chainTokens, heat, exact>>

GetTransferAmount(k) ==
  IF k.denom \in DOMAIN amountCache[k.chain] THEN amountCache[k.chain][k.denom] ELSE 0

\* ibcReceiveTxs: without the statistics of received transfers the run ends.
IbcReceiveTxsFail == faults > 0 /\ faults' = faults - 1 /\ tok' = NoTok
\* setIbcTransferAmount, once the accounts of all chains were asked for
SetTransferAmount ==
  /\ tok.at = "amounts" /\ tok.left = {}
  /\ \/ \E lost \in Lost(DOMAIN tok.docs) :
          /\ tok' = [tok EXCEPT !.at = "traces", !.left = DOMAIN tok.docs,
                                !.docs = [k \in DOMAIN @ |->
                                  IF k.chain \in tok.chains /\ k \notin lost
                                  THEN [@[k] EXCEPT !.amount = GetTransferAmount(k)] ELSE @[k]]]
          /\ Spend(lost)
     \/ IbcReceiveTxsFail
  /\ UNCHANGED <<bank, supplyCache, amountCache, priced, heatmap, tokenDocs, traces, chainTokens,
                 heat, exact>>

\* ibcDenomAmountGenesis, ibcDenomSupply and ibcDenomAmount.  A supply that is not
\* in the cache is none; an amount that cannot be had is taken for none.
Less(all, passed) == IF all >= passed THEN all - passed ELSE Unknown
\* Mutant: an unknown supply or amount goes into the sum.
IbcDenomAmountGenesisRaw(doc) == doc.supply - doc.amount
IbcDenomAmountGenesis(doc) == IF Unknown \in {doc.supply, doc.amount} THEN Unknown ELSE Less(doc.supply, doc.amount)
IbcDenomSupply(k, lost) ==
  IF <<"supply", k>> \in lost THEN Unknown
  ELSE IF GetSupply(k) = {} THEN 0 ELSE CHOOSE x \in GetSupply(k) : TRUE
IbcDenomAmount(k, all, lost) == Less(all, IF <<"amount", k>> \in lost THEN 0 ELSE GetTransferAmount(k))

\* ibcTokenStatisticsType looks at the denom only, not at its chain.
IsGenesis(base, k) == k.denom = base.denom
Trace(base, k, lost) ==
  LET doc == tok.docs[base]
      all == IF IsGenesis(base, k) THEN doc.supply ELSE IbcDenomSupply(k, lost)
      amount == IF IsGenesis(base, k) THEN IbcDenomAmountGenesis(doc) ELSE IbcDenomAmount(k, all, lost)
  IN  [chain |-> k.chain, denom |-> k.denom, hops |-> denoms[k].ibcHops,
       type |-> IF IsGenesis(base, k) THEN "genesis" ELSE IF base \in Auth THEN "authed" ELSE "other",
       supply |-> all, amount |-> amount,
       value |-> IF amount = Unknown \/ ~doc.priced THEN 0 ELSE amount]

\* What the traces of an origin are derived from is what the chains have.
Exact(base) ==
  /\ moving = {}
  /\ \A k \in Keys : /\ GetSupply(k) = {supply[k]} \ {0}
                     /\ GetTransferAmount(k) = Escrowed(k)
  /\ base \in {OriginKey(t) : t \in tokens}
  /\ tok.docs[base].supply = supply[base] /\ tok.docs[base].amount = Escrowed(base)
  /\ \A t \in tokens : OriginKey(t) = base /\ Held(TokenKey(t)) > 0 =>
       /\ TokenKey(t) \in DOMAIN denoms
       /\ KeyOf(denoms[TokenKey(t)].baseChain, denoms[TokenKey(t)].baseDenom) = base

FindByBaseDenom(base) == {k \in DOMAIN denoms : KeyOf(denoms[k].baseChain, denoms[k].baseDenom) = base}
\* DelByBaseDenom and BatchSwap: what is left of the traces of an origin
DelByBaseDenom(base) == IF base \in tok.gone \/ base \notin DOMAIN traces THEN {} ELSE traces[base]
BatchSwap(base, fresh, lost) ==
  IF lost \cap ({"find", "swap"} \X {base}) # {} THEN DelByBaseDenom(base) ELSE fresh

\* calculateTokenStatistics notes the chains of the traces, unless they were not
\* written; denoms that cannot be read are none.
ChainsInvolved(base, old, fresh, lost) ==
  IF <<"swap", base>> \in lost THEN old
  ELSE IF <<"find", base>> \in lost THEN 0 ELSE Cardinality({t.chain : t \in fresh})

\* ibcTokenStatistics of a token, after ibcTokenTraceRemove of one that is gone
TraceToken(base) ==
  /\ tok.at = "traces" /\ base \in tok.left
  /\ LET of == FindByBaseDenom(base)
     IN  \E lost \in Lost(({"find", "swap"} \X {base}) \cup ({"supply", "amount"} \X of)) :
           LET fresh == {t \in {Trace(base, k, lost) : k \in of} : t.supply # 0}
           IN  /\ traces' = [k \in DOMAIN traces \cup {base} |->
                               IF k # base THEN traces[k] ELSE BatchSwap(base, fresh, lost)]
               /\ tok' = [tok EXCEPT !.left = @ \ {base},
                                     !.docs[base].involved = ChainsInvolved(base, @, fresh, lost)]
               /\ exact' = (exact \ {base}) \cup {k \in {base} : lost = {} /\ Exact(k)}
               /\ Spend(lost)
  /\ UNCHANGED <<bank, supplyCache, amountCache, priced, heatmap, tokenDocs, chainTokens, heat>>

\* What InsertBatch, Delete and UpdateToken leave in ibc_token
InsertTokens(lost) == IF <<"insert", NoChain>> \in lost THEN {} ELSE tok.new
DeleteTokens(lost) == DOMAIN tokenDocs \ {g \in tok.gone : <<"delete", g>> \notin lost}
UpdateToken(k, lost) == IF <<"update", k>> \in lost THEN tokenDocs[k] ELSE tok.docs[k]

WriteTokens ==
  /\ tok.at = "traces" /\ tok.left = {}
  /\ \E lost \in Lost(({"insert"} \X {NoChain}) \cup ({"delete"} \X tok.gone)
                         \cup ({"update"} \X DOMAIN tokenDocs)) :
       /\ tokenDocs' = [k \in InsertTokens(lost) \cup DeleteTokens(lost) |-> UpdateToken(k, lost)]
       /\ Spend(lost)
  /\ tok' = [NoTok EXCEPT !.at = "chains"]
  /\ UNCHANGED <<bank, supplyCache, amountCache, priced, heatmap, traces, chainTokens, heat, exact>>

\* AggregateIBCChain: a chain's tokens of other origin
AggregateIBCChain(c) ==
  {x \in UNION {{[base |-> b, trace |-> t] : t \in traces[b]} : b \in DOMAIN traces} :
     x.trace.chain = c /\ x.trace.type # "genesis"}
UpdateIbcTokenValue(of) ==
  [count |-> Cardinality(of), value |-> SumOf([x \in of |-> x.trace.value])]
\* updateIBCChain: a chain that has none keeps its figures.
UpdateIBCChain ==
  /\ tok.at = "chains"
  /\ \E lost \in Lost({"chains"}) :
       /\ chainTokens' = [c \in Chain |-> IF AggregateIBCChain(c) = {} \/ lost # {} THEN chainTokens[c]
                                          ELSE UpdateIbcTokenValue(AggregateIBCChain(c))]
       /\ Spend(lost)
  /\ tok' = NoTok
  /\ UNCHANGED <<bank, supplyCache, amountCache, priced, heatmap, tokenDocs, traces, heat, exact>>

----------------------------------------------------------------------------
(* TokenDistribution: the tree of a token's traces.                        *)

Positive(t) == t.supply \notin {0, Unknown}
PrevOf(t) ==
  LET k == KeyOf(t.chain, t.denom)
  IN  IF k \in DOMAIN denoms THEN KeyOf(denoms[k].prevChain, denoms[k].prevDenom) ELSE NoChain
GenesisOf(base) == {t \in traces[base] : t.chain = base.chain /\ t.denom = base.denom}

\* findChildrens: the denoms one hop on that came from a denom of the level.
FindChildrens(base, level) ==
  {t \in traces[base] : \E p \in level : /\ Positive(p) /\ t.hops = p.hops + 1
                                         /\ PrevOf(t) = KeyOf(p.chain, p.denom)}
Used(base) ==
  LET depth == Cardinality(traces[base])
      level[n \in 1 .. depth] == IF n = 1 THEN {t \in traces[base] : t.hops = 1}
                                 ELSE FindChildrens(base, level[n - 1])
  IN  UNION {level[n] : n \in 1 .. depth}
\* Mutant: only what is missing behind a direct successor.
JumpedFar(base) == {t \in traces[base] \ Used(base) : t.hops > 2 /\ Positive(t)}
\* fillJumpHopsElem: the rest, by way of nodes without an amount.
Jumped(base) == {t \in traces[base] \ Used(base) : t.hops > 1 /\ Positive(t)}

TokenDistribution(base) == GenesisOf(base) \cup Used(base) \cup Jumped(base)

\* The amounts in the tree that TokenDistribution shows add up to the supply of the
\* origin: no trace is shown twice or left out, though traces between it and the
\* origin may be missing or empty.  This is of trees whose traces were derived from
\* what the chains had (ibcTokenStatistics, findChildrens, fillJumpHopsElem).
GraphAddsUp ==
  \A base \in exact :
    LET amounts == SumOf([t \in TokenDistribution(base) |-> t.amount])
    IN  \A g \in GenesisOf(base) : amounts = g.supply
=============================================================================

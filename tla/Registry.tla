------------------------------ MODULE Registry ------------------------------
(***************************************************************************)
(* What the explorer knows of chains, channels and tokens, composed: the   *)
(* channels of the chains (ChainChannels), the denoms found on the way of  *)
(* transfers (Denoms), and the amounts of tokens (Tokens).  They share     *)
(* chain_config, from which traces and escrow accounts follow, and         *)
(* ibc_denom.  A first state says which of the three is looked at; the     *)
(* steps of the others are left out of its behaviours, except that         *)
(* configuration goes on when chains are listed for the denoms.            *)
(***************************************************************************)
EXTENDS Tokens

CONSTANT Cases   \* what to look at, first states, and bounds: moves and faults

\* Tokens came the way their paths say.  What is configured are channels between
\* listed chains, and the denoms that are known were traced with that.
ASSUME RegistryAssumption ==
  \A c \in Cases :
    /\ \A t \in c.tokens : FollowsPath(t)
    /\ DOMAIN c.conf \subseteq Chain
    /\ \A k \in DOMAIN c.conf : \A h \in DOMAIN c.conf[k] :
         LET e == <<k, h>>
         IN  /\ e \in End /\ Peer[e][1] \in DOMAIN c.conf /\ c.ends[e] # "none"
             /\ c.conf[k][h].chain = Peer[e][1] /\ c.conf[k][h].other \in {NoHop, Peer[e][2]}
    /\ \A k \in DOMAIN c.denoms : /\ k \in {TokenKey(t) : t \in c.tokens}
                                  /\ c.denoms[k] = TraceDenom(k.denom, k.chain, c.conf)

\* Amounts of tokens are looked at from when nothing is on its way: escrow accounts
\* hold what was passed on, vouchers are covered by what is locked where they came
\* from, and what is held of a token anywhere adds up to its supply at the origin.
AddsUp(things, amount, accounts) ==
  LET keys == {TokenKey(t) : t \in things}
      held == [k \in keys |-> amount[k] - LockedIn(k, accounts)]
  IN  /\ amount \in [keys -> Nat] /\ accounts \in [End -> [keys -> Nat]] /\ held \in [keys -> Nat]
      /\ \A t \in things :
           IF Len(t.via) = 1 THEN SumOf([k \in KeysFrom(t, things) |-> held[k]]) = amount[TokenKey(t)]
           ELSE Before(t) \in things =>
                  accounts[Peer[Leg(t, 1)]][TokenKey(Before(t))] = amount[TokenKey(t)]

ASSUME AmountsAssumption ==
  /\ IsFiniteSet(End)
  /\ \A c \in Cases : c.focus = "tokens" =>
       IsFiniteSet(c.tokens) /\ AddsUp(c.tokens, c.supply, c.escrow)

\* First states are of the shape the tasks and the chains write; what is known of
\* when channels opened is of the past.
ASSUME ShapesAssumption ==
  /\ PageSize \in Nat
  /\ \A c \in Cases :
       /\ c.focus \in {"channels", "denoms", "tokens"} /\ c.faults \in Nat
       /\ c.ends \in [End -> PathState] /\ c.stat \in [End -> Nat] /\ c.steps \in Nat
       /\ c.now \in 1 .. MaxTime /\ \A i \in DOMAIN OpenAt : OpenAt[i] \in 1 .. c.now
       /\ \A k \in DOMAIN c.conf : \A h \in DOMAIN c.conf[k] : c.conf[k][h] \in ChannelPath
       /\ DOMAIN c.supply \subseteq {TokenKey(t) : t \in c.tokens}
       /\ c.supply \in [DOMAIN c.supply -> Nat] /\ c.escrow \in [End -> [DOMAIN c.supply -> Nat]]
       /\ c.priced \in BOOLEAN /\ c.known \subseteq Key

VARIABLE focus

vars == <<focus, channelVars, denomVars, tokenVars, faults>>

\* What is stored of channels, denoms and tokens is of the shape the tasks write:
\* no amount is negative, and an unknown one is marked (ibcDenomAmountGenesis).
TypeOK ==
  /\ focus \in {"channels", "denoms", "tokens"} /\ faults \in Nat
  /\ ChannelsTypeOK /\ DenomsTypeOK /\ TokensTypeOK

Init ==
  /\ \E c \in Cases : /\ focus = c.focus /\ faults = c.faults
                      /\ ends = c.ends /\ conf = c.conf
                      /\ stat = c.stat /\ now = c.now /\ steps = c.steps
                      /\ tokens = c.tokens /\ denoms = c.denoms
                      /\ supply = c.supply /\ escrow = c.escrow /\ moves = c.moves
                      /\ priced = c.priced
                      /\ tokenDocs = [k \in c.known |-> NewToken(k)]
  /\ ChannelsInit /\ DenomsInit /\ TokensInit

\* The goroutines of a run and its writes are taken in one order: a channel may be
\* opened from either end.  A run that would change nothing is left out.
InTurn(c) == \A d \in cfgLeft : Rank[c] <= Rank[d]

ConfigTask ==
  \/ (focus = "channels" \/ ~Configured) /\ ConfigStart
  \/ \E c \in Chain : InTurn(c) /\ (Fetch(c) \/ UpdateChain(c))
  \/ ConfigMatch \/ ConfigDone
ChannelTask == AnalyzeChannels \/ WriteChannels

Chains ==
  \/ \E e \in End : Handshake(e) \/ Transfer(e)
  \/ Tick
  \/ ChainTask \/ ChannelTask

DenomTasks ==
  \/ \E t \in tokens, e \in End : SendToken(t, e)
  \/ \E c \in Chain : SyncRead(c) \/ RelateRead(c) \/ AddRead(c)
  \/ SyncWrite \/ RelateWrite
  \/ AddUpdateTxs \/ AddUpdateDenom \/ AddUpdateBase \/ AddDone

TokenTasks ==
  \/ \E t \in tokens, e \in End : Leave(t, e)
  \/ \E m \in moving : Arrive(m)
  \/ HeatStart \/ AggrData
  \/ \E c \in Chain : GetPage(c) \/ SetPage(c) \/ GetTransAmount(c)
  \/ TokenRead \/ SetTransferAmount \/ WriteTokens \/ UpdateIBCChain
  \/ \E k \in DOMAIN tok.docs : TraceToken(k)

ConfigRuns == (ConfigTask \/ \E c \in Chain : ListChain(c)) /\ UNCHANGED <<denomVars, tokenVars>>

Next ==
  /\ UNCHANGED focus
  /\ \/ focus \in {"channels", "denoms"} /\ ConfigRuns
     \/ focus = "channels" /\ Chains /\ UNCHANGED <<denomVars, tokenVars>>
     \/ focus = "denoms" /\ DenomTasks /\ UNCHANGED <<channelVars, tokenVars>>
     \/ focus = "tokens" /\ TokenTasks /\ UNCHANGED <<channelVars, denomVars>>

Spec == Init /\ [][Next]_vars

\* The tasks run again and again under their locks.
FairSpec ==
  /\ Spec
  /\ WF_vars(focus = "channels" /\ ConfigTask /\ UNCHANGED <<focus, denomVars, tokenVars>>)
  /\ WF_vars(focus = "channels" /\ ChainTask /\ UNCHANGED <<focus, denomVars, tokenVars>>)
  /\ WF_vars(focus = "channels" /\ ChannelTask /\ UNCHANGED <<focus, denomVars, tokenVars>>)

----------------------------------------------------------------------------
\* Every chain's channels fit on a page of its node's answer.
PagesFit == \A c \in Listed : Cardinality(EndsOf(c)) < Limit

\* Once nothing opens, closes or is listed any more, what ibc_channel and ibc_chain
\* show becomes and stays what the chains have: one document per channel, opened
\* only if both its ends are, with its opening time, its packets on their way and
\* its transfers; and the channels, neighbours and transfers of every chain.  The
\* three tasks read each other's results at any moment, answers of nodes and writes
\* are lost, and the counterparty's state is another chain's answer
\* (setCounterpartyState, getAllChannel, createChainData).
RegistrySettles == <>[](focus = "channels" /\ PagesFit => ChannelsShown /\ ChainsShown)
=============================================================================

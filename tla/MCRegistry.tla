----------------------------- MODULE MCRegistry -----------------------------
(* Three chains in a row.  The hub's first channel and the second's first    *)
(* have the same name, and so have the second's and the third's.             *)
EXTENDS Registry, TLC

MCChain == {"cosmoshub", "irishub", "osmosis"}
MCHop == {"c0", "c1"}
MCRoot == {"x", "y"}
MCRank == [cosmoshub |-> 1, irishub |-> 2, osmosis |-> 3]
H0 == <<"cosmoshub", "c0">>
I0 == <<"irishub", "c0">>
I1 == <<"irishub", "c1">>
O0 == <<"osmosis", "c0">>
MCPeer == (H0 :> I0 @@ I0 :> H0 @@ I1 :> O0 @@ O0 :> I1)
MCOpenAt == [i \in {<<I1, O0>>} |-> 1]
MCCommits == [e \in End |-> IF e \in {H0, O0} THEN 1 ELSE 0]

AllOpen == [e \in End |-> "open"]
\* The configuration of listed chains when the task has run.
Conf(C, state) ==
  [c \in C |-> [h \in {e[2] : e \in {x \in End : x[1] = c /\ Peer[x][1] \in C /\ state[x] # "none"}} |->
                  LET e == <<c, h>>
                  IN  [state |-> state[e], chain |-> Peer[e][1], client |-> TRUE,
                       other |-> Peer[e][2], otherState |-> state[Peer[e]]]]]
MCAuth == {KeyOf("cosmoshub", FullPath(<<>>, "x"))}
NoBank == [k \in {} |-> 0]

\* A native token of the hub and what it is called further on.
X == Native("cosmoshub", "x")
XI == Arrived(X, H0)
XO == Arrived(XI, I1)
Y == Native("osmosis", "y")

Case == [focus |-> "channels", faults |-> 0, ends |-> AllOpen, now |-> MaxTime, steps |-> 0,
         stat |-> [e \in End |-> IF e \in {H0, I0} THEN MaxTxs ELSE 0], conf |-> Conf({"cosmoshub", "irishub"}, AllOpen),
         tokens |-> {}, denoms |-> [k \in {} |-> 0],
         supply |-> NoBank, escrow |-> [e \in End |-> NoBank], moves |-> 0, priced |-> TRUE,
         known |-> {}]
\* One channel in some state; the other is closed, and no longer moves.
Only(e1, state) == [e \in End |-> IF e \in {e1, Peer[e1]} THEN state ELSE "closed"]
Begin == [Case EXCEPT !.ends = Only(H0, "none"), !.conf = Conf(Chain, Only(H0, "none")),
                      !.steps = 1, !.now = 1, !.stat = [e \in End |-> 0]]
Begun == [Begin EXCEPT !.ends[H0] = "init", !.now = MaxTime]
One == [Begun EXCEPT !.ends[I0] = "tryopen", !.steps = 2]
Two == [Case EXCEPT !.ends = Only(H0, "open"), !.conf = Conf({"cosmoshub", "osmosis"}, AllOpen),
                    !.faults = 1]
Three == [Case EXCEPT !.ends = Only(O0, "open"), !.conf = Conf({"cosmoshub", "irishub"}, Only(O0, "open")),
                      !.steps = 1]
\* Open since it was last looked at; of one chain that was not written.
Opened == [Case EXCEPT !.ends = Only(H0, "open"),
                       !.conf = [Conf({"cosmoshub", "irishub"}, Only(H0, "open"))
                                   EXCEPT !["cosmoshub"]["c0"].otherState = "tryopen"]]
ChannelCases == {Opened, Begin, Begun, One, Two, Three}
\* Transfers of some tokens, and the chains that are listed already.
Transfers(C, things, lost) ==
  [Case EXCEPT !.focus = "denoms", !.conf = Conf(C, AllOpen), !.tokens = things, !.faults = lost]
LastListed == Transfers({"cosmoshub", "irishub"}, {X}, 0)
OneListed == Transfers({"osmosis"}, {XO}, 0)
AllListed == Transfers(Chain, {X, Y}, 1)
DenomCases == {LastListed, OneListed, AllListed}

\* Amounts of tokens, all registered or not, that moved on from where they are.
K(t) == TokenKey(t)
Amounts(things, known, amount, passed, more, lost) ==
  [Case EXCEPT !.focus = "tokens", !.conf = Conf(Chain, AllOpen), !.tokens = things,
     !.denoms = [k \in {K(t) : t \in known} |-> TraceDenom(k.denom, k.chain, Conf(Chain, AllOpen))],
     !.supply = [k \in {K(t) : t \in things} |-> amount[k]],
     !.escrow = [e \in End |-> [k \in {K(t) : t \in things} |->
                   IF e \in DOMAIN passed /\ passed[e].key = k THEN passed[e].amount ELSE 0]],
     !.moves = more, !.faults = lost]
Passed(k, n) == [key |-> k, amount |-> n]
Moving == Amounts({X, XI}, {X, XI}, (K(X) :> 2 @@ K(XI) :> 1), (H0 :> Passed(K(X), 1)), 1, 0)
Losing == Amounts({X, XI}, {X, XI}, (K(X) :> 2 @@ K(XI) :> 1), (H0 :> Passed(K(X), 1)), 0, 1)
Hidden == Amounts({X, XI, XO}, {X, XO}, (K(X) :> 2 @@ K(XI) :> 1 @@ K(XO) :> 1),
                  (H0 :> Passed(K(X), 1) @@ I1 :> Passed(K(XI), 1)), 0, 0)
ThreeHops == Amounts({X, XI, XO}, {X, XI, XO}, (K(X) :> 3 @@ K(XI) :> 2 @@ K(XO) :> 1),
                  (H0 :> Passed(K(X), 2) @@ I1 :> Passed(K(XI), 1)), 0, 0)
Z == Native("cosmoshub", "y")
Pages == [Amounts({X, Z}, {X, Z}, (K(X) :> 1 @@ K(Z) :> 1), [e \in {} |-> 0], 0, 1)
          EXCEPT !.conf = Conf({"cosmoshub"}, AllOpen), !.known = {K(XI)}]
TokenCases == {Moving, Losing, Pages, Hidden, ThreeHops}

MCCases == ChannelCases \cup DenomCases \cup TokenCases
=============================================================================

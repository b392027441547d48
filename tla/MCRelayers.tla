----------------------------- MODULE MCRelayers -----------------------------
(* One operator with an address on each of two chains, another with one on    *)
(* the second, all on one channel; and a third chain without relayers.  First *)
(* states: nothing seen yet, with a fault; the registry lists the pairs of    *)
(* both operators, or of one with a fault; a database without addresses but   *)
(* with a team; two relayers of which the times are refreshed, or one that    *)
(* has all addresses, each with a fault; the figures refreshed, with nothing  *)
(* seen yet, or of two relayers with a fault.                                 *)
EXTENDS Relayers

MCChain == {"cosmoshub", "irishub", "osmosis"}
MCAddress == {"c1", "i1", "i2"}
MCChainOf == [c1 |-> "cosmoshub", i1 |-> "irishub", i2 |-> "irishub"]
MCRank == [cosmoshub |-> 1, irishub |-> 2, osmosis |-> 3]
MCKeyOf == [c1 |-> "k1", i1 |-> "k1", i2 |-> "k2"]
MCUse == {[addr |-> "c1", channel |-> "c", other |-> "i"],
          [addr |-> "i1", channel |-> "i", other |-> "c"],
          [addr |-> "i2", channel |-> "i", other |-> "c"]}

AllGathered == [x \in Address |-> [status |-> IF x = "i2" THEN "registry" ELSE "pubkey", key |-> TRUE]]
Both(x, y) == [a |-> x, chA |-> "c", b |-> y, chB |-> "i"]
OneOfBoth == NewRelayer(TRUE, {Both("c1", "i1"), Both("c1", "i2")}, 2)
Team1 == NewRelayer(TRUE, {Both("c1", "i2")}, 2)
Two == [r \in Id |-> CASE r = 1 -> NewRelayer(FALSE, {Both("c1", "i1")}, 2)
                      [] r = 2 -> Team1
                      [] OTHER -> NoRelayer]
Case == [focus |-> "lists", relayed |-> {}, uses |-> {}, relayer |-> NoPage, address |-> Nothing.address,
         files |-> {}, inits |-> 0, faults |-> 0]
MCCases ==
  {[Case EXCEPT !.faults = 1],
   [Case EXCEPT !.relayed = Use, !.uses = Use, !.files = {{<<"c1", "i1">>}, {<<"c1", "i2">>}}],
   [Case EXCEPT !.relayed = Use, !.uses = Use, !.files = {{<<"c1", "i1">>}}, !.faults = 1],
   [Case EXCEPT !.relayed = Use, !.uses = Use, !.inits = 1,
                !.relayer = [NoPage EXCEPT ![1] = Team1]],
   [Case EXCEPT !.focus = "times", !.relayed = Use, !.uses = Use, !.relayer = Two,
                !.address = AllGathered, !.faults = 1],
   [Case EXCEPT !.focus = "times", !.relayed = Use, !.uses = Use, !.address = AllGathered,
                !.relayer = [NoPage EXCEPT ![1] = OneOfBoth], !.faults = 1],
   [Case EXCEPT !.focus = "figures"],
   [Case EXCEPT !.focus = "figures", !.relayed = Use, !.uses = Use, !.relayer = Two,
                !.address = AllGathered, !.faults = 1]}
=============================================================================

------------------------------ MODULE MCIbcTx ------------------------------
(* One transfer to a chain that is added on its way, under all the tasks;   *)
(* and two transfers in one page, of different fates or copies of one.      *)
EXTENDS IbcTx, TLC

CONSTANTS d1, d2, k1, k2, latest1, latest2, history1, osmo, juno, atom, usdc

MCDenomOf == (d1 :> [chain |-> osmo, hash |-> atom]) @@ (d2 :> [chain |-> juno, hash |-> usdc])

MCOne == {d1}
MCOneKey == d1 :> k1
MCOneOutcome == k1 :> "ok"
MCRelate == {latest1, latest2, history1}
MCSymmetry == Permutations({latest1, latest2})
MCTarget == (latest1 :> "latest") @@ (latest2 :> "latest") @@ (history1 :> "history")

MCTwo == {d1, d2}
MCTwoKeys == (d1 :> k1) @@ (d2 :> k2)
MCTwoOutcomes == (k1 :> "ok") @@ (k2 :> "timeout")
MCTwoRelate == {latest1}
MCTwoTarget == latest1 :> "latest"

MCCopies == (d1 :> k1) @@ (d2 :> k1)
MCCopiesOutcome == k1 :> "error"
MCBoth == {latest1, history1}
MCBothTarget == (latest1 :> "latest") @@ (history1 :> "history")

=============================================================================

--------------------------- MODULE MCTransferSync ---------------------------
(* Four transfers in three blocks, the middle one holding two: a full page  *)
(* ends inside it.  One of them is to an unknown chain.                     *)
EXTENDS TransferSync, TLC

CONSTANTS r1, r2, t1, t2, t3, t4, atom, osmo

MCRun == {r1, r2}
MCSymmetry == Permutations(MCRun)
MCTx == {t1, t2, t3, t4}
MCHeightOf == (t1 :> 1) @@ (t2 :> 2) @@ (t3 :> 2) @@ (t4 :> 3)
MCDenomOf == (t1 :> osmo) @@ (t2 :> atom) @@ (t3 :> osmo) @@ (t4 :> atom)

\* Without the last block.
MCTxOfTwoBlocks == {t1, t2, t3}
MCHeightOfTwoBlocks == [t \in MCTxOfTwoBlocks |-> MCHeightOf[t]]

MCUnregistered == {t1}

=============================================================================

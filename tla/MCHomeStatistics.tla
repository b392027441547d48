-------------------------- MODULE MCHomeStatistics --------------------------
(* Two transfers over one channel in opposite directions, one of which fails *)
(* or is refunded.                                                           *)
EXTENDS HomeStatistics

CONSTANTS d1, d2

MCTxTime == (d1 :> 2) @@ (d2 :> 1)
cosmos == [chain |-> "cosmos", channel |-> "channel-0"]
iris == [chain |-> "iris", channel |-> "channel-7"]
MCPathOf == (d1 :> [sc |-> cosmos, dc |-> iris]) @@ (d2 :> [sc |-> iris, dc |-> cosmos])
Settled == (d1 :> <<"Processing", "Success">>) @@ (d2 :> <<"Failed">>)
Done == (d1 :> <<"Success">>) @@ (d2 :> <<"Failed">>)
Back == (d1 :> <<"Processing", "Success">>) @@ (d2 :> <<"Processing", "Refunded">>)
NewChain == (d1 :> <<"Setting", "Processing", "Success">>) @@ (d2 :> <<"Failed">>)

MCQueries == {<<>>, <<"cosmos">>, <<"iris", "allchain">>, <<"cosmos", "iris">>}

\* A manual run beside the cron's, or a fault.
Case(f, l, m, n) == [focus |-> {f}, life |-> l, manuals |-> m, faults |-> n]
MCCases ==
  {Case("tx_all", Done, 0, 1)}
    \cup {Case("tx_failed", Done, 1, 0), Case("tx_success", Settled, 1, 0)}
    \cup {Case("tx_latest_all", NewChain, 1, 1), Case("tx_24hr_all", Settled, 1, 0)}
    \cup {Case(f, Back, 0, 1) : f \in {"channels_24hr", "chains_24hr"}}
    \cup {Case(f, NewChain, 0, 1) : f \in {"pages", "detail"}}

=============================================================================

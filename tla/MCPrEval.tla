-------------------------------- MODULE MCPrEval --------------------------------
(* A small evaluation for TLC: two cases, three runs; a worker that survives *)
(* its supervisor is the second one at work.                                *)
EXTENDS PrEval
CONSTANTS c1, c2, a, b
BothCases == <<c1, c2>>
\* Only whether runs have the same options matters; a third one finds what a
\* worker of the first wrote into the results of the second, or writes into its own.
CommandsOf(r) ==
    CASE r = 1 -> {<<"supervised", a>>}
      [] r = 2 -> {<<"sequential", b>>}
      [] OTHER -> {<<"supervised", a>>}
=============================================================================

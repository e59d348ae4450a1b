------------------------------ MODULE MCGateRetry ------------------------------
EXTENDS GateRetry, TLC
CONSTANTS r0, c1, c2, c3, d1, k1, k2
MCAnc == (r0 :> {r0}) @@ (c1 :> {r0, c1}) @@ (c2 :> {r0, c1, c2}) @@ (d1 :> {r0, d1})
MCTouches == (r0 :> {r0}) @@ (c1 :> {c1}) @@ (c2 :> {c1, c2}) @@ (d1 :> {d1})
MCErases == (r0 :> {}) @@ (c1 :> {}) @@ (c2 :> {}) @@ (d1 :> {})
MCSeverity == (r0 :> 0) @@ (c1 :> 1) @@ (c2 :> 0) @@ (d1 :> 0)

ChainAnc == (r0 :> {r0}) @@ (c1 :> {r0, c1}) @@ (c2 :> {r0, c1, c2}) @@ (c3 :> {r0, c1, c2, c3})
ChainTouches == (r0 :> {r0}) @@ (c1 :> {c1}) @@ (c2 :> {c2}) @@ (c3 :> {c1, c2, c3})
ChainErases == (r0 :> {}) @@ (c1 :> {}) @@ (c2 :> {}) @@ (c3 :> {c1})
ChainSeverity == (r0 :> 0) @@ (c1 :> 1) @@ (c2 :> 0) @@ (c3 :> 0)
================================================================================

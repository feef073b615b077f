------------------------- MODULE MCMetricRepository --------------------------
(* MetricRepository: the configuration at d needs no group, the one at c   *)
(* needs g.                                                                *)
EXTENDS MetricRepository, TLC

CONSTANTS d, c, g, h

MCArrays == {<<g>>, <<h, g>>}
MCNeeds == (d :> {}) @@ (c :> {g})
=============================================================================

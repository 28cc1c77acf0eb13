----------------------------- MODULE MCPipeline -----------------------------
(* A run_async batch `a` of one item, a run_sync batch `b` of one and a spec
   document job `d` on one runtime; any two of them are called.              *)
EXTENDS Pipeline, TLC

CONSTANTS a, b, d

MCBatches == {a, b, d}
MCSync == {b}
MCDirect == {d}
MCSize == a :> 1 @@ b :> 1 @@ d :> 1
=============================================================================

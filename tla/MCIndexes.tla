----------------------------- MODULE MCIndexes ------------------------------
(* Indexes with three TDocs in batches of two, the last still to be uploaded (for
   the text index one of them is a presentation), and three versions of
   specifications, whose columns and cursor texts are in the same order.       *)
EXTENDS Indexes, TLC

MCPairs == 1 .. 3
MCKey == [p \in MCPairs |-> p]
Symmetry == Permutations(Models)
=============================================================================

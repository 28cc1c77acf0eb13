---------------------------- MODULE MCSpecIndex ----------------------------
EXTENDS SpecIndex
MCPairs == 1..3
\* Both orders agree, unless the name of one specification continues that of
\* another: 29.198-04-1@v comes before 29.198-04@v, the columns order them
\* the other way.
CrossedKey == [p \in MCPairs |-> CASE p = 1 -> 2 [] p = 2 -> 1 [] OTHER -> p]
=============================================================================

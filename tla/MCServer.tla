------------------------------ MODULE MCServer ------------------------------
(* A server for the model checker: two jobs, one of which ignores a cancel at its end,
   in two processes whose writes may fail; lists of three rows on pages of at most two;
   a TDoc of one URL, extracted twice, or once and moved or evicted; a window of two
   chunks that can grow to three of four; two jobs of at most two items.        *)
EXTENDS Server

CONSTANTS j1, j2, w1, w2

MCJobs == {j1, j2}
MCCooperative == {j1}
MCWorkers == {w1, w2}
=============================================================================

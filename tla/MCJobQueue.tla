----------------------------- MODULE MCJobQueue -----------------------------
(* Three jobs in one process; one may ignore a cancel at its end.  Two processes
   are in MCServer.                                                            *)
EXTENDS JobQueue

CONSTANTS j1, j2, j3, w1

MCJobs == {j1, j2, j3}
MCCooperative == {j1, j2}
MCWorkers == {w1}
=============================================================================

---------------------------- MODULE MCJobEvents -----------------------------
(* One job, one or two clients that may reconnect, a queue of two frames. *)
EXTENDS JobEvents

CONSTANTS c1, c2

MCOneClient == {c1}
MCTwoClients == {c1, c2}
=============================================================================

---------------------------- MODULE MCConvertPool -----------------------------
(* Two callers on a pool of two workers; one has a member more than the window
   of four. *)
EXTENDS ConvertPool, TLC

CONSTANTS c1, c2, closer

MCCallers == {c1, c2}
MCCount == c1 :> 5 @@ c2 :> 1
=============================================================================

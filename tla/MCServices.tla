---------------------------- MODULE MCServices -----------------------------
(* Services for the model checker: two runs on a TDoc of one path, three runs on a
   version of a specification, two runs on two meetings (the second may be without
   a folder or not yet there), two syncs of two specifications on one thread.   *)
EXTENDS Services, TLC

MCCalendars == {(1 :> TRUE) @@ (2 :> TRUE), (1 :> FALSE)}

\* Workers, specifications and subfolders are interchangeable.
Symmetry == Permutations(Workers) \cup Permutations(Specs) \cup Permutations(Folders)
=============================================================================

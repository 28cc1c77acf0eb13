----------------------------- MODULE MCCommands -----------------------------
(* Commands with two columns and documents to migrate, three TDocs to select from,
   and three files of a batch, two of which have one output.                   *)
EXTENDS Commands

MCStem == <<"a", "a", "b">>
=============================================================================

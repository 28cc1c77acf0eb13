------------------------------ MODULE Commands ------------------------------
(* The command line, side by side: migration, the selection of a parse, batches of
   local files, the configuration file, the server's processes, and what commands
   write.  A behaviour is about one of them (focus); variables of the same name
   play the same part, and those of the others are off.

   Parses by filter and commands that read and write overlap, in Terminals.
   Migrations, batches, and the commands of the configuration file and of the
   server follow one another, in one Terminal; they too may be killed.         *)
EXTENDS Integers, FiniteSets

CONSTANTS
  Terminals, Terminal,                      \* where commands run, and one of them
  Columns, Tolerant, Optional, CountRows, Undecodable, ChunkRows, Docs,  \* migration
  Tdocs, Jobs, MaxBatch,                    \* selection of a parse
  Inputs, Stem,                             \* a batch of local files
  Keys, Secret, Allowed,                    \* the configuration file
  Pids,                                     \* the server
  MaxRuns, MaxCrashes, MaxCalls, MaxChanges, MaxBatches, MaxKills, MaxSteps,
  MaxServerCommands, MaxCommands            \* bounds

ASSUME Numbers == CountRows \in Nat /\ ChunkRows \in Nat /\ MaxRuns \in Nat /\ MaxCrashes \in Nat
ASSUME InputsAreRanks == Inputs \subseteq Nat /\ IsFiniteSet(Inputs)
ASSUME SecretIsAKey == Secret \in Keys
ASSUME ZeroIsNoPid == 0 \notin Pids

VARIABLES focus,
          legacy, cover, columns, counted, blobs, slides, rowids, ledger, vectors, stamps, crashes,
          listed, archive, stored, call, done, calls, changes,
          size, parse, out,
          temp, wrote, handEdited, steps,
          proc, port, pidFile,
          tables, command,
          run, runs, told, kills, file, cmd, commands

G == INSTANCE Migration WITH Procs <- {Terminal}
P == INSTANCE ParseSelection WITH Clients <- Terminals
B == INSTANCE BatchParse WITH Clients <- {Terminal}, MaxRuns <- MaxBatches
F == INSTANCE ConfigFile WITH Clients <- {Terminal}
S == INSTANCE ServerControl WITH Clients <- {Terminal}, Prompt <- TRUE, MaxCommands <- MaxServerCommands
L == INSTANCE CommandLine WITH Clients <- Terminals

onlyG == <<legacy, cover, columns, counted, blobs, slides, rowids, ledger, vectors, stamps, crashes>>
onlyP == <<listed, archive, stored, call, done, calls, changes>>
onlyB == <<size, parse, out>>
onlyF == <<temp, wrote, handEdited, steps>>
onlyS == <<proc, port, pidFile>>
onlyL == <<tables, command>>
inGB == <<run, runs>>
vars == <<focus, onlyG, onlyP, onlyB, onlyF, onlyS, onlyL, inGB, told, kills, file, cmd, commands>>

OffG == /\ legacy = "off" /\ cover = "off" /\ columns = "off" /\ counted = "off" /\ blobs = "off"
        /\ slides = "off" /\ rowids = "off" /\ ledger = "off" /\ vectors = "off" /\ stamps = "off"
        /\ crashes = "off"
OffP == /\ listed = "off" /\ archive = "off" /\ stored = "off" /\ call = "off" /\ done = "off"
        /\ calls = "off" /\ changes = "off"
OffB == size = "off" /\ parse = "off" /\ out = "off"
OffF == temp = "off" /\ wrote = "off" /\ handEdited = "off" /\ steps = "off"
OffS == proc = "off" /\ port = "off" /\ pidFile = "off"
OffL == tables = "off" /\ command = "off"
OffGB == run = "off" /\ runs = "off"

Init ==
  \/ /\ focus = "migration" /\ G!Init
     /\ OffP /\ OffB /\ OffF /\ OffS /\ OffL
     /\ told = "off" /\ kills = "off" /\ file = "off" /\ cmd = "off" /\ commands = "off"
  \/ /\ focus = "selection" /\ P!Init
     /\ OffG /\ OffB /\ OffF /\ OffS /\ OffL /\ OffGB
     /\ told = "off" /\ kills = "off" /\ file = "off" /\ cmd = "off" /\ commands = "off"
  \/ /\ focus = "batch" /\ B!Init
     /\ OffG /\ OffP /\ OffF /\ OffS /\ OffL
     /\ file = "off" /\ cmd = "off" /\ commands = "off"
  \/ /\ focus = "config" /\ F!Init
     /\ OffG /\ OffP /\ OffB /\ OffS /\ OffL /\ OffGB
     /\ kills = "off" /\ commands = "off"
  \/ /\ focus = "server" /\ S!Init
     /\ OffG /\ OffP /\ OffB /\ OffF /\ OffL /\ OffGB
     /\ kills = "off" /\ file = "off"
  \/ /\ focus = "commands" /\ L!Init
     /\ OffG /\ OffP /\ OffB /\ OffF /\ OffS /\ OffGB
     /\ cmd = "off"

Next ==
  \/ /\ focus = "migration" /\ G!Next
     /\ UNCHANGED <<focus, onlyP, onlyB, onlyF, onlyS, onlyL, told, kills, file, cmd, commands>>
  \/ /\ focus = "selection" /\ P!Next
     /\ UNCHANGED <<focus, onlyG, onlyB, onlyF, onlyS, onlyL, inGB, told, kills, file, cmd, commands>>
  \/ /\ focus = "batch" /\ B!Next
     /\ UNCHANGED <<focus, onlyG, onlyP, onlyF, onlyS, onlyL, file, cmd, commands>>
  \/ /\ focus = "config" /\ F!Next
     /\ UNCHANGED <<focus, onlyG, onlyP, onlyB, onlyS, onlyL, inGB, kills, commands>>
  \/ /\ focus = "server" /\ S!Next
     /\ UNCHANGED <<focus, onlyG, onlyP, onlyB, onlyF, onlyL, inGB, kills, file>>
  \/ /\ focus = "commands" /\ L!Next
     /\ UNCHANGED <<focus, onlyG, onlyP, onlyB, onlyF, onlyS, inGB, cmd>>
Spec == Init /\ [][Next]_vars

----------------------------------------------------------------------------
(* Properties.                                                               *)

\* A run of create_schema that reaches its end leaves the database current, whatever
\* statement earlier runs died after.
EndsCurrent == focus = "migration" => G!EndsCurrent
\* An interrupted rename loses no cover pages.
CoverPagesKept == [][focus = "migration" => ~G!CoverPagesLost]_vars
\* A run of tdoc parse without --force, alone at a TDoc, makes it not incomplete.
CompleteKept == [][focus = "selection" => ~P!CompleteLost]_vars
\* A batch overwrites nothing unasked, and its summary accounts for every file once.
BatchIsTrue == [][focus = "batch" => ~B!Overwritten /\ B!EveryInputCounted']_vars
\* What a command has written its own environment accepts, and nobody else reads the secret.
FileStaysInOrder == focus = "config" => F!FileStaysInOrder
\* The server that holds the port is the one that stop reaches.
ServerIsNamed == focus = "server" => S!ServerIsNamed
\* A command that says no leaves databases and FILE as they were.
NoMeansNothing == focus = "commands" => L!NoMeansNothing
=============================================================================

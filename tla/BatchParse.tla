----------------------------- MODULE BatchParse -----------------------------
(***************************************************************************)
(* `doc3gpp tdoc parse --from-path DIR --output DIR` (cli.py,               *)
(* _tdoc_parse_local_batch): every file of a directory is parsed by the     *)
(* pipeline and written to a file of its own name and the format's          *)
(* extension.  Runs follow one another or overlap, are killed and started   *)
(* again; a file that is there is taken for done.                           *)
(*                                                                          *)
(* The content of an output is the input it was made of and whether all of  *)
(* it was written.  The URL batch (_emit_url_batch_results) writes in the   *)
(* same way, with the store's outcomes for the files' existence.            *)
(***************************************************************************)
EXTENDS Integers, FiniteSets

CONSTANTS
  Inputs,       \* input files in sorted order, 1 .. n
  Stem,         \* the output path of each: directory and stem, not the suffix
  Clients,      \* terminals in which a run may be going on
  MaxRuns,      \* bound: runs that are started
  MaxKills      \* bound: runs that are killed

VARIABLES
  size,     \* how each input answers stat and the size cap: "fits", "large", "unreadable"
  parse,    \* how the parser ends on each: "parsed", "skipped", "failed", "no fields"
  out,      \* what is at each output path
  run,      \* the run of each client
  told,     \* the last summary of each client
  runs, kills

vars == <<size, parse, out, run, told, runs, kills>>

Paths == {Stem[i] : i \in Inputs}
Counters == {"skipped", "oversized", "type", "again", "newly", "failures"}
NoFile == [of |-> 0, whole |-> TRUE]
NoRun == [pc |-> "idle", force |-> FALSE, todo |-> {}, count |-> [k \in Counters |-> 0]]
NoSummary == [exit |-> "none", count |-> [k \in Counters |-> 0]]

Init ==
  /\ size \in [Inputs -> {"fits", "large", "unreadable"}]
  /\ parse \in [Inputs -> {"parsed", "skipped", "failed", "no fields"}]
  /\ out = [p \in Paths |-> NoFile]
  /\ run = [c \in Clients |-> NoRun]
  /\ told = [c \in Clients |-> NoSummary]
  /\ runs = 0 /\ kills = 0

Exists(p) == out[p].of # 0
Plus(count, k, n) == [count EXCEPT ![k] = @ + n]

-----------------------------------------------------------------------------
\* The first loop: what is there already, too large or unreadable is counted at once.

AtOnce(i, force) ==
  IF Exists(Stem[i]) /\ ~ force THEN "skipped"
  ELSE IF size[i] = "large" THEN "oversized"
  ELSE IF size[i] = "unreadable" THEN "failures"
  ELSE "pending"

Start(c, force) ==
  /\ run[c].pc = "idle" /\ runs < MaxRuns
  /\ runs' = runs + 1
  /\ run' = [run EXCEPT ![c] =
       [pc |-> "emit", force |-> force,
        todo |-> {i \in Inputs : AtOnce(i, force) = "pending"},
        count |-> [k \in Counters |-> Cardinality({i \in Inputs : AtOnce(i, force) = k})]]]
  /\ UNCHANGED <<size, parse, out, told, kills>>

-----------------------------------------------------------------------------
\* The second loop, in the order of the inputs.

Current(c) == CHOOSE i \in run[c].todo : \A j \in run[c].todo : i <= j

Counted(c, k) ==
  run' = [run EXCEPT ![c].todo = @ \ {Current(c)}, ![c].count = Plus(@, k, 1), ![c].pc = "emit"]

\* Mutant: whether the output is there is looked up in the first loop only.
BucketUnchecked(c) ==
  LET i == Current(c) IN
  IF parse[i] = "skipped" THEN "type"
  ELSE IF parse[i] \in {"failed", "no fields"} THEN "failures" ELSE "write"

\* Without --force an output that came into being meanwhile is kept; what was not
\* parsed is counted for what it is.
Bucket(c) ==
  LET i == Current(c) IN
  IF ~ run[c].force /\ Exists(Stem[i]) THEN "skipped"
  ELSE IF parse[i] = "skipped" THEN "type"
  ELSE IF parse[i] \in {"failed", "no fields"} THEN "failures" ELSE "write"

Pass(c) ==
  /\ run[c].pc = "emit" /\ run[c].todo # {}
  /\ Bucket(c) # "write"
  /\ run' = [run EXCEPT ![c].todo = @ \ {Current(c)},
                        ![c].count = [k \in Counters |-> IF k = Bucket(c) THEN @[k] + 1 ELSE @[k]]]
  /\ UNCHANGED <<size, parse, out, told, runs, kills>>

\* _open_output truncates the file ...
Open(c) ==
  /\ run[c].pc = "emit" /\ run[c].todo # {}
  /\ Bucket(c) = "write"
  /\ out' = [out EXCEPT ![Stem[Current(c)]] = [of |-> Current(c), whole |-> FALSE]]
  /\ run' = [run EXCEPT ![c].pc = "write"]
  /\ UNCHANGED <<size, parse, told, runs, kills>>

\* ... and the record is written, or the disk is full.
Write(c) ==
  /\ run[c].pc = "write"
  /\ out' = [out EXCEPT ![Stem[Current(c)]] = [of |-> Current(c), whole |-> TRUE]]
  /\ Counted(c, IF run[c].force THEN "again" ELSE "newly")
  /\ UNCHANGED <<size, parse, told, runs, kills>>
WriteFails(c) ==
  /\ run[c].pc = "write" /\ kills < MaxKills
  /\ kills' = kills + 1
  /\ Counted(c, "failures")
  /\ UNCHANGED <<size, parse, out, told, runs>>

\* The summary and the exit code.
Summary(c) ==
  /\ run[c].pc = "emit" /\ run[c].todo = {}
  /\ LET n == run[c].count IN
       told' = [told EXCEPT ![c] =
         [exit |-> IF n["failures"] > 0 /\ n["newly"] + n["again"] = 0 /\ n["oversized"] = 0
                     THEN "failed" ELSE "ok",
          count |-> n]]
  /\ run' = [run EXCEPT ![c] = NoRun]
  /\ UNCHANGED <<size, parse, out, runs, kills>>

Kill(c) ==
  /\ run[c].pc # "idle" /\ kills < MaxKills
  /\ kills' = kills + 1
  /\ run' = [run EXCEPT ![c] = NoRun]
  /\ UNCHANGED <<size, parse, out, told, runs>>

Next ==
  \E c \in Clients :
    \/ \E force \in BOOLEAN : Start(c, force)
    \/ Pass(c) \/ Open(c) \/ Write(c) \/ WriteFails(c) \/ Summary(c) \/ Kill(c)

Spec == Init /\ [][Next]_vars

-----------------------------------------------------------------------------
\* Properties.

Total(n) == n["skipped"] + n["oversized"] + n["type"] + n["again"] + n["newly"] + n["failures"]

\* The summary accounts for every input once, whatever appeared, vanished or failed
\* between the two loops.
EveryInputCounted ==
  \A c \in Clients : told[c].exit # "none" => Total(told[c].count) = Cardinality(Inputs)

\* A run without --force replaces an output that was whole.
Overwritten ==
  \E c \in Clients, p \in Paths :
    run[c].pc # "idle" /\ ~ run[c].force /\ Exists(p) /\ out[p].whole /\ out'[p] # out[p]

\* With one run at a time: what a run without --force finds whole it leaves as it is,
\* also when it came into being after the run had looked for it, and every summary
\* accounts for every input once.
BatchIsTrue == [][~ Overwritten /\ EveryInputCounted']_vars
=============================================================================

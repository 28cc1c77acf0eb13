----------------------------- MODULE ConfigFile -----------------------------
(***************************************************************************)
(* `doc3gpp config init` and `config set` (cli.py) and the writer below     *)
(* them (settings/config_writer.py): a TOML file that several commands      *)
(* read, patch, validate and replace, and that its owner edits by hand.     *)
(*                                                                          *)
(* One project file; a key is unset, right or wrong for its field, and one  *)
(* key is the secret of the embedding service.  A program reads the file    *)
(* together with its environment, whose variables beat the file.            *)
(***************************************************************************)
EXTENDS Integers, FiniteSets

CONSTANTS
  Clients,    \* commands that may be under way at once
  Keys,       \* settings
  Secret,     \* the one of Keys that is a secret
  Allowed,    \* those of Keys that an environment variable may set (ALLOWED_ENV_VARS)
  MaxSteps    \* bound: commands, kills and edits by hand

VARIABLES
  file,    \* the file: absent, or its keys, whether it parses, and who may read it
  temp,    \* the temporary file of each command's process, which a kill leaves behind
  cmd,     \* the command of each client
  told,    \* how the last command of each client ended
  wrote,      \* history: the environment of the command that wrote the file
  handEdited, \* history: since then the owner has edited it to something a program refuses
  steps

vars == <<file, temp, cmd, told, wrote, handEdited, steps>>

Values == {"unset", "right", "wrong"}
Absent == [there |-> FALSE, parses |-> TRUE, keys |-> [k \in Keys |-> "unset"], private |-> TRUE]
Environments == {e \in [Keys -> Values] : \A k \in Keys \ Allowed : e[k] = "unset"}
NoVariables == Absent.keys
Idle == [pc |-> "idle", key |-> Secret, env |-> NoVariables, keys |-> Absent.keys]

Init ==
  /\ file \in {Absent, [Absent EXCEPT !.there = TRUE, !.private = FALSE]}
  /\ temp = [c \in Clients |-> Absent]
  /\ cmd = [c \in Clients |-> Idle]
  /\ told = [c \in Clients |-> "nothing"]
  /\ wrote = NoVariables /\ handEdited = FALSE
  /\ steps = 0

Tick == steps < MaxSteps /\ steps' = steps + 1
End(c, verdict) == cmd' = [cmd EXCEPT ![c] = Idle] /\ told' = [told EXCEPT ![c] = verdict]
\* Settings(**data): what the program then goes by is right for every key.
Merged(keys, env) == [k \in Keys |-> IF env[k] = "unset" THEN keys[k] ELSE env[k]]
Validates(keys, env) == \A k \in Keys : Merged(keys, env)[k] # "wrong"

-----------------------------------------------------------------------------
\* config init writes the template, which sets no secret, for the owner alone.
InitRefused(c, force) ==
  /\ cmd[c].pc = "idle" /\ Tick
  /\ file.there /\ ~ force
  /\ End(c, "refused")
  /\ UNCHANGED <<file, temp, wrote, handEdited>>

InitFile(c, force) ==
  /\ cmd[c].pc = "idle" /\ Tick
  /\ ~ file.there \/ force
  /\ cmd' = [cmd EXCEPT ![c] = [Idle EXCEPT !.pc = "temp",
                                !.keys = [k \in Keys |-> IF k = Secret THEN "unset" ELSE "right"]]]
  /\ UNCHANGED <<file, temp, told, wrote, handEdited>>

\* config set reads the file in use; a missing or malformed one ends the command.
Read(c, key, value, env) ==
  /\ cmd[c].pc = "idle" /\ Tick
  /\ IF file.there /\ file.parses
       THEN /\ cmd' = [cmd EXCEPT ![c] = [pc |-> "patched", key |-> key, env |-> env,
                                          keys |-> [file.keys EXCEPT ![key] = value]]]
            /\ UNCHANGED told
       ELSE End(c, "refused")
  /\ UNCHANGED <<file, temp, wrote, handEdited>>

\* Mutant: the patched data is written without having been validated.
ValidateNothing(c, allow) ==
  /\ cmd[c].pc = "patched"
  /\ IF cmd[c].key # Secret \/ allow
       THEN cmd' = [cmd EXCEPT ![c].pc = "temp"] /\ UNCHANGED told
       ELSE End(c, "refused")
  /\ UNCHANGED <<file, temp, wrote, handEdited, steps>>

\* The whole file must validate in the environment of the command, where a variable
\* hides what the file has; a dry run ends here, and a secret goes into a project file
\* only when that is asked for.
Validate(c, allow) ==
  /\ cmd[c].pc = "patched"
  /\ \/ /\ Validates(cmd[c].keys, cmd[c].env)
        /\ cmd[c].key # Secret \/ allow
        /\ cmd' = [cmd EXCEPT ![c].pc = "temp"]
        /\ UNCHANGED told
     \/ /\ ~ Validates(cmd[c].keys, cmd[c].env) \/ (cmd[c].key = Secret /\ ~ allow)
        /\ End(c, "refused")
     \/ Validates(cmd[c].keys, cmd[c].env) /\ End(c, "dry run")
  /\ UNCHANGED <<file, temp, wrote, handEdited, steps>>

-----------------------------------------------------------------------------
\* write_text_atomic.

\* 0600 for a secret and for a template, otherwise the mode the file has now.
Mode(c) == cmd[c].key = Secret \/ ~ file.there \/ file.private

\* mkstemp and chmod come before the text, so that nobody else reads a half.
WriteTemp(c) ==
  /\ cmd[c].pc = "temp"
  /\ temp' = [temp EXCEPT ![c] = [there |-> TRUE, parses |-> TRUE, keys |-> cmd[c].keys,
                                  private |-> Mode(c)]]
  /\ cmd' = [cmd EXCEPT ![c].pc = "replace"]
  /\ UNCHANGED <<file, told, wrote, handEdited, steps>>

Replace(c) ==
  /\ cmd[c].pc = "replace"
  /\ file' = temp[c]
  /\ temp' = [temp EXCEPT ![c] = Absent]
  /\ End(c, "written")
  /\ wrote' = cmd[c].env /\ handEdited' = FALSE
  /\ UNCHANGED steps

Kill(c) ==
  /\ cmd[c].pc # "idle" /\ Tick
  /\ End(c, "killed")
  /\ UNCHANGED <<file, temp, wrote, handEdited>>

\* The owner edits: a syntax error, or another value of some key but the secret.
Edit ==
  /\ file.there /\ Tick
  /\ \/ file' = [file EXCEPT !.parses = FALSE] /\ handEdited' = TRUE
     \/ \E k \in Keys \ {Secret}, v \in Values :
          /\ file' = [file EXCEPT !.keys[k] = v]
          /\ handEdited' = (handEdited \/ v = "wrong")
  /\ UNCHANGED <<temp, cmd, told, wrote>>

Next ==
  \/ \E c \in Clients :
       \/ \E b \in BOOLEAN : InitRefused(c, b) \/ InitFile(c, b) \/ Validate(c, b)
       \/ \E k \in Keys, v \in {"right", "wrong"}, e \in Environments : Read(c, k, v, e)
       \/ WriteTemp(c) \/ Replace(c) \/ Kill(c)
  \/ Edit

Spec == Init /\ [][Next]_vars

-----------------------------------------------------------------------------
\* Properties.

\* Whatever was edited and killed before, the file a command has written is one that a
\* program started in the environment of that command accepts, until its owner edits
\* a syntax error or a wrong value into it.  (A start without the variables that hid a
\* wrong value of the file refuses it.)
FileStaysUsable == file.there /\ ~ handEdited => file.parses /\ Validates(file.keys, wrote)

\* Of commands that follow one another, killed ones too, none makes a file with the
\* secret in it readable to others, neither the file in use nor a temporary one that a
\* kill left behind, whichever key was set last.
SecretIsPrivate ==
  \A f \in {file} \cup {temp[c] : c \in Clients} :
    f.there /\ f.keys[Secret] # "unset" => f.private

\* Both: whatever is killed and whatever is set, the file can be used and the secret is kept.
FileStaysInOrder == FileStaysUsable /\ SecretIsPrivate
=============================================================================

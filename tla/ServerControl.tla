--------------------------- MODULE ServerControl ---------------------------
(***************************************************************************)
(* `doc3gpp server start` and `stop` (cli_server.py): commands that know   *)
(* the server process by the number in the pid file only, while servers    *)
(* die by themselves and the system hands out numbers again.  One pid file *)
(* and one port; the foreground mode, the service units and the texts are  *)
(* left out.                                                               *)
(***************************************************************************)
EXTENDS Integers

CONSTANTS
  Clients,      \* terminals in which commands are run
  Pids,         \* process numbers
  Prompt,       \* a child that cannot start exits within start's window of 3 s
  MaxCommands   \* bound: commands that are run

VARIABLES
  proc,      \* what process has each number
  port,      \* the process that is bound to the port, or None
  pidFile,   \* the number in server.pid, or None
  cmd,       \* the command of each client
  told,      \* what the last command of each client reported
  commands

vars == <<proc, port, pidFile, cmd, told, commands>>

None == 0
Idle == [pc |-> "idle", pid |-> None]
Alive(p) == IF p = None THEN FALSE ELSE proc[p] \notin {"none", "dead"}

TypeOK ==
  /\ proc \in [Pids -> {"none", "dead", "booting", "serving", "foreign"}]
  /\ port \in Pids \cup {None} /\ pidFile \in Pids \cup {None}
  /\ cmd \in [Clients -> [pc : {"idle", "watch", "health", "stopping"}, pid : Pids \cup {None}]]
  /\ told \in [Clients -> {"nothing", "refused", "failed", "unhealthy", "running", "stopped",
                           "not running"}]
  /\ commands \in 0 .. MaxCommands

Init ==
  /\ proc = [p \in Pids |-> "none"]
  /\ port = None /\ pidFile = None
  /\ cmd = [c \in Clients |-> Idle]
  /\ told = [c \in Clients |-> "nothing"]
  /\ commands = 0

Begin(c) == cmd[c].pc = "idle" /\ commands < MaxCommands /\ commands' = commands + 1
Report(c, text) == told' = [told EXCEPT ![c] = text] /\ cmd' = [cmd EXCEPT ![c] = Idle]
Refuses(force) == Alive(pidFile) /\ ~ force

-----------------------------------------------------------------------------
\* server_start: a pid file that names a live process ends the command ...
StartRefused(c, force) ==
  /\ Begin(c) /\ Refuses(force)
  /\ Report(c, "refused")
  /\ UNCHANGED <<proc, port, pidFile>>

\* ... otherwise _launch_server spawns uvicorn.
Launch(c, force) ==
  /\ Begin(c) /\ ~ Refuses(force)
  /\ \E p \in Pids :
       /\ ~ Alive(p)
       /\ proc' = [proc EXCEPT ![p] = "booting"]
       /\ cmd' = [cmd EXCEPT ![c] = [pc |-> "watch", pid |-> p]]
  /\ UNCHANGED <<port, pidFile, told>>

\* The child binds the port, or exits: the port is taken, the app does not load.
Boot(p) ==
  /\ proc[p] = "booting"
  /\ \/ /\ port = None
        /\ port' = p /\ proc' = [proc EXCEPT ![p] = "serving"]
     \/ /\ proc' = [proc EXCEPT ![p] = "dead"]
        /\ UNCHANGED port
  /\ UNCHANGED <<pidFile, cmd, told, commands>>

\* Mutant: the pid is written as soon as the child is spawned.
ChildExitedWritten(c) ==
  LET p == cmd[c].pid IN
  /\ cmd[c].pc = "watch" /\ ~ Alive(p)
  /\ pidFile' = p
  /\ Report(c, "failed")
  /\ UNCHANGED <<proc, port, commands>>

\* _wait_for_child_exit sees the child gone: no pid file is written.
ChildExited(c) ==
  /\ cmd[c].pc = "watch" /\ ~ Alive(cmd[c].pid)
  /\ Report(c, "failed")
  /\ UNCHANGED <<proc, port, pidFile, commands>>

\* The window is over and the child lives: its pid is written.
WritePid(c) ==
  /\ cmd[c].pc = "watch" /\ Alive(cmd[c].pid)
  /\ Prompt => proc[cmd[c].pid] # "booting"
  /\ pidFile' = cmd[c].pid
  /\ cmd' = [cmd EXCEPT ![c].pc = "health"]
  /\ UNCHANGED <<proc, port, told, commands>>

\* _wait_healthy: whoever is bound to the port answers, or nobody does in 15 s.
Healthy(c) ==
  /\ cmd[c].pc = "health"
  /\ Report(c, IF port # None THEN "running" ELSE "unhealthy")
  /\ UNCHANGED <<proc, port, pidFile, commands>>

-----------------------------------------------------------------------------
\* server_stop without a pid file, or with one of a process that is gone.
StopNothing(c) ==
  /\ Begin(c)
  /\ ~ Alive(pidFile)
  /\ pidFile' = None
  /\ Report(c, "not running")
  /\ UNCHANGED <<proc, port>>

\* server_stop signals the process the file names.
StopSignal(c) ==
  /\ Begin(c)
  /\ Alive(pidFile)
  /\ cmd' = [cmd EXCEPT ![c] = [pc |-> "stopping", pid |-> pidFile]]
  /\ UNCHANGED <<proc, port, pidFile, told>>

\* The process ends upon SIGTERM or, after ten seconds, upon SIGKILL ...
EndSignalled(c) ==
  /\ cmd[c].pc = "stopping" /\ Alive(cmd[c].pid)
  /\ proc' = [proc EXCEPT ![cmd[c].pid] = "dead"]
  /\ port' = IF port = cmd[c].pid THEN None ELSE port
  /\ UNCHANGED <<pidFile, cmd, told, commands>>

\* ... and the pid file is removed.
StopDone(c) ==
  /\ cmd[c].pc = "stopping" /\ ~ Alive(cmd[c].pid)
  /\ pidFile' = None
  /\ Report(c, "stopped")
  /\ UNCHANGED <<proc, port, commands>>

-----------------------------------------------------------------------------
\* A server dies by itself; a free number goes to another program, which ends.  A
\* child's number is not free as long as the command that started it runs.
Die(p) ==
  /\ proc[p] \in {"serving", "foreign"}
  /\ proc' = [proc EXCEPT ![p] = "dead"]
  /\ port' = IF port = p THEN None ELSE port
  /\ UNCHANGED <<pidFile, cmd, told, commands>>
Reuse(p) ==
  /\ proc[p] = "dead"
  /\ \A c \in Clients : cmd[c].pc \in {"watch", "health"} => cmd[c].pid # p
  /\ proc' = [proc EXCEPT ![p] = "foreign"]
  /\ UNCHANGED <<port, pidFile, cmd, told, commands>>

Next ==
  \/ \E c \in Clients :
       \/ \E force \in BOOLEAN : StartRefused(c, force) \/ Launch(c, force)
       \/ ChildExited(c) \/ WritePid(c) \/ Healthy(c)
       \/ StopNothing(c) \/ StopSignal(c) \/ EndSignalled(c) \/ StopDone(c)
  \/ \E p \in Pids : Boot(p) \/ Die(p) \/ Reuse(p)

Spec == Init /\ [][Next]_vars

-----------------------------------------------------------------------------
\* Properties.

\* No command is under way and no child is about to bind.
Quiet == (\A c \in Clients : cmd[c].pc = "idle") /\ (\A p \in Pids : proc[p] # "booting")

\* Commands one after the other, children that fail in time: whatever was forced,
\* died or was renumbered, the server that holds the port is the one in the pid
\* file, so that stop reaches it.
ServerIsNamed == Quiet /\ port # None => pidFile = port
=============================================================================

------------------------------ MODULE PidFile ------------------------------
(***************************************************************************)
(* The PID file of the daemon: PidFile::acquire and its Drop in            *)
(* glpi-scheduler lifecycle.rs, as run_daemon of glpi-cli uses them.       *)
(*                                                                         *)
(* Every pid of the machine is free, an unrelated process or an agent at   *)
(* some point of its life.  The calls that touch the file are separate     *)
(* steps, since nothing locks it: read_pid, the liveness probe, the        *)
(* truncation and the write of fs::write, and on shutdown read_pid and     *)
(* remove_file.  A signal other than Ctrl-C ends a process without running *)
(* Drop.  The model is the Unix build: elsewhere process_is_alive is TRUE. *)
(***************************************************************************)
EXTENDS Naturals

CONSTANTS
    Pid,         \* the pids of the machine
    NoFile,      \* the pid file does not exist
    Empty,       \* it exists but holds no number
    Serialized   \* TRUE when starts are one at a time (a service manager)

ASSUME PidAssumption ==
    /\ NoFile \notin Pid
    /\ Empty \notin Pid
    /\ NoFile # Empty
    /\ Serialized \in BOOLEAN

VARIABLES
    file,   \* the pid file
    proc,   \* what runs under each pid
    seen    \* what an agent's last read_pid returned

pid_vars == <<file, proc, seen>>

\* The states of an agent: acquiring the file, running, and in Drop.
Acquiring == {"reading", "probing", "truncating", "writing"}
Dropping == {"rereading", "removing"}
ProcState == {"free", "unrelated", "running"} \cup Acquiring \cup Dropping

\* Wrong on Unix, and what the other platforms do: any recorded pid is live.
process_is_alive_Assumed(p) == TRUE

\* process_is_alive: signal 0 reaches any process, whatever it runs.
process_is_alive(p) == proc[p] # "free"

\* read_pid parses a number or gives None.
read_pid == IF file \in Pid THEN file ELSE Empty

Become(p, state) == proc' = [proc EXCEPT ![p] = state]

InTransit(p) == proc[p] \in Acquiring \cup Dropping
-----------------------------------------------------------------------------
PidInit ==
    /\ file = NoFile
    /\ proc = [p \in Pid |-> "free"]
    /\ seen = [p \in Pid |-> Empty]

\* An unrelated program starts under a free pid, or ends; the machine never
\* runs out of pids.
OtherStarts(p) ==
    /\ \E q \in Pid \ {p} : proc[q] # "unrelated"
    /\ proc[p] = "free"
    /\ Become(p, "unrelated")
    /\ UNCHANGED <<file, seen>>

OtherEnds(p) ==
    /\ proc[p] = "unrelated"
    /\ Become(p, "free")
    /\ UNCHANGED <<file, seen>>

\* run_daemon begins and calls acquire.
Start(p) ==
    /\ proc[p] = "free"
    /\ Serialized => \A q \in Pid : ~InTransit(q)
    /\ Become(p, "reading")
    /\ UNCHANGED <<file, seen>>

ReadPid(p) ==
    /\ proc[p] = "reading"
    /\ seen' = [seen EXCEPT ![p] = read_pid]
    /\ Become(p, "probing")
    /\ UNCHANGED file

\* The file names another process that is alive: "already running".
Refuse(p) ==
    /\ proc[p] = "probing"
    /\ seen[p] \in Pid \ {p}
    /\ process_is_alive(seen[p])
    /\ Become(p, "free")
    /\ UNCHANGED <<file, seen>>

\* Wrong: acquire writes the file without looking at its owner.
TakeOver_NoProbe(p) ==
    /\ proc[p] = "probing"
    /\ Become(p, "truncating")
    /\ UNCHANGED <<file, seen>>

\* No number, our own pid, or a dead process: go on to write the file.
TakeOver(p) ==
    /\ proc[p] = "probing"
    /\ seen[p] \in Pid \ {p} => ~process_is_alive(seen[p])
    /\ Become(p, "truncating")
    /\ UNCHANGED <<file, seen>>

\* fs::write: create or truncate, then write.
Truncate(p) ==
    /\ proc[p] = "truncating"
    /\ file' = Empty
    /\ Become(p, "writing")
    /\ UNCHANGED seen

Write(p) ==
    /\ proc[p] = "writing"
    /\ file' = p
    /\ Become(p, "running")
    /\ UNCHANGED seen

\* Ctrl-C, or an error return of run_daemon: the guard is dropped.
Stop(p) ==
    /\ proc[p] = "running"
    /\ Become(p, "rereading")
    /\ UNCHANGED <<file, seen>>

DropReads(p) ==
    /\ proc[p] = "rereading"
    /\ Become(p, IF read_pid = p THEN "removing" ELSE "free")
    /\ UNCHANGED <<file, seen>>

RemoveFile(p) ==
    /\ proc[p] = "removing"
    /\ file' = NoFile
    /\ Become(p, "free")
    /\ UNCHANGED seen

\* SIGKILL, SIGTERM, a crash: the process ends where it stands.
Kill(p) ==
    /\ proc[p] \notin {"free", "unrelated"}
    /\ Become(p, "free")
    /\ UNCHANGED <<file, seen>>

Acquire(p) == ReadPid(p) \/ Refuse(p) \/ TakeOver(p) \/ Truncate(p) \/ Write(p)
Drop(p) == DropReads(p) \/ RemoveFile(p)

PidNext ==
    \E p \in Pid :
        \/ OtherStarts(p)
        \/ OtherEnds(p)
        \/ Start(p)
        \/ Acquire(p)
        \/ Stop(p)
        \/ Drop(p)
        \/ Kill(p)

PidSpec == PidInit /\ [][PidNext]_pid_vars

\* Once the agent is neither stopped nor killed: the service manager starts
\* it whenever it is not there, and a started agent goes through acquire.
Manager(p) ==
    /\ \A q \in Pid : proc[q] # "running"
    /\ Start(p)

Undisturbed == \E p \in Pid : Manager(p) \/ Acquire(p) \/ Drop(p)

PidFairSpec ==
    /\ PidSpec
    /\ WF_pid_vars(\E p \in Pid : Manager(p))
    /\ \A p \in Pid : WF_pid_vars(Acquire(p) \/ Drop(p))
-----------------------------------------------------------------------------
PidTypeOK ==
    /\ file \in Pid \cup {NoFile, Empty}
    /\ proc \in [Pid -> ProcState]
    /\ seen \in [Pid -> Pid \cup {Empty}]

\* The agents that hold the file, until Drop has removed it.
Holder == {p \in Pid : proc[p] \in {"running"} \cup Dropping}

\* With serialised starts at most one agent is inside acquire and at most one
\* holds the file; one that is about to write has seen no holder.
SerialInv ==
    /\ \A p, q \in Pid : proc[p] \in Acquiring /\ proc[q] \in Acquiring => p = q
    /\ \A p, q \in Holder : p = q
    /\ \A p \in Holder : file = p
    /\ \A p \in Pid, q \in Holder :
          /\ proc[p] = "probing" => seen[p] = q
          /\ proc[p] \notin {"truncating", "writing"}

PidInv == PidTypeOK /\ (Serialized => SerialInv)

(* Two agents never run over the same pid file, when starts are serialised: *)
(* the check of acquire sees every instance that holds the file, whatever   *)
(* crashes, stale files and recycled pids came before.                      *)
OneInstance ==
    Serialized =>
        \A p, q \in Pid : proc[p] = "running" /\ proc[q] = "running" => p = q

(* A running agent's pid is the one in the file, so that the next acquire   *)
(* and the tools that read the file find it (same condition).               *)
HolderRecorded ==
    Serialized => \A p \in Pid : proc[p] = "running" => file = p

(* Drop leaves the file of another agent alone (same condition).            *)
DropRemovesOwn ==
    [][Serialized => \A p \in Pid : RemoveFile(p) => file = p]_pid_vars

(* A crash never locks the daemon out: once the agent is no longer          *)
(* disturbed it runs for good, although a stale or empty file is left.  The *)
(* one exception is a stale file whose pid was given to a program that does *)
(* not end: process_is_alive takes that program for the agent.              *)
RunsAgain ==
    <>[][Undisturbed]_pid_vars =>
        \/ <>[](\E p \in Pid : proc[p] = "running")
        \/ <>[](\E p \in Pid : file = p /\ proc[p] = "unrelated")
=============================================================================

--------------------------- MODULE RemoteInventory ---------------------------
(***************************************************************************)
(* Remote inventory runs: run_remoteinventory and inventory_remote_host of *)
(* glpi-cli main.rs with the collectors and the SSH transports of          *)
(* glpi-inventory-remote.                                                  *)
(*                                                                         *)
(* A run collects its targets concurrently, at most Workers at a time,     *)
(* keeps each result at the target's index, then submits them one by one   *)
(* in target order through submit_inventory (DeltaState) and prunes the    *)
(* state directory.  A connection may drop between or inside any two       *)
(* commands, a task may panic, a submission may be refused or its answer   *)
(* lost, a state file may be cut short; a host may be reinstalled with     *)
(* another key.                                                            *)
(*                                                                         *)
(* Data: a section a host reports is "whole", "cut" (the connection broke  *)
(* in the middle of the output), "bare" (interfaces without addresses) or  *)
(* Missing.  One server; DeltaInventory has the loop over several.         *)
(***************************************************************************)
EXTENDS DeltaState, Sequences, FiniteSets

CONSTANTS
    NumTargets,   \* `--target` URLs of the run, in order
    Workers,      \* --remote-workers
    Host,         \* machines behind the targets
    HostOf,       \* [Target -> Host]
    Installed,    \* [Host -> SUBSET Command], the tools a machine has
    Transports,   \* --transport values in use, of "russh" and "cli"
    Perl,         \* [Host -> BOOLEAN], mode=perl in the URL
    Strict,       \* --strict-host-keys
    Reinstalled,  \* machines that may come back with another host key
    Device,       \* device identifiers
    Assetname,    \* [Host -> "short", "as-is" or "fqdn"], assetname-support
    FqdnName,     \* [Host -> Device], what `hostname -f` and hostfqdn() print
    HostName,     \* [Host -> Device], what `hostname` prints, through `apply`
    UrlHost,      \* [Host -> Device], the host part of the URL
    Nameless,     \* the empty device identifier
    File,         \* names of state files
    FileOf,       \* [Device -> File], `sanitize`
    MaxFaults     \* bound on the losses, panics, refusals and reinstallations

Target == 1..NumTargets

\* The commands of `resolve` and of `collect`, in program order.
Linux ==
    <<"hostname -f", "hostfqdn", "hostname", "can_run", "os-release", "cpuinfo",
      "dmidecode -t 17", "dmidecode", "dpkg", "rpm", "ip link", "ip addr", "lsblk", "ps",
      "lspci", "lsusb", "who", "cups", "lpstat">>

Command == {Linux[i] : i \in 1..Len(Linux)}

ASSUME RemoteAssumption ==
    /\ NumTargets \in Nat /\ Workers \in Nat /\ MaxFaults \in Nat
    /\ HostOf \in [Target -> Host] /\ Installed \in [Host -> SUBSET Command]
    /\ Perl \in [Host -> BOOLEAN] /\ Strict \in BOOLEAN
    /\ Transports \subseteq {"russh", "cli"} /\ Reinstalled \subseteq Host
    /\ Assetname \in [Host -> {"short", "as-is", "fqdn"}] /\ FqdnName \in [Host -> Device]
    /\ HostName \in [Host -> Device] /\ UrlHost \in [Host -> Device]
    /\ Nameless \in Device /\ FileOf \in [Device -> File]
    /\ {"whole", "cut", "bare"} \subseteq Value

VARIABLES
    pc,         \* "idle", "collect" or "submit"
    transport,  \* --transport of the run
    task,       \* [Target -> where its spawned task stands]
    result,     \* [Target -> its slot of `results`]
    at,         \* the target the submission loop has reached
    accepted,   \* history: targets whose submission the server accepted, this run
    failures,   \* the counter of failed hosts
    exit,       \* how the last run ended
    known,      \* [Host -> the key known_hosts records for it, 0 for none]
    key,        \* [Host -> the key the machine presents]
    files,      \* [File -> state file]
    view,       \* [Device -> the inventory the server holds]
    diverged,   \* history: devices given a submission that was not saved, no full since
    faults      \* losses, panics, refusals and reinstallations so far

vars == <<pc, transport, task, result, at, accepted, failures, exit, known, key, files,
          view, diverged, faults>>

NoResult == [kind |-> "none"]
Failed == [kind |-> "failed"]
Collected(d, c) == [kind |-> "ok", device |-> d, content |-> c]

Result ==
    {NoResult, Failed} \cup [kind : {"ok"}, device : Device, content : Content]

TypeOK ==
    /\ pc \in {"idle", "collect", "submit"} /\ transport \in Transports
    /\ task \in [Target -> {"queued", "running", "done", "panicked", "aborted"}]
    /\ result \in [Target -> Result]
    /\ at \in 1..(NumTargets + 1) /\ accepted \subseteq Target
    /\ failures \in Nat /\ exit \in {"none", "ok", "failed", "aborted", "panicked"}
    /\ known \in [Host -> 0..2] /\ key \in [Host -> 1..2]
    /\ files \in [File -> [kind : {"absent", "torn", "saved"}, state : InventoryState]]
    /\ view \in [Device -> Content]
    /\ diverged \subseteq Device /\ faults \in 0..MaxFaults

Fault == faults < MaxFaults /\ faults' = faults + 1
-----------------------------------------------------------------------------
(* What one connection delivers: an answer per command. *)

\* RusshSession::run over a connection lost at command n: a channel that ends
\* without an exit status is a success with the output so far, and every
\* later channel fails to open.
Broken(n) ==
    {[i \in 1..Len(Linux) |->
        IF i < n THEN "whole" ELSE IF i = n THEN last ELSE "none"] :
        last \in {"cut", "none"}}

Healthy == [i \in 1..Len(Linux) |-> "whole"]
Unreachable == [i \in 1..Len(Linux) |-> "none"]

\* One russh connection breaks once; every command of the ssh client is a
\* connection of its own: those made while the network is away fail.
Answers ==
    IF transport = "russh"
    THEN UNION {Broken(n) : n \in 1..Len(Linux)}
    ELSE {[i \in 1..Len(Linux) |-> IF i \in a..b THEN "none" ELSE "whole"] :
              a, b \in 1..Len(Linux)}

\* try_run and try_read: the answer of a command the host has, else nothing.
try_run(h, answers, command) ==
    IF command \in Installed[h]
    THEN answers[CHOOSE i \in 1..Len(Linux) : Linux[i] = command]
    ELSE "none"

\* run_trimmed: the answer is a line, which comes whole or leaves nothing.
run_trimmed(h, answers, command) == try_run(h, answers, command) = "whole"

\* The full name from `hostname -f`, or in perl mode from Net::Domain.
Fqdn(h, answers) ==
    /\ Assetname[h] = "fqdn"
    /\ \/ run_trimmed(h, answers, "hostname -f")
       \/ Perl[h] /\ run_trimmed(h, answers, "hostfqdn")

\* `resolve` with the fallback of its caller; a cut hostname is the empty string.
resolve(h, answers) ==
    LET name == try_run(h, answers, "hostname")
    IN CASE Fqdn(h, answers) -> FqdnName[h]
         [] ~Fqdn(h, answers) /\ name = "none" -> UrlHost[h]
         [] ~Fqdn(h, answers) /\ name = "cut" -> Nameless
         [] OTHER -> HostName[h]

\* The command a section is read from, where there is only one.
Source ==
    [operating_system |-> "os-release", cpus |-> "cpuinfo", memories |-> "dmidecode -t 17",
     bios |-> "dmidecode", hardware |-> "dmidecode", storages |-> "lsblk",
     processes |-> "ps", controllers |-> "lspci", videos |-> "lspci", sounds |-> "lspci",
     usb_devices |-> "lsusb", users |-> "who"]

Section1(answer) == IF answer = "none" THEN Missing ELSE answer

\* `collect`: every section is left out when its command gives nothing;
\* packages fall back from dpkg to rpm and printers from perl to lpstat, and
\* interfaces are kept without the addresses.
collect(h, answers) ==
    LET ask(command) == try_run(h, answers, command)
        first(a, b) == IF ask(a) # "none" THEN ask(a) ELSE ask(b)
    IN [s \in Section |->
          IF s = "softwares" THEN Section1(first("dpkg", "rpm"))
          ELSE IF s = "printers" THEN
              Section1(IF Perl[h] THEN first("cups", "lpstat") ELSE ask("lpstat"))
          ELSE IF s = "networks" /\ ask("ip link") = "whole" THEN
              IF ask("ip addr") = "none" THEN "bare" ELSE ask("ip addr")
          ELSE Section1(ask(IF s = "networks" THEN "ip link" ELSE Source[s]))]

\* inventory_remote_host once connected: perl mode needs a host that runs perl.
inventory_remote_host(h, answers) ==
    IF Perl[h] /\ try_run(h, answers, "can_run") # "whole"
    THEN Failed
    ELSE Collected(resolve(h, answers), collect(h, answers))

Rejected(h) == known[h] \notin {0, key[h]} \/ (known[h] = 0 /\ Strict)
-----------------------------------------------------------------------------
Init ==
    /\ pc = "idle"
    /\ transport \in Transports
    /\ task = [t \in Target |-> "queued"]
    /\ result = [t \in Target |-> NoResult]
    /\ at = 1
    /\ accepted = {}
    /\ failures = 0
    /\ exit = "none"
    /\ known = [h \in Host |-> 0]
    /\ key = [h \in Host |-> 1]
    /\ files = [f \in File |-> Absent]
    /\ view = [d \in Device |-> Nothing]
    /\ diverged = {}
    /\ faults = 0

\* The machine is set up again and presents another host key.
Reinstall(h) ==
    /\ h \in Reinstalled
    /\ Fault
    /\ key' = [key EXCEPT ![h] = 2]
    /\ key' # key
    /\ UNCHANGED <<pc, transport, task, result, at, accepted, failures, exit, known, files,
                   view, diverged>>

\* A run starts: every target gets a task, which waits for a permit.
StartRun ==
    /\ pc = "idle"
    /\ pc' = "collect"
    /\ transport' \in Transports
    /\ task' = [t \in Target |-> "queued"]
    /\ result' = [t \in Target |-> NoResult]
    /\ at' = 1
    /\ accepted' = {}
    /\ failures' = 0
    /\ UNCHANGED <<exit, known, key, files, view, diverged, faults>>

\* The tasks that hold a permit of the semaphore.
Running == {t \in Target : task[t] = "running"}

Acquire(t) ==
    /\ pc = "collect"
    /\ task[t] = "queued"
    /\ Cardinality(Running) < IF Workers > 1 THEN Workers ELSE 1
    /\ task' = [task EXCEPT ![t] = "running"]
    /\ UNCHANGED <<pc, transport, result, at, accepted, failures, exit, known, key, files,
                   view, diverged, faults>>

\* The end of a task: the permit is released, the slot of the target is set.
EndTask(t, r) ==
    /\ task[t] = "running"
    /\ task' = [task EXCEPT ![t] = "done"]
    /\ result' = [result EXCEPT ![t] = r]
    /\ UNCHANGED <<pc, transport, at, accepted, failures, exit, key, files, view, diverged>>

\* Wrong: a host that refuses is queued again.
ConnectFails_Retries(t) ==
    /\ transport = "russh"
    /\ Rejected(HostOf[t])
    /\ task[t] = "running"
    /\ task' = [task EXCEPT ![t] = "queued"]
    /\ UNCHANGED <<pc, transport, result, at, accepted, failures, exit, known, key, files,
                   view, diverged, faults>>

\* RusshSession::connect: the host key is not accepted, or there is no
\* connection or no authentication.
ConnectFails(t) ==
    /\ transport = "russh"
    /\ \/ Rejected(HostOf[t]) /\ UNCHANGED faults
       \/ Fault
    /\ EndTask(t, Failed)
    /\ UNCHANGED known

\* SshCliSession connects at every command: a refused host answers none of
\* them, and nothing tells it from a host without the tools.
CollectRefused(t) ==
    /\ transport = "cli"
    /\ Rejected(HostOf[t])
    /\ EndTask(t, inventory_remote_host(HostOf[t], Unreachable))
    /\ UNCHANGED <<known, faults>>

\* check_server_key learns an unknown key, best-effort.
Learn(h) == known' \in {known, [known EXCEPT ![h] = key[h]]}

Collect(t) ==
    /\ ~Rejected(HostOf[t])
    /\ known' = [known EXCEPT ![HostOf[t]] = key[HostOf[t]]]
    /\ EndTask(t, inventory_remote_host(HostOf[t], Healthy))
    /\ UNCHANGED faults

\* The connection breaks, or the known_hosts file cannot be written.
CollectBroken(t) ==
    /\ ~Rejected(HostOf[t])
    /\ Fault
    /\ Learn(HostOf[t])
    /\ \E answers \in Answers : EndTask(t, inventory_remote_host(HostOf[t], answers))

\* A collector panics: the permit is released, the slot stays empty.
Panics(t) ==
    /\ task[t] = "running"
    /\ Fault
    /\ task' = [task EXCEPT ![t] = "panicked"]
    /\ UNCHANGED known \/ (~Rejected(HostOf[t]) /\ Learn(HostOf[t]))
    /\ UNCHANGED <<pc, transport, result, at, accepted, failures, exit, key, files, view,
                   diverged>>

\* Wrong: a panic is counted like a host that failed, and the run goes on.
JoinFails_Counted ==
    /\ pc = "collect"
    /\ \E t \in Target : task[t] = "panicked"
    /\ \A t \in Target : task[t] \in {"done", "panicked"}
    /\ pc' = "submit"
    /\ result' = [t \in Target |-> IF task[t] = "panicked" THEN Failed ELSE result[t]]
    /\ UNCHANGED <<transport, task, at, accepted, failures, exit, known, key, files, view,
                   diverged, faults>>

\* The `?` on join_next: the run ends with the first panic that it meets, and
\* its JoinSet aborts the other tasks.
JoinFails ==
    /\ pc = "collect"
    /\ \E t \in Target : task[t] = "panicked"
    /\ pc' = "idle"
    /\ exit' = "panicked"
    /\ task' = [t \in Target |-> IF task[t] \in {"queued", "running"} THEN "aborted" ELSE task[t]]
    /\ UNCHANGED <<transport, result, at, accepted, failures, known, key, files, view, diverged,
                   faults>>

\* join_next has returned every task.
Joined ==
    /\ pc = "collect"
    /\ \A t \in Target : task[t] = "done"
    /\ pc' = "submit"
    /\ UNCHANGED <<transport, task, result, at, accepted, failures, exit, known, key, files,
                   view, diverged, faults>>
-----------------------------------------------------------------------------
Here(kind) == pc = "submit" /\ at <= NumTargets /\ result[at].kind = kind

\* Wrong: the state file is named after the host of the URL.
FileHere_Url == FileOf[UrlHost[HostOf[at]]]

FileHere == FileOf[result[at].device]

PlanHere == plan(result[at].content, files[FileHere])

\* A failed host is counted and passed over.
CountFailure ==
    /\ Here("failed")
    /\ failures' = failures + 1
    /\ at' = at + 1
    /\ UNCHANGED <<pc, transport, task, result, accepted, exit, known, key, files, view,
                   diverged, faults>>

\* The server takes the submission of the device.
Post ==
    view' = [view EXCEPT ![result[at].device] = Merge(@, PlanHere)]

Submit ==
    /\ Here("ok")
    /\ files[FileHere].kind # "torn"
    /\ Post
    /\ files' = [files EXCEPT ![FileHere] = Saved(PlanHere.state)]
    /\ diverged' = IF PlanHere.mode = "full" THEN diverged \ {result[at].device} ELSE diverged
    /\ accepted' = accepted \cup {at}
    /\ at' = at + 1
    /\ UNCHANGED <<pc, transport, task, result, failures, exit, known, key, faults>>

\* The `?` on submit_inventory: the run ends here, whatever was collected.
Abort ==
    /\ pc' = "idle"
    /\ exit' = "aborted"
    /\ UNCHANGED <<transport, task, result, at, accepted, failures, known, key>>

\* load_state cannot parse the device's file.
Malformed ==
    /\ Here("ok")
    /\ files[FileHere].kind = "torn"
    /\ Abort
    /\ UNCHANGED <<files, view, diverged, faults>>

Refused ==
    /\ Here("ok")
    /\ Fault
    /\ Abort
    /\ UNCHANGED <<files, view, diverged>>

\* The server applied it, but the answer is lost or the state cannot be saved.
NotSaved ==
    /\ Here("ok")
    /\ files[FileHere].kind # "torn"
    /\ Fault
    /\ Post
    /\ diverged' = diverged \cup {result[at].device}
    /\ files' \in {files, [files EXCEPT ![FileHere] = Torn]}
    /\ Abort

\* Maintenance of files that no submission of this run rewrote, then the exit.
Finish ==
    /\ pc = "submit"
    /\ at > NumTargets
    /\ \E stale \in SUBSET {f \in File : /\ files[f].kind # "absent"
                                         /\ \A t \in accepted : FileOf[result[t].device] # f} :
          files' = [f \in File |-> IF f \in stale THEN Absent ELSE files[f]]
    /\ pc' = "idle"
    /\ exit' = IF failures > 0 THEN "failed" ELSE "ok"
    /\ UNCHANGED <<transport, task, result, at, accepted, failures, known, key, view,
                   diverged, faults>>

\* Steps of a run in which nothing goes wrong that did not before.
Work ==
    \/ StartRun \/ Joined \/ JoinFails \/ CountFailure \/ Submit \/ Malformed \/ Finish
    \/ \E t \in Target :
          \/ Acquire(t)
          \/ Collect(t)
          \/ CollectRefused(t)
          \/ Rejected(HostOf[t]) /\ ConnectFails(t)

Next ==
    \/ \E h \in Host : Reinstall(h)
    \/ StartRun
    \/ \E t \in Target :
          \/ Acquire(t)
          \/ ConnectFails(t)
          \/ Collect(t)
          \/ CollectRefused(t)
          \/ CollectBroken(t)
          \/ Panics(t)
    \/ Joined
    \/ JoinFails
    \/ CountFailure
    \/ Submit
    \/ Malformed
    \/ Refused
    \/ NotSaved
    \/ Finish

Spec == Init /\ [][Next]_vars

\* The agent is run again and again, connections and requests time out, and
\* the tasks of a run are polled until they end.
FairSpec ==
    /\ Spec
    /\ WF_vars(StartRun) /\ WF_vars(Joined) /\ WF_vars(JoinFails) /\ WF_vars(Finish)
    /\ WF_vars(CountFailure \/ Submit \/ Malformed)
    /\ \A t \in Target : WF_vars(Acquire(t)) /\ 
             WF_vars(Collect(t) \/ CollectRefused(t) \/ ConnectFails(t))
-----------------------------------------------------------------------------
\* No other device writes the state file of d.
OwnFile(d) == \A e \in Device : FileOf[e] = FileOf[d] => e = d

(* The state file of a device describes what the server holds for it, over *)
(* runs whose hosts were collected in any order, lost connections, changed *)
(* names and aborts, until a submission was applied and not saved: the     *)
(* results are submitted under the device they were collected from.        *)
StateMatchesServer ==
    \A d \in Device :
        (OwnFile(d) /\ d \notin diverged /\ files[FileOf[d]].kind = "saved") =>
            Agrees(view[d], files[FileOf[d]].state.checksums)

(* The exit of a run accounts for every target, wherever it ends: well only *)
(* when the server took all of them; with a count of failures when it took  *)
(* those that were collected; an aborted run has submitted exactly the      *)
(* collected targets before the one it stopped at; and a run ends with a    *)
(* panic just when one of its tasks did, with nothing submitted, whatever   *)
(* was collected from the other targets.                                    *)
RunAccounts ==
    [][pc # "idle" /\ pc' = "idle" =>
          LET good == {t \in Target : result[t].kind = "ok"}
          IN /\ exit' = "ok" => accepted = Target
             /\ exit' = "failed" =>
                   accepted = good /\ failures = NumTargets - Cardinality(good) /\ failures > 0
             /\ exit' = "aborted" => accepted = good \cap 1..(at - 1) /\ at \in good
             /\ exit' = "panicked" <=> \E t \in Target : task[t] = "panicked"
             /\ exit' = "panicked" => accepted = {} /\ UNCHANGED <<files, view>>]_vars

(* Every run ends: whatever happens to a connection, the permit its task   *)
(* holds comes back, so that no queued target waits for ever, and a panic  *)
(* ends the run instead of leaving it to wait.                             *)
RemoteRunEnds == (pc = "collect") ~> (pc = "idle")

\* The device a host is when nothing fails.
DeviceOf(t) == resolve(HostOf[t], Healthy)

Current(t) == view[DeviceOf(t)] = collect(HostOf[t], Healthy)

TornBefore(t) ==
    \E u \in 1..t : files[FileOf[DeviceOf(u)]].kind = "torn"

(* Once connections hold and requests are answered, the server comes to    *)
(* hold the whole inventory of every target, cut or missing sections of    *)
(* earlier runs included.  The exceptions are a host whose key is refused, *)
(* and a state file cut short at this target or at an earlier one: it      *)
(* aborts every later run there, before the maintenance could remove it.   *)
Heals ==
    <>[][Work]_vars =>
        \A t \in Target :
            <>[]Current(t) \/ <>[]Rejected(HostOf[t]) \/ <>[]TornBefore(t)
=============================================================================

------------------------------- MODULE Deploy -------------------------------
(***************************************************************************)
(* One deployment order (glpi-deploy task.rs, checks.rs, downloader.rs,     *)
(* executor.rs): the preconditions, then the associated files, each         *)
(* fetched part by part from the mirrors and verified, then the actions up  *)
(* to the first that fails.                                                 *)
(*                                                                         *)
(* The disk is shared with the other programs of the machine, which may     *)
(* change it between any two steps; a mirror may answer a request with      *)
(* anything or not at all; a write may stop half way.                       *)
(*                                                                         *)
(* A content is the sequence of its parts and stands for its own SHA-512.   *)
(* A path is the sequence of its names below the working directory.         *)
(***************************************************************************)
EXTENDS Naturals, Sequences, FiniteSets

CONSTANTS
    Orders,          \* the orders the server may send
    Disks,           \* what is on the disk at first: [path -> content or Dir]
    Served,          \* parts a mirror may answer with
    Intrusions,      \* what the other programs may do: [path, content] records
    MaxIntrusions,   \* bound on their changes
    Dir, HalfWritten \* a directory; a file written half

Levels == {"ko", "warning", "info", "ignore"}

\* An order has lists of checks, files and actions; a digest is that of a file.
IsOrder(o) ==
    /\ Len(o.checks) \in Nat /\ Len(o.files) \in Nat /\ Len(o.actions) \in Nat
    /\ \A k \in 1..Len(o.checks) : o.checks[k].level \in Levels
    /\ \A k \in 1..Len(o.files) : o.files[k].sha512 # Dir
    /\ o.run_software_inventory \in BOOLEAN

ASSUME DeployAssumption ==
    /\ MaxIntrusions \in Nat
    /\ Dir # HalfWritten
    /\ \A d \in Disks : <<>> \in DOMAIN d /\ d[<<>>] = Dir
    /\ \A o \in Orders : IsOrder(o)

VARIABLES
    order,       \* the order
    disk,        \* what is there: [path -> content or Dir]
    phase,       \* "check", "fetch", "act" or "done"
    at,          \* the check, file or action it is at
    parts,       \* parts of this file fetched and verified
    mirror,      \* the mirror to ask next
    passed,      \* the outcome of each check made
    results,     \* the outcome of each action run
    report,      \* "", "ok", "refused", "download", "action" or "error"
    followed,    \* a software inventory is to follow
    intruded,    \* changes made by others
    done,        \* history: what this run did to the disk or started, in order
    touched      \* history: paths others or earlier writes of this run changed

progress == <<phase, at, parts, mirror>>
outcome == <<passed, results, report, followed>>
deploy_vars == <<order, disk, progress, outcome, intruded, done, touched>>

Reports == {"", "ok", "refused", "download", "action", "error"}

DeployTypeOK ==
    /\ order \in Orders
    /\ phase \in {"check", "fetch", "act", "done"} /\ at \in Nat /\ at >= 1
    /\ parts \in Seq(Served) /\ mirror \in Nat
    /\ passed \in Seq(BOOLEAN) /\ results \in Seq(BOOLEAN)
    /\ report \in Reports /\ followed \in BOOLEAN
    /\ intruded \in 0..MaxIntrusions
    /\ done \in Seq({"store", "action"} \X Nat)

DeployInit ==
    /\ order \in Orders /\ disk \in Disks
    /\ phase = "check" /\ at = 1 /\ parts = <<>> /\ mirror = 1
    /\ passed = <<>> /\ results = <<>> /\ report = "" /\ followed = FALSE
    /\ intruded = 0 /\ done = <<>> /\ touched = {}
-----------------------------------------------------------------------------
(* The file system. *)

Exists(path) == path \in DOMAIN disk
IsDir(path) == Exists(path) /\ disk[path] = Dir
IsFile(path) == Exists(path) /\ disk[path] # Dir
Parent(path) == SubSeq(path, 1, Len(path) - 1)
Under(path, dir) == Len(dir) <= Len(path) /\ SubSeq(path, 1, Len(dir)) = dir
Below(dir) == {p \in DOMAIN disk : Under(p, dir)}
Without(paths) == [p \in DOMAIN disk \ paths |-> disk[p]]
With(path, what) == [p \in DOMAIN disk \cup {path} |-> IF p = path THEN what ELSE disk[p]]

\* create_dir_all, remove_dir_all or remove_file, rename: whether each succeeds
\* and what it leaves.
CanMkdir(path) == \A k \in 0..Len(path) : ~IsFile(SubSeq(path, 1, k))
Mkdir(path) ==
    LET new == {SubSeq(path, 1, k) : k \in 0..Len(path)}
    IN [p \in DOMAIN disk \cup new |-> IF p \in new THEN Dir ELSE disk[p]]

CanDelete(path) == Exists(path)

CanMove(from, to) ==
    /\ Exists(from) /\ IsDir(Parent(to))
    /\ \/ from = to
       \/ IsFile(from) /\ ~IsDir(to)
       \/ IsDir(from) /\ ~IsFile(to) /\ ~Under(to, from) /\ Below(to) \subseteq {to}
Move(from, to) ==
    LET moved == {to \o SubSeq(p, Len(from) + 1, Len(p)) : p \in Below(from)}
        rest == (DOMAIN disk \ Below(from)) \cup moved
    IN [p \in rest |-> IF p \in moved THEN disk[from \o SubSeq(p, Len(to) + 1, Len(p))]
                       ELSE disk[p]]

CanWrite(path) == IsDir(Parent(path)) /\ ~IsDir(path)
-----------------------------------------------------------------------------
(* The preconditions. *)

\* RealEnv does not know the free space, and that is taken for enough.
evaluate_one(check) ==
    LET path == check.path
    IN \/ check.type = "fileExists" /\ Exists(path)
       \/ check.type = "fileMissing" /\ ~Exists(path)
       \/ check.type = "directoryExists" /\ IsDir(path)
       \/ /\ check.type = "fileSizeGreater"
          /\ IsFile(path) /\ disk[path] # HalfWritten /\ Len(disk[path]) > check.value
       \/ check.type = "freespaceGreater"
       \/ check.type = "fileSHA512" /\ IsFile(path) /\ disk[path] = check.value
       \/ check.type = "fileSHA512mismatch" /\ ~(IsFile(path) /\ disk[path] = check.value)

proceed == \A k \in 1..Len(passed) : passed[k] \/ order.checks[k].level # "ko"

\* Every check is made, also after one that failed.
EvaluateCheck ==
    /\ phase = "check" /\ at <= Len(order.checks)
    /\ passed' = Append(passed, evaluate_one(order.checks[at]))
    /\ at' = at + 1
    /\ UNCHANGED <<order, disk, phase, parts, mirror, results, report, followed, intruded,
                   done, touched>>

Report(what) == phase' = "done" /\ report' = what

Checked ==
    /\ phase = "check" /\ at > Len(order.checks)
    /\ IF proceed THEN phase' = "fetch" /\ at' = 1 /\ UNCHANGED report
       ELSE Report("refused") /\ UNCHANGED at
    /\ UNCHANGED <<order, disk, parts, mirror, passed, results, followed, intruded, done,
                   touched>>
-----------------------------------------------------------------------------
(* The associated files, in the order of their digests. *)

File == order.files[at]

Fetching == phase = "fetch" /\ at <= Len(order.files)

\* The next mirror, or the order fails.
FetchFails ==
    /\ Fetching /\ Len(parts) < Len(File.multiparts)
    /\ IF mirror < File.mirrors
       THEN mirror' = mirror + 1 /\ UNCHANGED <<phase, report>>
       ELSE Report("download") /\ UNCHANGED mirror
    /\ UNCHANGED <<order, disk, at, parts, passed, results, followed, intruded, done, touched>>

\* The first answer is the part, whatever it is: one that is not the part that
\* was asked for fails the order, and no other mirror is asked.
FetchPart ==
    /\ Fetching /\ Len(parts) < Len(File.multiparts) /\ mirror <= File.mirrors
    /\ \E part \in Served :
          IF part = File.multiparts[Len(parts) + 1]
          THEN parts' = Append(parts, part) /\ mirror' = 1 /\ UNCHANGED <<phase, report>>
          ELSE Report("download") /\ UNCHANGED <<parts, mirror>>
    /\ UNCHANGED <<order, disk, at, passed, results, followed, intruded, done, touched>>

Whole == Fetching /\ Len(parts) = Len(File.multiparts)

\* Wrong: that every part is right is taken for the whole to be right.
Verified_PartsOnly == TRUE

Verified == parts = File.sha512

Mismatch ==
    /\ Whole /\ ~Verified
    /\ Report("download")
    /\ UNCHANGED <<order, disk, at, parts, mirror, passed, results, followed, intruded, done,
                   touched>>

NextFile == at' = at + 1 /\ mirror' = 1 /\ parts' = <<>>

Store ==
    /\ Whole /\ Verified /\ CanWrite(File.path)
    /\ disk' = With(File.path, parts)
    /\ NextFile
    /\ done' = Append(done, <<"store", at>>)
    /\ UNCHANGED <<order, phase, outcome, intruded, touched>>

\* Wrong: a file that cannot be written is left out.
WriteFailed_GoesOn == NextFile /\ UNCHANGED <<phase, report>>

WriteFailed == Report("download") /\ UNCHANGED <<at, parts, mirror>>

\* Nothing is written, or the disk is full half way.
StoreFails ==
    /\ Whole /\ Verified
    /\ \/ UNCHANGED <<disk, touched>>
       \/ CanWrite(File.path) /\ disk' = With(File.path, HalfWritten)
          /\ touched' = touched \cup {File.path}
    /\ WriteFailed
    /\ UNCHANGED <<order, passed, results, followed, intruded, done>>

Fetched ==
    /\ phase = "fetch" /\ at > Len(order.files)
    /\ phase' = "act" /\ at' = 1
    /\ UNCHANGED <<order, disk, parts, mirror, outcome, intruded, done, touched>>
-----------------------------------------------------------------------------
(* The actions. *)

Action == order.actions[at]

Acting == phase = "act" /\ at <= Len(order.actions)

\* The first action that fails ends the order; nothing is undone.
Result(success) ==
    /\ results' = Append(results, success)
    /\ IF success THEN at' = at + 1 /\ UNCHANGED <<phase, report>>
       ELSE Report("action") /\ UNCHANGED at

CanDo(a) ==
    \/ a.kind = "move" /\ CanMove(a.from, a.to)
    \/ a.kind = "mkdir" /\ CanMkdir(a.path)
    \/ a.kind = "delete" /\ CanDelete(a.path)

Do(a) ==
    \/ a.kind = "move" /\ disk' = Move(a.from, a.to)
    \/ a.kind = "mkdir" /\ disk' = Mkdir(a.path)
    \/ a.kind = "delete" /\ disk' = Without(Below(a.path))

\* Files are renamed, made and removed, or that fails and changes nothing.
FileAction ==
    /\ Acting /\ Action.kind \in {"move", "mkdir", "delete"}
    /\ \/ CanDo(Action) /\ Do(Action) /\ Result(TRUE)
       \/ ~CanDo(Action) /\ UNCHANGED disk /\ Result(FALSE)
    /\ done' = Append(done, <<"action", at>>)
    /\ UNCHANGED <<order, parts, mirror, passed, followed, intruded, touched>>

\* No return checks: exit code 0.  Otherwise each of them, and the exit code
\* only counts if one asks for it.
evaluate_checks(checks, output) ==
    IF checks = <<>> THEN output.code = 0
    ELSE \A k \in 1..Len(checks) :
            /\ checks[k].type = "okCode" => output.code \in checks[k].values
            /\ checks[k].type = "okPattern" => output.words \cap checks[k].values # {}
            /\ checks[k].type = "errorPattern" => output.words \cap checks[k].values = {}

\* A command ends by its code, or by a signal (code 256 here: none).
CommandAction ==
    /\ Acting /\ Action.kind = "cmd"
    /\ \E output \in [code : {0, 1, 256}, words : SUBSET {"ok", "error"}] :
          Result(evaluate_checks(Action.ret_checks, output))
    /\ done' = Append(done, <<"action", at>>)
    /\ UNCHANGED <<order, disk, parts, mirror, passed, followed, intruded, touched>>

\* The shell cannot be started: an error in place of a report.
SpawnFails ==
    /\ Acting /\ Action.kind = "cmd"
    /\ Report("error")
    /\ UNCHANGED <<order, disk, at, parts, mirror, passed, results, followed, intruded, done,
                   touched>>

Finish ==
    /\ phase = "act" /\ at > Len(order.actions)
    /\ Report("ok") /\ followed' = order.run_software_inventory
    /\ UNCHANGED <<order, disk, at, parts, mirror, passed, results, intruded, done, touched>>
-----------------------------------------------------------------------------
\* Another program writes, replaces or removes a file.
Intrude ==
    /\ phase # "done" /\ intruded < MaxIntrusions
    /\ \E i \in Intrusions :
          /\ \/ CanWrite(i.path) /\ disk' = With(i.path, i.content)
             \/ IsFile(i.path) /\ disk' = Without({i.path})
          /\ touched' = touched \cup {i.path}
    /\ intruded' = intruded + 1
    /\ UNCHANGED <<order, progress, outcome, done>>

Terminated == phase = "done" /\ UNCHANGED deploy_vars

DeployNext ==
    \/ EvaluateCheck \/ Checked
    \/ FetchPart \/ FetchFails \/ Mismatch \/ Store \/ StoreFails \/ Fetched
    \/ FileAction \/ CommandAction \/ SpawnFails \/ Finish
    \/ Intrude \/ Terminated

DeploySpec == DeployInit /\ [][DeployNext]_deploy_vars
-----------------------------------------------------------------------------
(* When the actions begin, every associated file is there with the content  *)
(* of its digest, whatever the mirrors served: unless another program, or a *)
(* later file of the same path, has replaced it.                            *)
ActionsOnVerified ==
    (phase = "act" /\ results = <<>>) =>
        \A k \in 1..Len(order.files) :
            LET path == order.files[k].path
            IN \/ path \in touched
               \/ \E l \in (k + 1)..Len(order.files) : order.files[l].path = path
               \/ IsFile(path) /\ disk[path] = order.files[k].sha512

Steps(n, kind) == [k \in 1..n |-> <<kind, k>>]

(* The report is true of the machine: a refused order has done nothing to   *)
(* it, a failed download has run no action, and an order that ran is        *)
(* reported with exactly the actions that were tried, of which only the     *)
(* last may have failed; only a whole success is followed by an inventory.  *)
ReportAccounts ==
    phase = "done" =>
        LET files == Len(order.files)
            stored == Steps(files, "store")
            tried == stored \o Steps(Len(results), "action")
            succeeded == \A k \in 1..Len(results) : results[k]
        IN /\ report = "ok" => /\ done = tried /\ succeeded
                               /\ Len(results) = Len(order.actions)
           /\ report = "action" => /\ done = tried /\ ~succeeded
                                   /\ \A k \in 1..(Len(results) - 1) : results[k]
           /\ report = "error" => done = tried /\ succeeded
           /\ report = "download" => \E n \in 0..(files - 1) : done = Steps(n, "store")
           /\ report = "refused" <=> \E k \in 1..Len(passed) :
                                        ~passed[k] /\ order.checks[k].level = "ko"
           /\ report = "refused" => done = <<>>
           /\ followed <=> report = "ok" /\ order.run_software_inventory
=============================================================================

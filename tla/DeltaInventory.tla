--------------------------- MODULE DeltaInventory ---------------------------
(***************************************************************************)
(* Delta (partial) inventory of one device: glpi-core protocol/delta.rs    *)
(* and its only caller, submit_inventory of glpi-cli main.rs.              *)
(*                                                                         *)
(* A run of the agent loads the device's state file, plans a full or a     *)
(* partial submission, posts it to every configured server in order and,   *)
(* when all of them accepted it, writes the new state file.  Nothing       *)
(* serialises the state file with the servers: a run can die, be refused   *)
(* or lose a response between any two of those steps.                      *)
(*                                                                         *)
(* Data: see DeltaState.  The properties of divergence are stated on       *)
(* checksums and do not assume the hash injective.                         *)
(***************************************************************************)
EXTENDS DeltaState

CONSTANTS
    Contents,        \* the contents the collector may produce
    NumServers,      \* servers that may ever be configured
    InitialServers,  \* servers configured when the device is first inventoried
    Pruning          \* TRUE when remoteinventory runs share the state directory

ASSUME ContentAssumption ==
    /\ Contents \subseteq Content
    /\ Contents # {}
    /\ [s \in Section |-> Missing] \notin Contents

ASSUME ConfigAssumption ==
    /\ NumServers \in Nat
    /\ InitialServers \in 1..NumServers
    /\ Pruning \in BOOLEAN

VARIABLES
    content,     \* what collecting the device would return now
    file,        \* the state file on disk
    pc,          \* where the run stands: idle, submit or save
    run,         \* the DeltaPlan of the run in progress
    next,        \* the server the loop of submit_inventory has reached
    active,      \* number of configured servers
    view,        \* the inventory each server holds for the device
    diverged     \* history: a failed run reached a server, or one was added, no full run since

vars == <<content, file, pc, run, next, active, view, diverged>>

Server == 1..NumServers
-----------------------------------------------------------------------------
Init ==
    /\ content \in Contents
    /\ file = Absent
    /\ pc = "idle"
    /\ run = NoRun
    /\ next = 1
    /\ active = InitialServers
    /\ view = [i \in Server |-> Nothing]
    /\ diverged = FALSE

\* The device changes: hardware, software, users ...
ContentChanges ==
    /\ content' \in Contents \ {content}
    /\ UNCHANGED <<file, pc, run, next, active, view, diverged>>

\* Another server is added to the configuration; the next run reads it.
AddServer ==
    /\ pc = "idle"
    /\ active < NumServers
    /\ active' = active + 1
    /\ diverged' = TRUE
    /\ UNCHANGED <<content, file, pc, run, next, view>>

\* The state file is older than 30 days and a remoteinventory run of other
\* targets ends with its maintenance, whatever this run is doing.
prune_stale ==
    /\ Pruning
    /\ file.kind # "absent"
    /\ file' = Absent
    /\ UNCHANGED <<content, pc, run, next, active, view, diverged>>

\* Server `next` applies the submission.
Apply ==
    /\ view' = [view EXCEPT ![next] = Merge(@, run)]

\* The run returns an error or the process dies: no state is saved.
Abandon ==
    /\ pc' = "idle"
    /\ run' = NoRun
    /\ next' = 1

\* Wrong: a malformed state file is taken for a missing one.
StartRun_TornIsAbsent ==
    /\ pc = "idle"
    /\ run' = plan(content, IF file.kind = "torn" THEN Absent ELSE file)
    /\ pc' = "submit"
    /\ next' = 1
    /\ UNCHANGED <<content, file, active, view, diverged>>

\* Collect, load_state, plan.  A malformed state file fails the run at once.
StartRun ==
    /\ pc = "idle"
    /\ file.kind # "torn"
    /\ run' = plan(content, file)
    /\ pc' = "submit"
    /\ next' = 1
    /\ UNCHANGED <<content, file, active, view, diverged>>

\* Wrong: the loop leaves after the first server that accepts.
SubmitOk_FirstOnly ==
    /\ pc = "submit"
    /\ Apply
    /\ next' = next + 1
    /\ pc' = "save"
    /\ UNCHANGED <<content, file, run, active, diverged>>

\* The request is accepted; the loop goes on to the next server.
SubmitOk ==
    /\ pc = "submit"
    /\ Apply
    /\ next' = next + 1
    /\ pc' = IF next = active THEN "save" ELSE "submit"
    /\ UNCHANGED <<content, file, run, active, diverged>>

\* Wrong: the error of one server is logged and the loop goes on.
SubmitFails_Ignored ==
    /\ pc = "submit"
    /\ next' = next + 1
    /\ pc' = IF next = active THEN "save" ELSE "submit"
    /\ UNCHANGED <<content, file, run, active, view, diverged>>

\* The request fails (or the process dies) before the server applied it.
SubmitFails ==
    /\ pc = "submit"
    /\ Abandon
    /\ diverged' = (diverged \/ next > 1)
    /\ UNCHANGED <<content, file, active, view>>

\* The server applies the submission but its answer never arrives.
ResponseLost ==
    /\ pc = "submit"
    /\ Apply
    /\ Abandon
    /\ diverged' = TRUE
    /\ UNCHANGED <<content, file, active>>

\* save_state: the run is complete.
SaveState ==
    /\ pc = "save"
    /\ file' = Saved(run.state)
    /\ diverged' = (diverged /\ run.mode = "partial")
    /\ Abandon
    /\ UNCHANGED <<content, active, view>>

\* The process dies, or the disk fills up, before or inside fs::write.
SaveFails ==
    /\ pc = "save"
    /\ file' \in {file, Torn}
    /\ diverged' = TRUE
    /\ Abandon
    /\ UNCHANGED <<content, active, view>>

\* What the agent does by itself when nothing goes wrong.
Work == StartRun \/ SubmitOk \/ SaveState

Next ==
    \/ ContentChanges
    \/ AddServer
    \/ prune_stale
    \/ StartRun
    \/ SubmitOk
    \/ SubmitFails
    \/ ResponseLost
    \/ SaveState
    \/ SaveFails

Spec == Init /\ [][Next]_vars

\* The agent is run again and again (cron, a timer) and every run ends.
FairSpec == Spec /\ WF_vars(StartRun) /\ WF_vars(SubmitOk) /\ WF_vars(SaveState)
-----------------------------------------------------------------------------
TypeOK ==
    /\ content \in Contents
    /\ file \in [kind : {"absent", "torn", "saved"}, state : InventoryState]
    /\ pc \in {"idle", "submit", "save"}
    /\ run \in DeltaPlan
    /\ next \in 1..(NumServers + 1)
    /\ active \in InitialServers..NumServers
    /\ view \in [Server -> Content]
    /\ diverged \in BOOLEAN

\* The run in progress is a plan of what it collected, and stands where its
\* pc says.
RunInv ==
    /\ file.kind = "torn" => pc = "idle"
    /\ pc = "idle" => next = 1
    /\ pc = "submit" => next <= active
    /\ pc = "save" => next = active + 1
    /\ pc # "idle" =>
          /\ run.content \in Contents
          /\ run.state.checksums = section_checksums(run.content)
          /\ run.changed \subseteq Present(run.content)

\* The servers the loop has passed hold what the run sends.
SentInv ==
    pc # "idle" =>
        \A i \in 1..(next - 1) :
            /\ run.mode = "full" => view[i] = run.content
            /\ (run.mode = "partial" /\ ~diverged) =>
                  Agrees(view[i], run.state.checksums)

\* The others already agree with the sections a partial leaves out.
UnsentInv ==
    (pc # "idle" /\ run.mode = "partial" /\ ~diverged) =>
        \A i \in next..active : \A s \in Section \ run.changed :
            run.state.checksums[s] # Missing =>
                SumOf(view[i][s]) = run.state.checksums[s]

\* Until a run reaches its first server, the state file describes them all.
FileInv ==
    (file.kind = "saved" /\ next = 1 /\ ~diverged) =>
        \A i \in 1..active : Agrees(view[i], file.state.checksums)

\* A saved state, or a partial planned from one, means that every server
\* configured from the start has been given a full inventory.
BaselineInv ==
    (file.kind = "saved" \/ (pc # "idle" /\ run.mode = "partial")) =>
        \A i \in 1..InitialServers : view[i] # Nothing

IInv == TypeOK /\ RunInv /\ SentInv /\ UnsentInv /\ FileInv /\ BaselineInv

(* As long as no failed run has reached a server since the last full run,  *)
(* a server holds, for every section the state file tracks, a value with   *)
(* the checksum the file records, so that leaving the section out of a     *)
(* partial is right: submit_inventory saves only what all servers took.    *)
StateMatchesServers ==
    (pc = "idle" /\ file.kind = "saved" /\ ~diverged) =>
        \A i \in 1..active : Agrees(view[i], file.state.checksums)

(* A run that completes as a full one leaves every configured server with  *)
(* exactly the content it collected, removed sections included, whatever   *)
(* failed before: the full inventory repairs every divergence.             *)
FullRunRepairs ==
    [][(SaveState /\ run.mode = "full") =>
          \A i \in 1..active : view'[i] = run.content]_vars

(* A partial is only ever posted to a server that already holds a full     *)
(* inventory, for the servers that were configured from the start: plan    *)
(* goes partial only over a state that all of them vouched for.            *)
PartialHasBaseline ==
    (pc = "submit" /\ run.mode = "partial") =>
        \A i \in 1..InitialServers : view[i] # Nothing

(* A state file cut short by a crash stops the device's inventory for      *)
(* good: every later run fails in load_state, and no server hears of the   *)
(* device again (unless the maintenance of another run prunes the file).   *)
TornStopsDevice ==
    [][file.kind = "torn" => prune_stale \/ UNCHANGED <<file, view>>]_vars

(* Once the device and the configuration stop changing and runs stop       *)
(* failing, the servers converge on the device's content, since at most    *)
(* MaxPostpone partials precede the next full; a torn file is the          *)
(* exception.                                                              *)
Converges ==
    <>[][Work]_vars =>
        \/ <>[](file.kind = "torn")
        \/ <>[](\A i \in 1..active : view[i] = content)
=============================================================================

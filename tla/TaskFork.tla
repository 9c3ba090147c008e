------------------------------ MODULE TaskFork ------------------------------
(***************************************************************************)
(* One task run in a forked worker: the framed protocol of glpi-scheduler  *)
(* ipc.rs, its two halves in fork.rs, and their users forked_scan,         *)
(* run_task_worker and run_worker_task in glpi-cli main.rs.                *)
(*                                                                         *)
(* A frame is a 4-byte length and a JSON body.  It crosses the worker's    *)
(* stdout pipe in three pieces, so that a worker which dies can cut it     *)
(* inside the length, after it, or between frames: "head" is some but not  *)
(* all bytes of the length, "len" the rest of it, "body" the JSON.  Only   *)
(* the size class of a result is kept: a huge one is over MAX_FRAME_LEN    *)
(* once encoded, and under the 4 GiB that the writer accepts.              *)
(***************************************************************************)
EXTENDS Naturals, Sequences

CONSTANTS
    Small, Huge,  \* the results a task may produce, by encoded size
    Capacity      \* how many pieces the pipe holds before the writer blocks

ASSUME ForkAssumption == Capacity \in Nat \ {0} /\ Small \cap Huge = {}

VARIABLES
    worker,    \* the next thing the worker does
    out,       \* the pieces of the frame it is writing
    pipe,      \* the pieces in flight
    parent,    \* where forked_scan stands
    got,       \* pieces of the current frame that read_message has consumed
    results,   \* what collect_messages has accumulated
    outcome,   \* pending, success, failure (no Done, or Done(false)), error
    printed,   \* what forked_scan prints
    verdict,   \* history: running, succeeded, failed or lost
    produced   \* history: the results run_worker_task has reported

vars == <<worker, out, pipe, parent, got, results, outcome, printed, verdict, produced>>

Result == Small \cup Huge

Log == [kind |-> "log"]
Progress == [kind |-> "progress"]
ResultOf(r) == [kind |-> "result", data |-> r]
Done(ok) == [kind |-> "done", success |-> ok]

\* A piece of a frame; what it is a piece of matters once it is complete.
Frame(m) == <<[part |-> "head", msg |-> m], [part |-> "len", msg |-> m],
              [part |-> "body", msg |-> m]>>

TooLong(m) == m.kind = "result" /\ m.data \in Huge

\* The worker process is there; its end of the pipe is open.
Alive == worker \notin {"unborn", "gone"}

\* The parent holds the read end of the pipe.
Reads == parent \in {"sending", "reading", "waiting"}
-----------------------------------------------------------------------------
Init ==
    /\ worker = "unborn"
    /\ out = <<>>
    /\ pipe = <<>>
    /\ parent = "starting"
    /\ got = 0
    /\ results = <<>>
    /\ outcome = "pending"
    /\ printed = <<>>
    /\ verdict = "running"
    /\ produced = <<>>

-----------------------------------------------------------------------------
(* The worker. *)

Emit(m) == out' = Frame(m)

\* read_initial_event returned the event; the first log line is reported.
Greet ==
    /\ worker = "begin"
    /\ out = <<>>
    /\ Emit(Log)
    /\ worker' = "prepare"
    /\ UNCHANGED <<pipe, parent, got, results, outcome, printed, verdict, produced>>

\* The task is unknown or its ranges do not parse, or the task begins: a scan,
\* or the self-test, which has its result at once.
Prepare ==
    /\ worker = "prepare"
    /\ out = <<>>
    /\ \/ /\ worker' = "complain"
          /\ verdict' = "failed"
          /\ UNCHANGED out
       \/ /\ Emit(Progress)
          /\ worker' \in {"scan", "report"}
          /\ UNCHANGED verdict
    /\ UNCHANGED <<pipe, parent, got, results, outcome, printed, produced>>

\* The scan ends; 100 % is reported.
Scan ==
    /\ worker = "scan"
    /\ out = <<>>
    /\ Emit(Progress)
    /\ worker' = "report"
    /\ UNCHANGED <<pipe, parent, got, results, outcome, printed, verdict, produced>>

\* reporter.result: the devices found.
Report ==
    /\ worker = "report"
    /\ out = <<>>
    /\ \E r \in Result : Emit(ResultOf(r)) /\ produced' = Append(produced, r)
    /\ worker' = "finish"
    /\ UNCHANGED <<pipe, parent, got, results, outcome, printed, verdict>>

\* run_worker_task returned Ok.
Finish ==
    /\ worker = "finish"
    /\ out = <<>>
    /\ Emit(Done(TRUE))
    /\ verdict' = "succeeded"
    /\ worker' = "exit"
    /\ UNCHANGED <<pipe, parent, got, results, outcome, printed, produced>>

\* run_worker_task returned an error: log it, then Done(false).
Complain ==
    /\ worker = "complain"
    /\ out = <<>>
    /\ Emit(Log)
    /\ worker' = "giveup"
    /\ UNCHANGED <<pipe, parent, got, results, outcome, printed, verdict, produced>>

GiveUp ==
    /\ worker = "giveup"
    /\ out = <<>>
    /\ Emit(Done(FALSE))
    /\ worker' = "exit"
    /\ UNCHANGED <<pipe, parent, got, results, outcome, printed, verdict, produced>>

\* One more piece of the frame goes into the pipe, when there is room.
WritePiece ==
    /\ Alive
    /\ Reads
    /\ out # <<>>
    /\ Len(pipe) < Capacity
    /\ pipe' = Append(pipe, Head(out))
    /\ out' = Tail(out)
    /\ UNCHANGED <<worker, parent, got, results, outcome, printed, verdict, produced>>

\* The process ends: what it had not written is lost.
Gone ==
    /\ worker' = "gone"
    /\ out' = <<>>
    /\ verdict' = IF verdict = "running" THEN "lost" ELSE verdict

\* Nobody reads any more: the write fails, `?` ends the worker (the error log
\* is allowed to fail, the Done that follows is not).
WriteFails ==
    /\ Alive
    /\ ~Reads
    /\ out # <<>>
    /\ Gone
    /\ UNCHANGED <<pipe, parent, got, results, outcome, printed, produced>>

Exit ==
    /\ worker = "exit"
    /\ out = <<>>
    /\ Gone
    /\ UNCHANGED <<pipe, parent, got, results, outcome, printed, produced>>

\* The worker panics, is killed, or finds no event on its stdin.
WorkerDies ==
    /\ Alive
    /\ Gone
    /\ UNCHANGED <<pipe, parent, got, results, outcome, printed, produced>>
-----------------------------------------------------------------------------
(* The parent. *)

\* TaskWorker::spawn starts the process, or cannot.
Spawn ==
    /\ parent = "starting"
    /\ worker' = "await"
    /\ parent' = "sending"
    /\ UNCHANGED <<out, pipe, got, results, outcome, printed, verdict, produced>>

\* The run is over for forked_scan; kill_on_drop ends a worker still there.
End(result, texts) ==
    /\ parent' = "ended"
    /\ outcome' = result
    /\ printed' = texts
    /\ IF Alive THEN Gone ELSE UNCHANGED <<worker, out, verdict>>

SpawnFails ==
    /\ parent = "starting"
    /\ End("error", <<>>)
    /\ UNCHANGED <<pipe, got, results, produced>>

\* The event is written; read_initial_event gives it to the worker.
SendEvent ==
    /\ parent = "sending"
    /\ worker = "await"
    /\ worker' = "begin"
    /\ parent' = "reading"
    /\ UNCHANGED <<out, pipe, got, results, outcome, printed, verdict, produced>>

\* The worker died first and the write of the event fails.
SendFails ==
    /\ parent = "sending"
    /\ worker = "gone"
    /\ End("error", <<>>)
    /\ UNCHANGED <<pipe, got, results, produced>>

\* read_message consumes the next piece of the length.
ReadHead ==
    /\ parent = "reading"
    /\ pipe # <<>>
    /\ got = 0
    /\ pipe' = Tail(pipe)
    /\ got' = 1
    /\ UNCHANGED <<worker, out, parent, results, outcome, printed, verdict, produced>>

\* Wrong: a frame that is too long is skipped, its body left in the channel.
ReadLen_Skips ==
    /\ parent = "reading"
    /\ pipe # <<>>
    /\ got = 1
    /\ pipe' = Tail(pipe)
    /\ got' = IF TooLong(Head(pipe).msg) THEN 0 ELSE 2
    /\ UNCHANGED <<worker, out, parent, results, outcome, printed, verdict, produced>>

\* The length is complete: refuse it when it is over MAX_FRAME_LEN.
ReadLen ==
    /\ parent = "reading"
    /\ pipe # <<>>
    /\ got = 1
    /\ pipe' = Tail(pipe)
    /\ got' = 2
    /\ IF TooLong(Head(pipe).msg)
       THEN End("error", <<>>)
       ELSE UNCHANGED <<worker, out, parent, outcome, printed, verdict>>
    /\ UNCHANGED <<results, produced>>

\* What a message makes of the outcome.
Told(m) ==
    IF m.kind # "done" THEN outcome ELSE IF m.success THEN "success" ELSE "failure"

\* Wrong: the result is taken for the last message.
ReadBody_StopsAtResult ==
    /\ parent = "reading"
    /\ pipe # <<>>
    /\ got = 2
    /\ pipe' = Tail(pipe)
    /\ got' = 0
    /\ LET m == Head(pipe).msg IN
       /\ results' = IF m.kind = "result" THEN Append(results, m.data) ELSE results
       /\ parent' = IF m.kind \in {"result", "done"} THEN "waiting" ELSE "reading"
       /\ outcome' = Told(m)
    /\ UNCHANGED <<worker, out, printed, verdict, produced>>

\* The frame is complete: collect_messages handles the message.
ReadBody ==
    /\ parent = "reading"
    /\ pipe # <<>>
    /\ got = 2
    /\ pipe' = Tail(pipe)
    /\ got' = 0
    /\ LET m == Head(pipe).msg IN
       /\ results' = IF m.kind = "result" THEN Append(results, m.data) ELSE results
       /\ parent' = IF m.kind = "done" THEN "waiting" ELSE "reading"
       /\ outcome' = Told(m)
    /\ UNCHANGED <<worker, out, printed, verdict, produced>>

\* Wrong: the end of the channel is taken for the end of a good run.
ReadEof_IsDone ==
    /\ parent = "reading"
    /\ pipe = <<>>
    /\ worker = "gone"
    /\ IF got = 2
       THEN End("error", <<>>)
       ELSE /\ parent' = "waiting"
            /\ outcome' = "success"
            /\ UNCHANGED <<worker, out, printed, verdict>>
    /\ UNCHANGED <<pipe, got, results, produced>>

\* End of file.  Inside a body it is an error; inside the length it reads as
\* a clean end, as it does between frames: no Done, the run failed.
ReadEof ==
    /\ parent = "reading"
    /\ pipe = <<>>
    /\ worker = "gone"
    /\ IF got = 2
       THEN End("error", <<>>)
       ELSE /\ parent' = "waiting"
            /\ outcome' = "failure"
            /\ UNCHANGED <<worker, out, printed, verdict>>
    /\ UNCHANGED <<pipe, got, results, produced>>

\* The process is reaped and forked_scan prints the results, whatever Done said.
Reap ==
    /\ parent = "waiting"
    /\ worker = "gone"
    /\ parent' = "ended"
    /\ printed' = results
    /\ UNCHANGED <<worker, out, pipe, got, results, outcome, verdict, produced>>

\* The daemon itself is killed: nothing is dropped, the worker is orphaned.
ParentDies ==
    /\ Reads
    /\ parent' = "dead"
    /\ UNCHANGED <<worker, out, pipe, got, results, outcome, printed, verdict, produced>>
-----------------------------------------------------------------------------
Work ==
    \/ Greet \/ Prepare \/ Scan \/ Report \/ Finish \/ Complain \/ GiveUp
    \/ WritePiece \/ WriteFails \/ Exit

\* A worker whose parent died before sending the event finds its stdin closed.
NoEvent == worker = "await" /\ parent = "dead" /\ WorkerDies

Collect ==
    \/ Spawn \/ SendEvent \/ SendFails \/ ReadHead \/ ReadLen \/ ReadBody
    \/ ReadEof \/ Reap

\* The run is over and nothing is left.
Finished ==
    /\ parent \in {"ended", "dead"}
    /\ ~Alive
    /\ UNCHANGED vars

Next ==
    \/ Greet \/ Prepare \/ Scan \/ Report \/ Finish \/ Complain \/ GiveUp
    \/ WritePiece \/ WriteFails \/ Exit \/ WorkerDies
    \/ Spawn \/ SpawnFails \/ SendEvent \/ SendFails
    \/ ReadHead \/ ReadLen \/ ReadBody \/ ReadEof \/ Reap
    \/ ParentDies
    \/ Finished

Spec == Init /\ [][Next]_vars

\* Both processes run as long as they can; a scan ends (every probe has a
\* timeout); nothing obliges anyone to die.
FairSpec == Spec /\ WF_vars(Work) /\ WF_vars(NoEvent) /\ WF_vars(Collect)
-----------------------------------------------------------------------------
Message == {Log, Progress, Done(TRUE), Done(FALSE)} \cup {ResultOf(r) : r \in Result}
Piece == [part : {"head", "len", "body"}, msg : Message]

TypeOK ==
    /\ worker \in {"unborn", "await", "begin", "prepare", "scan", "report", "finish",
                   "complain", "giveup", "exit", "gone"}
    /\ out \in Seq(Piece) /\ Len(out) <= 3
    /\ pipe \in Seq(Piece) /\ Len(pipe) <= Capacity
    /\ parent \in {"starting", "sending", "reading", "waiting", "ended", "dead"}
    /\ got \in 0..2
    /\ results \in Seq(Result)
    /\ outcome \in {"pending", "success", "failure", "error"}
    /\ printed \in Seq(Result)
    /\ verdict \in {"running", "succeeded", "failed", "lost"}
    /\ produced \in Seq(Result)

(* The pieces come out of the pipe in the order read_message expects them:   *)
(* whatever is cut off, the two sides never lose the frame boundary.         *)
FrameAligned ==
    (parent = "reading" /\ pipe # <<>>) =>
        Head(pipe).part = <<"head", "len", "body">>[got + 1]

(* The parent never waits for a worker that waits for the parent: once Done  *)
(* was read the worker has nothing left to write, so wait() returns.         *)
WaitedWorkerIsDone ==
    (parent = "waiting" /\ Alive) => worker = "exit" /\ out = <<>> /\ pipe = <<>>

(* Seen from the daemon the protocol is a task run: success only for a task  *)
(* that succeeded and with every result it produced, failures with a prefix. *)
Abstract == INSTANCE TaskRun WITH
    task <- verdict,
    outcome <- IF parent # "ended" THEN "pending"
               ELSE IF outcome = "success" THEN "success" ELSE "failure"

TaskRunSpec == Abstract!Spec

(* Every run ends: the daemon gets its outcome unless it is killed, and no   *)
(* worker is left behind, not even by a daemon that was killed.              *)
RunEnds == <>(parent \in {"ended", "dead"} /\ ~Alive)
-----------------------------------------------------------------------------
(* The inductive invariant behind the safety properties. *)

\* What read_message has still to consume: written, and still to be written.
Stream == pipe \o out

Follows(part) == CASE part = "head" -> "len" [] part = "len" -> "body" [] part = "body" -> "head"

\* The stream goes on where read_message stands, its pieces follow each other,
\* and while nobody has cut it, it ends with a whole frame.
FrameInv ==
    /\ Stream # <<>> => Stream[1].part = <<"head", "len", "body">>[got + 1]
    /\ \A i \in 1..(Len(Stream) - 1) : Stream[i + 1].part = Follows(Stream[i].part)
    /\ worker # "gone" =>
          IF Stream = <<>> THEN got = 0 ELSE Stream[Len(Stream)].part = "body"

\* There is no worker before it is spawned.
StartInv == parent = "starting" => worker = "unborn"

\* The program of the worker: one result, then one Done.
WorkerInv ==
    /\ worker \in {"unborn", "await", "begin", "prepare", "scan", "report"} =>
          verdict = "running" /\ produced = <<>>
    /\ worker \in {"complain", "giveup"} => produced = <<>>
    /\ worker = "finish" => verdict = "running"
    /\ Len(produced) <= 1

\* Done is the last message, and the parent waits for nothing else after it.
DoneInv ==
    /\ \A i \in 1..Len(Stream) :
          Stream[i].msg.kind = "done" =>
              /\ worker \in {"exit", "gone"}
              /\ Stream[i].part = "body" => i = Len(Stream)
    /\ parent = "waiting" => worker = "gone" \/ (worker = "exit" /\ Stream = <<>>)

\* The piece that completes a result.
Carries(i) == Stream[i].part = "body" /\ Stream[i].msg.kind = "result"

\* The result has been read, or will be with the first n pieces.
Delivered(n) == produced # <<>> /\ (results = produced \/ \E j \in 1..n : Carries(j))

\* A result crosses once, ahead of the Done(true) that vouches for it.
ResultInv ==
    /\ results \in {<<>>, produced}
    /\ \A i \in 1..Len(Stream) :
          /\ Stream[i].msg.kind = "result" => produced = <<Stream[i].msg.data>>
          /\ Carries(i) => results = <<>> /\ \A j \in 1..Len(Stream) : Carries(j) => j = i
          /\ Stream[i].msg = Done(TRUE) => verdict = "succeeded" /\ Delivered(i - 1)
    /\ worker = "finish" => Delivered(Len(Stream))

\* What a success says stays true.
OutcomeInv ==
    outcome = "success" =>
        /\ parent \in {"waiting", "ended", "dead"}
        /\ verdict = "succeeded" /\ results = produced

IInv ==
    TypeOK /\ StartInv /\ FrameInv /\ WorkerInv /\ DoneInv /\ ResultInv /\ OutcomeInv
=============================================================================

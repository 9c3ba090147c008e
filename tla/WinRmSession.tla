---------------------------- MODULE WinRmSession ----------------------------
(***************************************************************************)
(* The inventory of one Windows host over WinRM (glpi-inventory-remote      *)
(* winrm.rs, collect_windows of lib.rs): a shell is created on the host,    *)
(* and every query is a command of that shell whose output is received in   *)
(* pieces until the host says it is done, and which is then signalled so    *)
(* that the host forgets it.                                                *)
(*                                                                         *)
(* Each of these steps is one HTTP request.  It may fail before the host    *)
(* sees it or after the host acted on it, the host may answer a Receive     *)
(* that waited too long with a fault, it may refuse the credentials from    *)
(* some point on, and, as the client sets no HTTP timeout, an answer that   *)
(* never comes is waited for without end.                                   *)
(***************************************************************************)
EXTENDS Naturals, Sequences, FiniteSets

CONSTANTS
    Hosts,      \* [Query -> [pieces, exit]]: what the commands of a host do
    Disabled,   \* --no-category
    MaxFailed   \* bound on requests that fail

\* What is asked, in program order; the name of the host comes first.
Queries ==
    <<"hostname", "os", "cpu", "memory", "bios", "storage", "software", "appx", "network",
      "process", "user", "printer", "video", "sound", "usb", "battery", "controller",
      "monitor", "antivirus">>

Query == {Queries[k] : k \in 1..Len(Queries)}

NoCode == 256   \* done, without an exit code

ASSUME WinRmAssumption ==
    /\ MaxFailed \in Nat
    /\ \A h \in Hosts : h \in [Query -> [pieces : Nat, exit : {0, 1, NoCode}]]

\* BIOS and hardware come from one query, the installed software from two.
Asked(q) ==
    \/ q = "hostname"
    \/ q = "bios" /\ ~({"bios", "hardware"} \subseteq Disabled)
    \/ q = "appx" /\ "software" \notin Disabled
    \/ q \notin {"bios", "appx"} \cup Disabled

VARIABLES
    host,      \* what the host's commands print and how they end
    shell,     \* the host has a shell of this session
    commands,  \* the commands the host keeps: [Query -> pieces sent]
    denied,    \* the host refuses the credentials by now
    session,   \* "create", "query", "receive", "signal"; "done", "failed", "hung"
    turn,      \* the query asked, an index of Queries
    stdout,    \* the pieces received of its output
    exit_code, \* its exit code
    answers,   \* what the queries have given
    failed,    \* requests that failed so far
    hit        \* history: queries one of whose requests failed

remote == <<host, shell, commands>>
winrm_vars == <<remote, denied, session, turn, stdout, exit_code, answers, failed, hit>>

NoAnswer == [ok |-> FALSE, stdout |-> <<>>]

WinRmTypeOK ==
    /\ host \in Hosts /\ shell \in BOOLEAN /\ denied \in BOOLEAN
    /\ \A q \in DOMAIN commands : q \in Query /\ commands[q] \in 0..host[q].pieces
    /\ session \in {"create", "query", "receive", "signal", "done", "failed", "hung"}
    /\ turn \in 1..(Len(Queries) + 1) /\ stdout \in Seq(Nat) /\ exit_code \in {0, 1, NoCode}
    /\ \A q \in DOMAIN answers : q \in Query /\ answers[q] \in [ok : BOOLEAN, stdout : Seq(Nat)]
    /\ failed \in 0..MaxFailed /\ hit \subseteq Query

Here == Queries[turn]

Output(q) == [k \in 1..host[q].pieces |-> k]

WinRmInit ==
    /\ host \in Hosts /\ shell = FALSE /\ commands = <<>> /\ denied = FALSE
    /\ session = "create" /\ turn = 1 /\ stdout = <<>> /\ exit_code = NoCode
    /\ answers = <<>>
    /\ failed = 0 /\ hit = {}

\* A request that fails: the credentials are refused, or it or its answer is lost.
Fails ==
    /\ hit' = hit \cup {Here}
    /\ \/ denied /\ UNCHANGED failed
       \/ failed < MaxFailed /\ failed' = failed + 1

Succeeds == ~denied /\ UNCHANGED <<failed, hit>>

\* A request that failed may have been acted on, unless it was refused.
Perhaps(Before, After) == Before \/ (~denied /\ After)

Create ==
    /\ session = "create"
    /\ Succeeds
    /\ shell' = TRUE /\ session' = "query"
    /\ UNCHANGED <<host, commands, denied, turn, stdout, exit_code, answers>>

\* The host is counted as failed; a shell it opened stays with it.
CreateFails ==
    /\ session = "create"
    /\ Fails
    /\ Perhaps(UNCHANGED shell, shell' = TRUE)
    /\ session' = "failed"
    /\ UNCHANGED <<host, commands, denied, turn, stdout, exit_code, answers>>

Skip ==
    /\ session = "query" /\ turn <= Len(Queries) /\ ~Asked(Here)
    /\ turn' = turn + 1
    /\ UNCHANGED <<remote, denied, session, stdout, exit_code, answers, failed, hit>>

\* try_run: an error leaves the section of this query out, and the next is asked.
Answer(a) ==
    /\ answers' = [q \in DOMAIN answers \cup {Here} |-> IF q = Here THEN a ELSE answers[q]]
    /\ turn' = turn + 1 /\ session' = "query"

Keeps(sent) ==
    commands' = [q \in DOMAIN commands \cup {Here} |-> IF q = Here THEN sent ELSE commands[q]]

Forgets == commands' = [q \in DOMAIN commands \ {Here} |-> commands[q]]

Asking == session = "query" /\ turn <= Len(Queries) /\ Asked(Here)

Command ==
    /\ Asking
    /\ Succeeds
    /\ Keeps(0)
    /\ session' = "receive" /\ stdout' = <<>> /\ exit_code' = NoCode
    /\ UNCHANGED <<host, shell, denied, turn, answers>>

CommandFails ==
    /\ Asking
    /\ Fails
    /\ Perhaps(UNCHANGED commands, Keeps(0))
    /\ Answer(NoAnswer)
    /\ UNCHANGED <<host, shell, denied, stdout, exit_code>>

\* What the host sends next: a piece, the last one perhaps with the end of
\* the command, or the end alone.
NextPiece == IF commands[Here] < host[Here].pieces THEN <<commands[Here] + 1>> ELSE <<>>

SendsOne == Keeps(commands[Here] + Len(NextPiece))

\* The loop takes a piece and asks again, or leaves with the end of the command.
Takes ==
    /\ SendsOne
    /\ stdout' = stdout \o NextPiece
    /\ \/ UNCHANGED <<session, exit_code>> /\ NextPiece # <<>>
       \/ /\ commands[Here] + 1 >= host[Here].pieces
          /\ session' = "signal" /\ exit_code' = host[Here].exit

\* The command is running and has printed nothing since: the loop asks again.
Waits == UNCHANGED <<commands, stdout, session, exit_code>>

\* Wrong: a command is only over when it has an exit code.
Receive_NeedsCode ==
    /\ session = "receive"
    /\ Succeeds
    /\ Waits \/ (Takes /\ (session' = "signal" => exit_code' # NoCode))
    /\ UNCHANGED <<host, shell, denied, turn, answers>>

Receive ==
    /\ session = "receive"
    /\ Succeeds
    /\ Waits \/ Takes
    /\ UNCHANGED <<host, shell, denied, turn, answers>>

\* Wrong: the loop asks again, though the host has sent that piece.
ReceiveFails_AsksAgain ==
    /\ session = "receive"
    /\ Fails
    /\ Perhaps(UNCHANGED commands, SendsOne)
    /\ UNCHANGED <<host, shell, denied, session, turn, stdout, exit_code, answers>>

\* The command is given up with what was received, and not signalled.
ReceiveFails ==
    /\ session = "receive"
    /\ Fails
    /\ Perhaps(UNCHANGED commands, SendsOne)
    /\ Answer(NoAnswer)
    /\ UNCHANGED <<host, shell, denied, stdout, exit_code>>

\* No exit code is taken for success.
Concluded ==
    Answer(IF exit_code \in {0, NoCode} THEN [ok |-> TRUE, stdout |-> stdout] ELSE NoAnswer)

\* Wrong: an exit code other than 0 is returned before the signal.
Signal_OnlySuccess ==
    /\ session = "signal"
    /\ Succeeds
    /\ IF exit_code \in {0, NoCode} THEN Forgets ELSE UNCHANGED commands
    /\ Concluded
    /\ UNCHANGED <<host, shell, denied, stdout, exit_code>>

Signal ==
    /\ session = "signal"
    /\ Succeeds
    /\ Forgets
    /\ Concluded
    /\ UNCHANGED <<host, shell, denied, stdout, exit_code>>

SignalFails ==
    /\ session = "signal"
    /\ Fails
    /\ Perhaps(UNCHANGED commands, Forgets)
    /\ Concluded
    /\ UNCHANGED <<host, shell, denied, stdout, exit_code>>

\* A request whose answer never comes: nothing ends the wait.
NeverAnswered ==
    /\ session \in {"create", "receive", "signal"} \/ Asking
    /\ ~denied /\ Fails
    /\ session' = "hung"
    /\ UNCHANGED <<remote, denied, turn, stdout, exit_code, answers>>

\* Every query was asked.  Nobody closes the session: the host keeps its shell.
Collected ==
    /\ session = "query" /\ turn > Len(Queries)
    /\ session' = "done"
    /\ UNCHANGED <<remote, denied, turn, stdout, exit_code, answers, failed, hit>>

\* The password is changed, or the account locked.
Deny ==
    /\ ~denied /\ failed < MaxFailed
    /\ denied' = TRUE /\ failed' = failed + 1
    /\ UNCHANGED <<remote, session, turn, stdout, exit_code, answers, hit>>

Terminated == session \in {"done", "failed", "hung"} /\ UNCHANGED winrm_vars

Proceed ==
    \/ Create \/ CreateFails \/ Skip \/ Command \/ CommandFails
    \/ Receive \/ ReceiveFails \/ Signal \/ SignalFails \/ Collected

WinRmNext ==
    \/ Create \/ CreateFails \/ Skip \/ Command \/ CommandFails
    \/ Receive \/ ReceiveFails \/ Signal \/ SignalFails \/ Collected
    \/ NeverAnswered \/ Deny \/ Terminated

WinRmSpec == WinRmInit /\ [][WinRmNext]_winrm_vars

\* A request is answered or fails, unless the network has gone silent, and a
\* command comes to its end: the loop has no bound on the answers that say it
\* is running.
WinRmFairSpec == WinRmSpec /\ WF_winrm_vars(Proceed)
-----------------------------------------------------------------------------
(* What becomes of the answers. *)

Given(q) == q \in DOMAIN answers /\ answers[q].ok /\ answers[q].stdout # <<>>

\* resolve: an empty answer to `hostname` is a name like another.
resolve ==
    IF ~answers["hostname"].ok THEN "the host of the URL"
    ELSE IF answers["hostname"].stdout = <<>> THEN "" ELSE "the name of the host"

\* The queries a section is made of.
Sources(s) ==
    IF s = "software" THEN {"software", "appx"}
    ELSE IF s \in {"bios", "hardware"} THEN {"bios"} ELSE {s}

\* The sections of the inventory, with the queries that gave something for each.
collect_windows ==
    [s \in ((Query \ {"hostname", "appx"}) \cup {"hardware"}) \ Disabled |->
        {q \in Sources(s) : Given(q)}]
-----------------------------------------------------------------------------
\* What the host has to say about a query.
Says(q) == host[q].pieces > 0 /\ host[q].exit # 1

(* A finished inventory has every section whole or not at all, and a        *)
(* request that failed costs the query it belonged to and no other; the     *)
(* software is the one section of two queries, and may be half there.  The  *)
(* host is filed under its own name unless that query failed.               *)
SectionsWhole ==
    session = "done" =>
        /\ \A q \in DOMAIN answers : answers[q].ok => answers[q].stdout = Output(q)
        /\ \A s \in DOMAIN collect_windows :
              \A q \in Sources(s) :
                 /\ q \in collect_windows[s] => Says(q)
                 /\ Says(q) => q \in collect_windows[s] \/ q \in hit
        /\ resolve = "the host of the URL" => "hostname" \in hit \/ host["hostname"].exit = 1

(* A command stays on the host only if one of its own requests failed, or   *)
(* while it runs: whatever it printed and however it ended.                 *)
CommandsForgotten ==
    \A q \in DOMAIN commands :
        q \in hit \/ (session \in {"receive", "signal"} /\ q = Here)

(* The inventory ends, also of a host that refuses the credentials half way *)
(* and of commands without an exit code, unless an answer never comes.      *)
SessionEnds == <>(session \in {"done", "failed", "hung"})
=============================================================================

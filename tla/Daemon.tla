------------------------------- MODULE Daemon -------------------------------
(***************************************************************************)
(* The main loop of the daemon, run_daemon in glpi-cli main.rs, and what   *)
(* feeds it: the /now handler of the control server (glpi-http server.rs)  *)
(* over a bounded channel, the schedule, the reload tick and Ctrl-C.       *)
(*                                                                         *)
(* One turn of the loop waits in select! for four arms and runs the        *)
(* handler of one that is ready, picked at random; the other arms are      *)
(* dropped and built again on the next turn.  A handler runs to its end,   *)
(* delay and scan included, before anything else is looked at.             *)
(*                                                                         *)
(* Time is abstracted to "the wait is over" and "the interval ticked"; a   *)
(* scan to its start and end (TaskFork models the forked one).  Reloading  *)
(* is enabled (conf-reload-interval is not 0).                             *)
(***************************************************************************)
EXTENDS Naturals, SequencesExt

CONSTANTS
    Request,      \* the HTTP requests for /now
    Query,        \* [Request -> [partial, task, delay]], their query strings
    Trusted,      \* the requests that come from a trusted address
    NoRequest,    \* the scheduled run, which no request asked for
    Places,       \* the events the channel holds
    Config,       \* configurations the files may hold
    Notable,      \* [Config -> what describe_changes compares in it]
    Malformed     \* files that do not load

ASSUME DaemonAssumption ==
    /\ NoRequest \notin Request
    /\ Malformed \notin Config
    /\ Trusted \subseteq Request
    /\ Places \in Nat \ {0}
    /\ Query \in [Request -> [partial : BOOLEAN, task : STRING, delay : Nat]]

VARIABLES
    listening,  \* the control server is enabled and could bind its port
    status,     \* where each request stands
    waiters,    \* the handlers waiting for a place in the channel, in order
    channel,    \* the events sent and not yet received
    pc,         \* select, delaying, scanning or stopped
    current,    \* the request whose handler runs
    due,        \* next_run is reached
    tick,       \* the reload interval has a tick to give
    disk,       \* the configuration files
    options,    \* the configuration the daemon holds
    signal,     \* the ctrl_c future of this turn has a signal to give
    pressed,    \* history: Ctrl-C was pressed
    accepted,   \* history: the requests answered "running now", in order
    handled     \* history: the requests whose handler has ended, in order

loop == <<pc, current, due, tick, signal>>
http == <<listening, status, waiters, channel, accepted>>
loop_vars == <<http, loop, disk, options, pressed, handled>>
-----------------------------------------------------------------------------
\* A runnow event, of all tasks when none is named; a partial inventory event.
run_now(task, delay) == [task |-> IF task = "" THEN "all" ELSE task, delay |-> delay]
partial_event == [task |-> "inventory", delay |-> 0]

\* The kind flag decides; the delay of the parameters is read for a runnow only.
from_params(p) == IF p.runnow THEN run_now(p.task, p.delay) ELSE partial_event

\* A query becomes parameters with one of the two flags set.
into_event(q) ==
    from_params([runnow |-> ~q.partial,
                 task |-> IF q.partial THEN "" ELSE q.task,
                 delay |-> q.delay])

Event(r) == into_event(Query[r])

\* The daemon runs NetDiscovery and skips events aimed at another task.
Targeted(r) == Event(r).task \in {"all", "netdiscovery", ""}

LoopInit ==
    /\ listening \in BOOLEAN
    /\ status = [r \in Request |-> "unsent"]
    /\ waiters = <<>>
    /\ channel = <<>>
    /\ pc = "select"
    /\ current = NoRequest
    /\ due = FALSE
    /\ tick = TRUE
    /\ disk \in Config
    /\ options = disk
    /\ signal = FALSE
    /\ pressed = FALSE
    /\ accepted = <<>>
    /\ handled = <<>>
-----------------------------------------------------------------------------
(* The control server. *)

\* A request reaches enforce_trust and then the handler `now`.
Arrive(r) ==
    /\ listening
    /\ status[r] = "unsent"
    /\ IF r \in Trusted
       THEN /\ status' = [status EXCEPT ![r] = "waiting"]
            /\ waiters' = Append(waiters, r)
       ELSE /\ status' = [status EXCEPT ![r] = "forbidden"]
            /\ UNCHANGED waiters
    /\ UNCHANGED <<listening, channel, accepted, loop, disk, options, pressed, handled>>

\* Wrong: the event is dropped when the channel is full, and answered all the same.
Send_Try ==
    /\ waiters # <<>>
    /\ pc # "stopped"
    /\ channel' = IF Len(channel) < Places THEN Append(channel, Head(waiters)) ELSE channel
    /\ status' = [status EXCEPT ![Head(waiters)] = "accepted"]
    /\ accepted' = Append(accepted, Head(waiters))
    /\ waiters' = Tail(waiters)
    /\ UNCHANGED <<listening, loop, disk, options, pressed, handled>>

\* The send of the handler that waits longest goes through: 200.
Send ==
    /\ waiters # <<>>
    /\ pc # "stopped"
    /\ Len(channel) < Places
    /\ channel' = Append(channel, Head(waiters))
    /\ status' = [status EXCEPT ![Head(waiters)] = "accepted"]
    /\ accepted' = Append(accepted, Head(waiters))
    /\ waiters' = Tail(waiters)
    /\ UNCHANGED <<listening, loop, disk, options, pressed, handled>>

\* run_daemon has returned and dropped the receiver: 503.
SendRefused ==
    /\ waiters # <<>>
    /\ pc = "stopped"
    /\ status' = [status EXCEPT ![Head(waiters)] = "unavailable"]
    /\ waiters' = Tail(waiters)
    /\ UNCHANGED <<listening, channel, accepted, loop, disk, options, pressed, handled>>

\* The client gives up; its handler is dropped and its send with it.
Disconnect(r) ==
    /\ status[r] = "waiting"
    /\ status' = [status EXCEPT ![r] = "gone"]
    /\ \E i \in DOMAIN waiters : waiters[i] = r /\ waiters' = RemoveAt(waiters, i)
    /\ UNCHANGED <<listening, channel, accepted, loop, disk, options, pressed, handled>>
-----------------------------------------------------------------------------
(* The arms of select!.  Taking one drops the ctrl_c future of this turn.   *)

\* Wrong: without the control server the timer is dormant like its arm.
ScheduledRun_IfListening ==
    /\ pc = "select"
    /\ due
    /\ listening
    /\ pc' = "scanning"
    /\ signal' = FALSE
    /\ UNCHANGED <<http, current, due, tick, disk, options, pressed, handled>>

\* The timer expires: a scan that no request asked for.
ScheduledRun ==
    /\ pc = "select"
    /\ due
    /\ pc' = "scanning"
    /\ signal' = FALSE
    /\ UNCHANGED <<http, current, due, tick, disk, options, pressed, handled>>

\* recv_trigger has an event: sleep for its delay, then look at its task.
TakeEvent ==
    /\ pc = "select"
    /\ channel # <<>>
    /\ channel' = Tail(channel)
    /\ current' = Head(channel)
    /\ pc' = "delaying"
    /\ signal' = FALSE
    /\ UNCHANGED <<listening, status, waiters, accepted, due, tick, disk, options, pressed,
                   handled>>

describe_changes(old, new) == Notable[old] # Notable[new]

\* Wrong: the configuration is loaded and compared, and the old one kept.
Reload_Keeps ==
    /\ pc = "select"
    /\ tick
    /\ tick' = FALSE
    /\ signal' = FALSE
    /\ UNCHANGED <<http, pc, current, due, disk, options, pressed, handled>>

\* tick_reload: the configuration is replaced if it loads and differs in
\* something describe_changes looks at.
Reload ==
    /\ pc = "select"
    /\ tick
    /\ tick' = FALSE
    /\ signal' = FALSE
    /\ options' = IF disk # Malformed /\ describe_changes(options, disk) THEN disk
                  ELSE options
    /\ UNCHANGED <<http, pc, current, due, disk, pressed, handled>>

CtrlC ==
    /\ pc = "select"
    /\ signal
    /\ pc' = "stopped"
    /\ signal' = FALSE
    /\ UNCHANGED <<http, current, due, tick, disk, options, pressed, handled>>
-----------------------------------------------------------------------------
(* The handlers. *)

Ends(r) ==
    /\ current' = NoRequest
    /\ handled' = IF r = NoRequest THEN handled ELSE Append(handled, r)
    /\ pc' = "select"

\* The delay is over (at once, when there is none).
Delayed ==
    /\ pc = "delaying"
    /\ IF Targeted(current)
       THEN pc' = "scanning" /\ UNCHANGED <<current, handled>>
       ELSE Ends(current)
    /\ UNCHANGED <<http, due, tick, signal, disk, options, pressed>>

\* The scan is over: schedule_next.
ScanEnds ==
    /\ pc = "scanning"
    /\ Ends(current)
    /\ due' = FALSE
    /\ UNCHANGED <<http, tick, signal, disk, options, pressed>>
-----------------------------------------------------------------------------
(* The environment: clock, terminal and administrator. *)

Due ==
    /\ pc # "stopped"
    /\ ~due
    /\ due' = TRUE
    /\ UNCHANGED <<http, pc, current, tick, signal, disk, options, pressed, handled>>

\* Ticks that nobody awaits are merged (MissedTickBehavior::Skip).
Tick ==
    /\ pc # "stopped"
    /\ ~tick
    /\ tick' = TRUE
    /\ UNCHANGED <<http, pc, current, due, signal, disk, options, pressed, handled>>

\* The signal is broadcast to the listeners there are: the ctrl_c future of a
\* turn that waits in select!, nobody while a handler runs.
PressCtrlC ==
    /\ pc # "stopped"
    /\ ~pressed
    /\ pressed' = TRUE
    /\ signal' = (pc = "select")
    /\ UNCHANGED <<http, pc, current, due, tick, disk, options, handled>>

EditConfig ==
    /\ pc # "stopped"
    /\ disk' \in (Config \cup {Malformed}) \ {disk}
    /\ UNCHANGED <<http, loop, options, pressed, handled>>

\* The process has ended, every handler with it.
Stopped ==
    /\ pc = "stopped"
    /\ waiters = <<>>
    /\ UNCHANGED loop_vars

LoopNext ==
    \/ \E r \in Request : Arrive(r) \/ Disconnect(r)
    \/ Send
    \/ SendRefused
    \/ ScheduledRun
    \/ TakeEvent
    \/ Reload
    \/ CtrlC
    \/ Delayed
    \/ ScanEnds
    \/ Due
    \/ Tick
    \/ PressCtrlC
    \/ EditConfig
    \/ Stopped

LoopSpec == LoopInit /\ [][LoopNext]_loop_vars

\* Time passes, delays and scans end, the runtime polls the handlers, and an
\* arm that is ready again and again is picked in the end, since select!
\* starts polling at a random arm.
LoopFairSpec ==
    /\ LoopSpec
    /\ WF_loop_vars(Due) /\ WF_loop_vars(Tick)
    /\ WF_loop_vars(Delayed) /\ WF_loop_vars(ScanEnds)
    /\ WF_loop_vars(Send)
    /\ SF_loop_vars(ScheduledRun) /\ SF_loop_vars(TakeEvent) /\ SF_loop_vars(Reload)
    /\ WF_loop_vars(CtrlC)
-----------------------------------------------------------------------------
LoopTypeOK ==
    /\ listening \in BOOLEAN
    /\ status \in [Request -> {"unsent", "waiting", "accepted", "forbidden", "unavailable",
                               "gone"}]
    /\ waiters \in Seq(Request)
    /\ channel \in Seq(Request) /\ Len(channel) <= Places
    /\ pc \in {"select", "delaying", "scanning", "stopped"}
    /\ current \in Request \cup {NoRequest}
    /\ due \in BOOLEAN /\ tick \in BOOLEAN /\ signal \in BOOLEAN /\ pressed \in BOOLEAN
    /\ disk \in Config \cup {Malformed}
    /\ options \in Config
    /\ accepted \in Seq(Request)
    /\ handled \in Seq(Request)

InHand == IF current = NoRequest THEN <<>> ELSE <<current>>

\* Between two turns nothing is in hand; during a delay, an event is.
HandInv ==
    /\ pc \in {"select", "stopped"} => current = NoRequest
    /\ pc = "delaying" => current # NoRequest

(* No event is lost, repeated or overtaken between the answer of the control *)
(* server and the end of its handler, although recv is dropped and called    *)
(* again on every turn: what was accepted is what was handled, what is in    *)
(* hand and what is in the channel, in this order.                           *)
AcceptedInOrder == accepted = handled \o InHand \o channel

LoopInv == LoopTypeOK /\ AcceptedInOrder /\ HandInv

(* Every request that was answered "running now" is handled in the end, and  *)
(* every request that still waits for a place gets its answer, unless the    *)
(* daemon stops: long delays and scans in between only postpone them.        *)
AcceptedIsHandled ==
    \A r \in Request :
        /\ (status[r] = "accepted") ~> (pc = "stopped" \/ \E i \in DOMAIN handled : handled[i] = r)
        /\ (status[r] = "waiting") ~> (pc = "stopped" \/ status[r] # "waiting")

(* Scans go on for ever, with or without a control server, whatever requests *)
(* and reloads come in between.                                              *)
ScansForever == <>(pc = "stopped") \/ []<>(pc = "scanning")

(* Once the files stay as they are and load, the daemon ends up holding a    *)
(* configuration that agrees with them in everything notable.                *)
ReloadCatchesUp ==
    \A c \in Config :
        <>[](disk = c) => <>(pc = "stopped") \/ <>[](Notable[options] = Notable[c])
=============================================================================

--------------------------- MODULE SnmpInventory ---------------------------
(***************************************************************************)
(* The inventory of one network device over SNMP (glpi-discovery           *)
(* tasks/net_inventory.rs, snmp/client.rs, snmp/mib/mod.rs).                *)
(*                                                                         *)
(* The task tries its credentials in order.  Under each it opens a socket,  *)
(* runs the MIB modules one request at a time and reports the device if it  *)
(* has described itself.  Requests and answers are datagrams: either may be *)
(* lost or come after the client has given the request up, and the client   *)
(* repeats a request it got no answer to.  The agent of the device answers  *)
(* under the accepted credentials only; it may answer with an error status, *)
(* and a defective one starts a table again at its end.                     *)
(*                                                                         *)
(* The SNMP library (snmp2) is not part of the repository: it numbers its   *)
(* requests, takes the datagrams in the order they come and makes an error  *)
(* of an answer with another number than the request's.                     *)
(***************************************************************************)
EXTENDS Integers, Credentials, MibModules

CONSTANTS
    Accepted,        \* credentials the device answers to
    Contents,        \* what the device may contain: [Columns -> [row -> value]]
    Looping,         \* columns a defective agent starts again at their end
    Retries,         \* snmp-retries
    MaxFaults        \* bound on requests that are given up though answered, on
                     \* sockets not had, and on answers with an error status, together

\* What a device can have in a column: a GET asks for one row, a walk begins at
\* the root of its subtree, which is no row.
IsColumn(f, op) ==
    /\ f = [i \in DOMAIN f |-> f[i]]
    /\ DOMAIN f \subseteq IF op = "get" THEN {0} ELSE Nat \ {0}

ASSUME SnmpAssumption ==
    /\ Retries \in Nat /\ MaxFaults \in Nat
    /\ Accepted \subseteq Credential
    /\ Looping \subseteq Columns
    /\ \A m \in Contents : DOMAIN m = Columns
    /\ \A m \in Contents, k \in 1..Len(Reads) : IsColumn(m[Reads[k].column], Reads[k].op)

VARIABLES
    mib,       \* what the device contains
    cred,      \* the credential in use; NumCredentials + 1 when all are tried
    phase,     \* "connect", "send", "wait" or "done"
    at,        \* the request being made, an index of Reads
    current,   \* the row a walk has come to
    attempt,   \* attempts already made of this request
    net,       \* requests that are or will be answered
    inbox,     \* answers in the client's socket, oldest first
    read,      \* what has been read under this credential
    device,    \* what the modules have made of it
    result,    \* the device reported, if any
    late,      \* requests given up though answered, and sockets not had
    errors     \* answers with an error status

client == <<cred, phase, at, current, attempt, read, device, result>>
vars == <<mib, client, net, inbox, late, errors>>

\* A device that has not described itself is not reported.
NoDevice == NetworkDevice

\* first_varbind: an error status and an exception are no varbind.
NoVarbind == [row |-> -1, value |-> None]

Init ==
    /\ mib \in Contents
    /\ cred = 1 /\ phase = "connect" /\ at = 1 /\ current = 0 /\ attempt = 0
    /\ net = {} /\ inbox = <<>>
    /\ read = NothingRead /\ device = NetworkDevice /\ result = NoDevice
    /\ late = 0 /\ errors = 0

\* A new socket for the next credential, and a device of its own.
Connect ==
    /\ phase = "connect" /\ cred \in Credential \ Malformed
    /\ phase' = "send" /\ at' = 1 /\ current' = 0 /\ attempt' = 0
    /\ net' = {} /\ inbox' = <<>>
    /\ read' = NothingRead /\ device' = NetworkDevice
    /\ UNCHANGED <<mib, cred, result, late, errors>>

\* The local socket is not to be had.
NoSocket ==
    /\ cred \in Credential \ Malformed
    /\ late + errors < MaxFaults /\ late' = late + 1

\* A session of version 3 begins by asking for the agent's engine, once and under
\* the timeout.  An agent that accepts the credential has one, and may be late.
NoEngine ==
    /\ cred \in Credential \ Malformed /\ is_v3(cred)
    /\ \/ cred \notin Accepted /\ UNCHANGED late
       \/ late + errors < MaxFaults /\ late' = late + 1

ConnectFails ==
    /\ phase = "connect"
    /\ (cred \in Malformed /\ UNCHANGED late) \/ NoSocket \/ NoEngine
    /\ cred' = cred + 1
    /\ UNCHANGED <<mib, phase, at, current, attempt, net, inbox, read, device, result, errors>>

NoResponse ==
    /\ phase = "connect" /\ cred \notin Credential
    /\ phase' = "done"
    /\ UNCHANGED <<mib, cred, at, current, attempt, net, inbox, read, device, result, late,
                   errors>>

\* Wrong: a credential that fails ends the inventory.
NextCredential_Gives_Up ==
    /\ phase' = "done"
    /\ UNCHANGED <<cred, at, current, attempt, read, device, result>>

\* The inventory under this credential is abandoned, with all it has read.
NextCredential ==
    /\ cred' = cred + 1 /\ phase' = "connect"
    /\ UNCHANGED <<at, current, attempt, read, device, result>>

\* This request is finished; the next one starts at the root of its subtree.
Advance(r) ==
    /\ at' = at + 1 /\ current' = 0 /\ attempt' = 0 /\ phase' = "send"
    /\ read' = r /\ device' = After(at, device, r)
    /\ UNCHANGED <<cred, result>>

\* "open": with the number of the request the client is waiting for.
Request ==
    [open |-> TRUE, attempt |-> attempt, column |-> Reads[at].column, op |-> Reads[at].op,
     after |-> current]

\* The client's next request has another number than these have.
closed(q) == [q EXCEPT !.open = FALSE]
ClosedNet == {closed(q) : q \in net}
ClosedInbox(answers) == [k \in 1..Len(answers) |-> closed(answers[k])]

Send ==
    /\ phase = "send" /\ at <= Len(Reads)
    /\ current > 0 \/ Needed(at, device, read)
    /\ phase' = "wait"
    /\ net' = IF cred \in Accepted THEN net \cup {Request} ELSE net
    /\ UNCHANGED <<mib, cred, at, current, attempt, inbox, read, device, result, late, errors>>

Skip ==
    /\ phase = "send" /\ at <= Len(Reads)
    /\ current = 0 /\ ~Needed(at, device, read)
    /\ Advance(read)
    /\ UNCHANGED <<mib, net, inbox, late, errors>>

\* The rows the agent may answer with: the row itself, those after it, or,
\* when it is defective and there are none, all of them.
Candidates(q) ==
    LET rows == DOMAIN mib[q.column]
        next == {i \in rows : i > q.after}
    IN IF q.op = "get" THEN rows \cap {0}
       ELSE IF next = {} /\ q.column \in Looping THEN rows ELSE next

Answer(q) ==
    IF Candidates(q) = {} THEN NoVarbind
    ELSE [row |-> Min(Candidates(q)), value |-> mib[q.column][Min(Candidates(q))]]

Deliver(q, varbind) ==
    /\ q \in net
    /\ net' = net \ {q}
    /\ inbox' = Append(inbox, [open |-> q.open, varbind |-> varbind])
    /\ UNCHANGED <<mib, client, late>>

AgentAnswers(q) == Deliver(q, Answer(q)) /\ UNCHANGED errors

AgentFails(q) ==
    /\ late + errors < MaxFaults
    /\ Deliver(q, NoVarbind)
    /\ errors' = errors + 1

\* Wrong: a device that stops answering is reported with what it has said.
Fail_Reports ==
    IF attempt < Retries
    THEN /\ attempt' = attempt + 1 /\ phase' = "send"
         /\ UNCHANGED <<cred, at, current, read, device, result>>
    ELSE IF device.description = None THEN NextCredential
    ELSE /\ result' = classify(device) /\ phase' = "done"
         /\ UNCHANGED <<cred, at, current, attempt, read, device>>

\* A failed attempt: another one, or an error that the registry passes on.
Fail ==
    IF attempt >= Retries
    THEN NextCredential
    ELSE /\ attempt' = attempt + 1 /\ phase' = "send"
         /\ UNCHANGED <<cred, at, current, read, device, result>>

\* No answer came in time.  Whether the library uses the number of the request
\* again is its own affair.
Timeout ==
    /\ phase = "wait" /\ inbox = <<>>
    /\ cred \in Accepted => late + errors < MaxFaults
    /\ late' = IF cred \in Accepted THEN late + 1 ELSE late
    /\ net' \in {net, ClosedNet}
    /\ Fail
    /\ UNCHANGED <<mib, inbox, errors>>

\* Wrong: a walk does not look whether it has advanced.
walk_ends_Never(v) == v.row < 0

walk_ends(v) == v.row <= current

\* The answer is to this request.
Take(v) ==
    /\ Head(inbox).open
    /\ LET stored == [read EXCEPT ![Reads[at].column] =
                         [i \in DOMAIN @ \cup {v.row} |-> IF i = v.row THEN v.value ELSE @[i]]]
       IN IF Reads[at].op = "get"
          THEN Advance(IF v.row < 0 THEN read ELSE stored)
          ELSE IF walk_ends(v)
               THEN Advance(read)
               ELSE /\ read' = stored /\ current' = v.row /\ attempt' = 0 /\ phase' = "send"
                    /\ UNCHANGED <<cred, at, device, result>>

\* It is to one that was given up: RequestIdMismatch.
Mismatch ==
    /\ ~Head(inbox).open
    /\ Fail

Receive ==
    /\ phase = "wait" /\ inbox # <<>>
    /\ inbox' = ClosedInbox(Tail(inbox)) /\ net' = ClosedNet
    /\ Take(Head(inbox).varbind) \/ Mismatch
    /\ UNCHANGED <<mib, late, errors>>

\* Every module has run: a device that has described itself is reported.
Finish ==
    /\ phase = "send" /\ at > Len(Reads)
    /\ IF device.description # None
       THEN /\ result' = classify(device) /\ phase' = "done"
            /\ UNCHANGED <<cred, at, current, attempt, read, device>>
       ELSE NextCredential
    /\ UNCHANGED <<mib, net, inbox, late, errors>>

Terminated == phase = "done" /\ UNCHANGED vars

Next ==
    \/ Connect \/ ConnectFails \/ NoResponse
    \/ Send \/ Skip \/ Timeout \/ Receive \/ Finish
    \/ \E q \in net : AgentAnswers(q) \/ AgentFails(q)
    \/ Terminated

Spec == Init /\ [][Next]_vars

\* The task runs; a request is answered or given up.
FairSpec ==
    /\ Spec
    /\ WF_vars(Connect \/ ConnectFails \/ NoResponse \/ Send \/ Skip \/ Receive \/ Finish)
    /\ WF_vars(Timeout)
    /\ WF_vars(\E q \in net : AgentAnswers(q))
-----------------------------------------------------------------------------
\* What has been read after the k-th request, when a device with the contents m
\* answers it.
Learned(m, k, d, r) ==
    IF Needed(k, d, r) THEN [r EXCEPT ![Reads[k].column] = m[Reads[k].column]] ELSE r

\* The requests made before those of the module the k-th is of.
Begun(k) == Max({0} \cup {j \in 1..(k - 1) : IsLast(j)})

\* What this module has read after the k-th request and made of the device.
Inventory(m, k, before) ==
    LET learned[j \in Begun(k)..k] ==
            IF j = Begun(k) THEN before.read ELSE Learned(m, j, before.device, learned[j - 1])
    IN [device |-> After(k, before.device, learned[k]), read |-> learned[k]]

\* What the modules have read and made of it, one module after the other.
done(m) ==
    LET made[k \in 0..Len(Reads)] ==
            IF k = 0 THEN [device |-> NetworkDevice, read |-> NothingRead]
            ELSE Inventory(m, k, made[Begun(k)])
    IN made

\* What a device is whose every request is answered.
Inventoried == classify(done(mib)[Len(Reads)].device)

(* A device is reported in full or not at all: whatever is lost, late or    *)
(* repeated, and whatever other credentials have read of it before, the     *)
(* report is what the device contains.  Only an answer with an error status *)
(* is taken for the end of a table.                                         *)
CompleteOrNothing ==
    (result # NoDevice /\ errors = 0) => result = Inventoried

(* A device that answers is found: the task only reports nothing when it    *)
(* has no credential the device answers to, when an answer came too late or *)
(* was an error, when it had no socket, or when the device has an empty     *)
(* description.                                                             *)
AnswersFound ==
    (phase = "done" /\ result = NoDevice) =>
        \/ Accepted \ Malformed = {}
        \/ late + errors > 0
        \/ Text(ValueAt(mib, "sysDescr", 0)) = None

(* The modules only add to the device of one credential: none of them       *)
(* replaces or loses what an earlier one has determined.                    *)
NeverClobbered == [][phase # "connect" => Keeps(device, device')]_vars

(* The inventory ends, even of a device whose agent starts a table again    *)
(* instead of ending it.                                                    *)
InventoryEnds == <>(phase = "done")
=============================================================================

---------------------------- MODULE NetDiscovery ----------------------------
(***************************************************************************)
(* A network scan (glpi-discovery ip_range.rs, traits.rs, methods/ping.rs,  *)
(* tasks/net_discovery.rs): the addresses of a few ranges, one task each,   *)
(* a bounded number of them at work at a time.  A task probes its address   *)
(* by one liveness method after the other and then tries the SNMP           *)
(* credentials; what it found is reported when it is joined.                *)
(*                                                                         *)
(* Which hosts there are and what they answer to is chosen at the start.    *)
(* An answer may be lost and a task may panic; the history variables lost   *)
(* and panicked remember where.                                             *)
(***************************************************************************)
EXTENDS Integers, Sequences, FiniteSets, Credentials

CONSTANTS
    Width,           \* bits of an address; 32 in the code
    OctetWidth,      \* bits of its last part; 8 in the code
    Arguments,       \* what the command line may give: sequences of Specs
    Networks,        \* what may be on the network: [Address -> answers]
    Permits,         \* the configured concurrency
    Timeout,         \* the per-probe timeout
    MaxFaults        \* bound on lost answers and panics together

\* The powers of two up to that of the whole address space.
TwoTo[n \in 0..Width] == IF n = 0 THEN 1 ELSE 2 * TwoTo[n - 1]

Size == TwoTo[Width]
Address == 0..(Size - 1)

\* What the parser of the command line can hand over.
Specs ==
    [form : {"cidr"}, address : Address, prefix : Nat]
        \cup [form : {"bounds"}, start : Address, end : Address]
        \cup [form : {"octet"}, start : Address, octet : 0..(TwoTo[OctetWidth] - 1)]

\* A host answers "icmp", "tcp" and "netbios", is in the "arp" cache, and
\* describes itself under some of the credentials.
ASSUME DiscoveryAssumption ==
    /\ Width \in Nat /\ OctetWidth \in 0..Width
    /\ Permits \in Nat /\ MaxFaults \in Nat
    /\ Timeout \in Nat \ {0}
    /\ \A list \in Arguments : list \in Seq(Specs)
    /\ \A n \in Networks : \A a \in DOMAIN n :
          /\ a \in Address
          /\ n[a].probes \subseteq {"icmp", "tcp", "netbios", "arp"}
          /\ n[a].snmp \subseteq Credential
-----------------------------------------------------------------------------
(* Address ranges. *)

Cidr(address, prefix) == [form |-> "cidr", address |-> address, prefix |-> prefix]
Bounds(start, end) == [form |-> "bounds", start |-> start, end |-> end]
LastOctet(start, octet) == [form |-> "octet", start |-> start, octet |-> octet]

Refused == [start |-> 1, end |-> 0]

new(start, end) == IF start > end THEN Refused ELSE [start |-> start, end |-> end]

parse_cidr(address, prefix) ==
    IF prefix > Width THEN Refused
    ELSE LET block == TwoTo[Width - prefix]   \* the addresses !mask leaves free
             base == address - (address % block)
         IN [start |-> base, end |-> base + block - 1]

\* A bare last octet reuses the rest of the start address.
parse_range(start, octet) ==
    new(start, (start - (start % TwoTo[OctetWidth])) + octet)

parse(spec) ==
    CASE spec.form = "cidr"   -> parse_cidr(spec.address, spec.prefix)
      [] spec.form = "bounds" -> new(spec.start, spec.end)
      [] spec.form = "octet"  -> parse_range(spec.start, spec.octet)

\* What the forms mean, said without the arithmetic of the parser.
Covers(spec, a) ==
    CASE spec.form = "cidr" ->
            a \div TwoTo[Width - spec.prefix] = spec.address \div TwoTo[Width - spec.prefix]
      [] spec.form = "bounds" -> spec.start <= a /\ a <= spec.end
      [] spec.form = "octet" ->
            /\ a \div TwoTo[OctetWidth] = spec.start \div TwoTo[OctetWidth]
            /\ spec.start <= a /\ a % TwoTo[OctetWidth] <= spec.octet
-----------------------------------------------------------------------------
VARIABLES
    args,        \* the specifications of the command line
    network,     \* the hosts and what they answer to
    icmp,        \* whether this process may open an ICMP socket
    methods,     \* the liveness methods, in the order they are tried
    phase,       \* "parse", "spawn", "join", "done" or "refused"
    ranges,      \* the parsed ranges
    range,       \* the one the targets are taken from
    next,        \* the iterator: the next address; -1 when done
    tasks,       \* the tasks spawned, in order
    devices,     \* what was joined: [task, device]
    lost,        \* where an answer was lost: <<task, method, 0>>,
                 \* <<task, "snmp", credential>>
    panicked     \* the tasks that panicked

main == <<phase, ranges, range, next>>
vars == <<args, network, icmp, methods, main, tasks, devices, lost, panicked>>

Faults == Cardinality(lost) + Cardinality(panicked)

\* pc: "queued" (no permit yet), "probe", "tcp" (the fallback of ping), "snmp",
\* "finished" (its permit is free again), "joined".
Task(a) ==
    [address |-> a, pc |-> "queued", method |-> 1, credential |-> 1, left |-> Timeout,
     found_by |-> <<>>, mac |-> "", name |-> "", snmp |-> 0]

Init ==
    /\ args \in Arguments /\ network \in Networks /\ icmp \in BOOLEAN
    /\ methods \in {<<"ping", "netbios">>, <<"ping", "netbios", "arp">>}
    /\ phase = "parse" /\ ranges = <<>> /\ range = 1 /\ next = -1
    /\ tasks = <<>> /\ devices = {} /\ lost = {} /\ panicked = {}

\* One specification that cannot be parsed refuses the run.
ParseRanges ==
    /\ phase = "parse"
    /\ LET parsed == [k \in 1..Len(args) |-> parse(args[k])]
       IN IF \E k \in 1..Len(args) : parsed[k] = Refused
          THEN phase' = "refused" /\ UNCHANGED <<ranges, next>>
          ELSE /\ phase' = "spawn" /\ ranges' = parsed
               /\ next' = IF parsed = <<>> THEN -1 ELSE parsed[1].start
    /\ UNCHANGED <<args, network, icmp, methods, range, tasks, devices, lost, panicked>>

\* The end is inclusive and may be the last address there is.
Step(end) == IF next = end THEN -1 ELSE (next + 1) % Size

\* The next target, of this range or the one after it.
Spawn ==
    /\ phase = "spawn" /\ next # -1
    /\ tasks' = Append(tasks, Task(next))
    /\ LET step == Step(ranges[range].end)
       IN IF step # -1 THEN next' = step /\ range' = range
          ELSE /\ range' = range + 1
               /\ next' = IF range < Len(ranges) THEN ranges[range + 1].start ELSE -1
    /\ UNCHANGED <<args, network, icmp, methods, phase, ranges, devices, lost, panicked>>

Spawned ==
    /\ phase = "spawn" /\ next = -1
    /\ phase' = "join"
    /\ UNCHANGED <<args, network, icmp, methods, ranges, range, next, tasks, devices, lost,
                   panicked>>

AtWork == {t \in 1..Len(tasks) : tasks[t].pc \in {"probe", "tcp", "snmp"}}

\* with_concurrency: at least one permit.
Free == Cardinality(AtWork) < (IF Permits = 0 THEN 1 ELSE Permits)

Answers(t) ==
    LET a == tasks[t].address
    IN IF a \in DOMAIN network THEN network[a] ELSE [probes |-> {}, snmp |-> {}]

TaskUnchanged == UNCHANGED <<args, network, icmp, methods, main, devices>>

Acquire(t) ==
    /\ tasks[t].pc = "queued" /\ Free
    /\ tasks' = [tasks EXCEPT ![t].pc = "probe"]
    /\ TaskUnchanged /\ UNCHANGED <<lost, panicked>>

\* On to the next method, each under a timeout of its own, or to SNMP.
Onward(task) ==
    IF task.method < Len(methods)
    THEN [task EXCEPT !.method = @ + 1, !.pc = "probe", !.left = Timeout]
    ELSE [task EXCEPT !.pc = "snmp"]

\* merge: the first value wins.
merge(task) ==
    LET m == methods[task.method]
    IN [task EXCEPT
           !.found_by = Append(@, m),
           !.mac = IF @ = "" /\ m = "arp" THEN "mac" ELSE @,
           !.name = IF @ = "" /\ m = "netbios" THEN "netbios" ELSE @]

\* Wrong: a method that fails ends the probe of the address.
Silent_Ends(t) ==
    IF tasks[t].pc = "probe" /\ methods[tasks[t].method] = "ping" /\ ~icmp
    THEN [tasks[t] EXCEPT !.pc = "tcp"]
    ELSE [tasks[t] EXCEPT !.pc = "snmp"]

\* No answer.  Waiting for an ICMP reply takes the whole timeout, and so does
\* waiting for a connection: PingMethod waits that long for each, and
\* probe_address waits that long for both.  Only a process without an ICMP
\* socket has the time for the fallback.
Silent(t) ==
    LET task == tasks[t]
        waited == IF icmp THEN Timeout ELSE 0
    IN IF methods[task.method] = "ping" /\ task.pc = "probe" /\ task.left > waited
       THEN [task EXCEPT !.pc = "tcp", !.left = @ - waited]
       ELSE Onward(task)

\* Whether the host would answer what the task is doing now.
Replies(t) ==
    LET m == methods[tasks[t].method]
    IN CASE m = "ping" -> IF tasks[t].pc = "tcp" THEN "tcp" \in Answers(t).probes
                          ELSE icmp /\ "icmp" \in Answers(t).probes
         [] m = "netbios" -> "netbios" \in Answers(t).probes
         [] m = "arp" -> "arp" \in Answers(t).probes

\* The ARP cache is read once, before the first probe: nothing of it is lost.
MayLose(t) == Faults < MaxFaults /\ methods[tasks[t].method] # "arp"

Probe(t) ==
    /\ tasks[t].pc \in {"probe", "tcp"}
    /\ \/ /\ Replies(t)
          /\ tasks' = [tasks EXCEPT ![t] = Onward(merge(@))]
          /\ UNCHANGED lost
       \/ /\ ~Replies(t)
          /\ tasks' = [tasks EXCEPT ![t] = Silent(t)]
          /\ UNCHANGED lost
       \/ /\ Replies(t) /\ MayLose(t)
          /\ tasks' = [tasks EXCEPT ![t] = Silent(t)]
          /\ lost' = lost \cup {<<t, methods[tasks[t].method], 0>>}
    /\ TaskUnchanged /\ UNCHANGED panicked

\* A credential: malformed, not answered to, or lost on the way.
Miss(t) == [tasks EXCEPT ![t].credential = @ + 1]

discover_snmp_target(t) ==
    /\ tasks[t].pc = "snmp"
    /\ LET c == tasks[t].credential
           hit == c \in Answers(t).snmp \ Malformed
       IN \/ /\ c \notin Credential
             /\ tasks' = [tasks EXCEPT ![t].pc = "finished"] /\ UNCHANGED lost
          \/ /\ hit
             /\ tasks' = [tasks EXCEPT ![t].pc = "finished", ![t].snmp = c]
             /\ UNCHANGED lost
          \/ /\ c \in Credential /\ ~hit
             /\ tasks' = Miss(t) /\ UNCHANGED lost
          \/ /\ hit /\ Faults < MaxFaults
             /\ tasks' = Miss(t) /\ lost' = lost \cup {<<t, "snmp", c>>}
    /\ TaskUnchanged /\ UNCHANGED panicked

Panic(t) ==
    /\ t \in AtWork /\ Faults < MaxFaults
    /\ tasks' = [tasks EXCEPT ![t].pc = "finished"]
    /\ panicked' = panicked \cup {t}
    /\ TaskUnchanged /\ UNCHANGED lost

\* The device a task reports; the SNMP name is the second choice.
from_parts(task) ==
    [address |-> task.address, mac |-> task.mac,
     found_by |-> task.found_by \o (IF task.snmp # 0 THEN <<"snmp">> ELSE <<>>),
     name |-> IF task.name = "" /\ task.snmp # 0 THEN "sysName" ELSE task.name,
     snmp |-> task.snmp]

Join(t) ==
    /\ phase = "join" /\ tasks[t].pc = "finished"
    /\ tasks' = [tasks EXCEPT ![t].pc = "joined"]
    /\ devices' = IF t \in panicked \/ from_parts(tasks[t]).found_by = <<>> THEN devices
                  ELSE devices \cup {[task |-> t, device |-> from_parts(tasks[t])]}
    /\ UNCHANGED <<args, network, icmp, methods, main, lost, panicked>>

\* The devices are sorted by address: nothing is left of the order of joining.
Report ==
    /\ phase = "join" /\ \A t \in 1..Len(tasks) : tasks[t].pc = "joined"
    /\ phase' = "done"
    /\ UNCHANGED <<args, network, icmp, methods, ranges, range, next, tasks, devices, lost,
                   panicked>>

Terminated == phase \in {"done", "refused"} /\ UNCHANGED vars

Work(t) == Acquire(t) \/ Probe(t) \/ discover_snmp_target(t)

Next ==
    \/ ParseRanges \/ Spawn \/ Spawned \/ Report
    \/ \E t \in 1..Len(tasks) : Work(t) \/ Panic(t) \/ Join(t)
    \/ Terminated

Spec == Init /\ [][Next]_vars
-----------------------------------------------------------------------------
(* What a task that loses nothing finds: the methods its host answers to,   *)
(* the TCP fallback only without an ICMP socket, and the first credential;  *)
(* its name is the NetBIOS one, or the one SNMP gave.                       *)
Hit(t, m) ==
    /\ <<t, m, 0>> \notin lost
    /\ CASE m = "ping" -> IF icmp THEN "icmp" \in Answers(t).probes
                          ELSE "tcp" \in Answers(t).probes
         [] OTHER -> m \in Answers(t).probes

Hits(t) == {k \in 1..Len(methods) : Hit(t, methods[k])}
Keys(t) == {c \in Answers(t).snmp \ Malformed : <<t, "snmp", c>> \notin lost}

\* The methods at the places hits, in their order, after each of them.
Heard(hits, order) ==
    LET heard[n \in 0..Len(order)] ==
            IF n = 0 THEN <<>>
            ELSE IF n \in hits THEN Append(heard[n - 1], order[n]) ELSE heard[n - 1]
    IN heard

Hears(t, m) == \E k \in Hits(t) : methods[k] = m

Least(keys) == CHOOSE c \in keys : \A d \in keys : c <= d

Found(t) ==
    [address |-> tasks[t].address,
     found_by |-> Heard(Hits(t), methods)[Len(methods)]
                      \o (IF Keys(t) # {} THEN <<"snmp">> ELSE <<>>),
     mac |-> IF Hears(t, "arp") THEN "mac" ELSE "",
     name |-> IF Hears(t, "netbios") THEN "netbios"
              ELSE IF Keys(t) # {} THEN "sysName" ELSE "",
     snmp |-> IF Keys(t) = {} THEN 0 ELSE Least(Keys(t))]

Reported(t) == {d \in devices : d.task = t}

(* A scan that ends has looked at every address once for each specification *)
(* that covers it, and at no other; and of each it reports exactly what the *)
(* host answered to: a reply lost at one address, or a task that panicked,  *)
(* takes nothing away from another address, method or credential, and the   *)
(* order in which tasks get their turn does not show.                       *)
ScanFaithful ==
    phase = "done" =>
        /\ \A a \in Address :
              Cardinality({t \in 1..Len(tasks) : tasks[t].address = a})
                  = Cardinality({k \in 1..Len(args) : Covers(args[k], a)})
        /\ \A t \in 1..Len(tasks) :
              IF t \in panicked \/ Found(t).found_by = <<>> THEN Reported(t) = {}
              ELSE Reported(t) = {[task |-> t, device |-> Found(t)]}
-----------------------------------------------------------------------------
(* Why it holds.  Each task owes its host an answer for every method it has *)
(* yet to try, and has got exactly the answers of those it has tried.       *)

TaskType ==
    [address : Address, pc : {"queued", "probe", "tcp", "snmp", "finished", "joined"},
     method : 1..Len(methods), credential : Nat \ {0}, left : 0..Timeout,
     found_by : Seq({"ping", "netbios", "arp"}), mac : {"", "mac"}, name : {"", "netbios"},
     snmp : 0..NumCredentials]

TypeOK ==
    /\ args \in Arguments /\ network \in Networks
    /\ methods \in {<<"ping", "netbios">>, <<"ping", "netbios", "arp">>}
    /\ phase \in {"parse", "spawn", "join", "done", "refused"}
    /\ range \in Nat \ {0} /\ next \in Address \cup {-1}
    /\ tasks \in Seq(TaskType)
    /\ panicked \subseteq 1..Len(tasks)
    /\ lost \subseteq (1..Len(tasks))
          \X {"ping", "netbios", "arp", "snmp"} \X (0..NumCredentials)

Span(bounds) == bounds.start .. bounds.end

\* The iterator is at an address of the range it is in, or past the last one.
RangeInv ==
    /\ phase \in {"parse", "refused"} => range = 1 /\ tasks = <<>>
    /\ phase \in {"parse", "spawn", "refused"} => devices = {}
    /\ phase \in {"spawn", "join", "done"} =>
          /\ ranges = [k \in 1..Len(args) |-> parse(args[k])]
          /\ \A k \in 1..Len(args) : ranges[k] # Refused
          /\ IF next = -1 THEN range = Len(args) + 1
             ELSE phase = "spawn" /\ range <= Len(args) /\ next \in Span(ranges[range])

\* The order in which the addresses are taken: range by range.
Before(k, a, r, n) == k < r \/ (k = r /\ a < n)

\* Each task stems from one place of one range, those passed so far, and no
\* two from the same.
SpawnInv ==
    phase \in {"spawn", "join", "done"} =>
        \E from \in [1..Len(tasks) -> 1..Len(args)] :
            /\ \A t \in 1..Len(tasks) :
                  /\ tasks[t].address \in Span(ranges[from[t]])
                  /\ Before(from[t], tasks[t].address, range, next)
            /\ \A t, u \in 1..Len(tasks) :
                  from[t] = from[u] /\ tasks[t].address = tasks[u].address => t = u
            /\ \A k \in 1..Len(args) : \A a \in Span(ranges[k]) :
                  Before(k, a, range, next) => \E t \in 1..Len(tasks) :
                                     from[t] = k /\ tasks[t].address = a

\* What the methods before the n-th and the credentials before c have told.
Told(t, n, c) ==
    /\ tasks[t].found_by = Heard(Hits(t), methods)[n - 1]
    /\ tasks[t].mac = IF \E k \in Hits(t) : k < n /\ methods[k] = "arp" THEN "mac" ELSE ""
    /\ tasks[t].name = IF \E k \in Hits(t) : k < n /\ methods[k] = "netbios" THEN "netbios"
                       ELSE ""
    /\ \A k \in 1..Len(methods) : <<t, methods[k], 0>> \in lost => k < n
    /\ \A d \in Credential : <<t, "snmp", d>> \in lost => d < c
    /\ \A d \in Keys(t) : ~(d < c)

TaskInv(t) ==
    /\ tasks[t].pc = "queued" => tasks[t].method = 1
    /\ tasks[t].pc = "tcp" => methods[tasks[t].method] = "ping" /\ ~icmp
    /\ tasks[t].pc \in {"queued", "probe", "tcp"} =>
          /\ Told(t, tasks[t].method, 1)
          /\ tasks[t].left = Timeout /\ tasks[t].credential = 1 /\ tasks[t].snmp = 0
    /\ tasks[t].pc = "snmp" =>
          Told(t, Len(methods) + 1, tasks[t].credential) /\ tasks[t].snmp = 0
    /\ tasks[t].pc \in {"finished", "joined"} => from_parts(tasks[t]) = Found(t)

\* Nothing is reported of a task before it is joined.
JoinInv(t) ==
    /\ t \in panicked => tasks[t].pc \in {"finished", "joined"}
    /\ IF tasks[t].pc = "joined" /\ t \notin panicked /\ Found(t).found_by # <<>>
       THEN Reported(t) = {[task |-> t, device |-> Found(t)]}
       ELSE Reported(t) = {}
    /\ phase = "done" => tasks[t].pc = "joined"

IInv ==
    /\ TypeOK /\ RangeInv /\ SpawnInv
    /\ \A t \in 1..Len(tasks) : JoinInv(t) /\ (t \in panicked \/ TaskInv(t))
=============================================================================

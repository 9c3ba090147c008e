---------------------------- MODULE EsxInventory ----------------------------
(***************************************************************************)
(* The vSphere inventory (glpi-vsphere, run_esx of glpi-cli main.rs): a run *)
(* logs in to a vCenter or an ESXi host, asks for every host and virtual    *)
(* machine in one request, logs out, and submits one inventory per host to  *)
(* one server after the other.  It may instead write what it read to a      *)
(* dump file, or replay that file later.                                    *)
(*                                                                         *)
(* Machines are moved between hosts while this goes on.  A request may be   *)
(* lost or its answer, an answer may be a fault, break off in the middle or *)
(* come from something else than vSphere; the vSphere client waits without  *)
(* end for one that never comes.                                            *)
(***************************************************************************)
EXTENDS Naturals, Sequences, FiniteSets

CONSTANTS
    Hypervisor,   \* hosts, by their managed-object reference
    Vm,           \* virtual machines, by theirs
    Identities,   \* [Hypervisor -> [name, uuid, model, packages, cores]] in use
    Device,       \* device identifiers
    NumServers,
    GlpiVersion,  \* --glpi-version, three numbers
    Modes,        \* of "live", "dump", "replay"
    None,
    Torn,         \* a dump file written half
    MaxFaults,    \* bound on what goes wrong
    MaxMoves      \* bound on machines moved

Server == 1..NumServers
EsxHost == "esx-host"

ASSUME EsxAssumption ==
    /\ NumServers \in Nat /\ MaxFaults \in Nat /\ MaxMoves \in Nat
    /\ GlpiVersion \in Nat \X Nat \X Nat
    /\ Modes \subseteq {"live", "dump", "replay"}
    /\ EsxHost \in Device
    /\ IsFiniteSet(Hypervisor) /\ IsFiniteSet(Vm) /\ Hypervisor \cap Vm = {}
    /\ Identities \subseteq [Hypervisor -> [name : Device \cup {None},
                                           uuid : Device \cup {None},
                                           model : {"known", None},
                                           packages : Nat, cores : Nat]]
-----------------------------------------------------------------------------
(* What vSphere answers, and what the parser makes of it. *)

\* The retrieval lists objects: hosts with the machines they refer to, and
\* machines.  `vm` is the last property of a host.
HostObject(h, identity, placement) ==
    [type |-> "HostSystem", id |-> h, props |-> identity[h],
     refs |-> {v \in Vm : placement[v] = h}]
VmObject(v) == [type |-> "VirtualMachine", id |-> v, props |-> "known", refs |-> {}]

NoProps == [name |-> None, uuid |-> None, model |-> None, packages |-> 0, cores |-> 0]

\* parse_objects stops at the end of the text, or at an error in it: of the
\* object it was in there is nothing, its reference, or all but its machines.
BrokenOff(objects) ==
    UNION {LET o == objects[n]
               kept(last) == Append(SubSeq(objects, 1, n - 1), last)
           IN {SubSeq(objects, 1, n - 1),
               kept([o EXCEPT !.props = IF o.type = "HostSystem" THEN NoProps ELSE None,
                              !.refs = {}]),
               kept([o EXCEPT !.refs = {}])} :
           n \in 1..Len(objects)}

\* vm_from_object
VmInfo(o) == [vm |-> o.id, guest |-> o.props]

\* host_from_object: the machines the host refers to, where they were listed.
HostInfo(o, vms) ==
    [name |-> o.props.name, uuid |-> o.props.uuid, model |-> o.props.model,
     packages |-> o.props.packages, cores |-> o.props.cores, vms |-> {v \in vms : v.vm \in o.refs}]

Listed(objects, n) ==
    {VmInfo(objects[k]) : k \in {k \in 1..n : objects[k].type = "VirtualMachine"}}

IsHost(o) == o.type = "HostSystem"

\* Wrong: a host is built when it is met, with the machines met before it.
parse_hosts_AsMet(objects) ==
    LET met == {k \in 1..Len(objects) : IsHost(objects[k])}
        Nth(i) == CHOOSE k \in met : Cardinality({j \in met : j <= k}) = i
    IN [i \in 1..Cardinality(met) |-> HostInfo(objects[Nth(i)], Listed(objects, Nth(i)))]

\* The machines are collected while the objects are read, and the hosts built
\* in a second pass.
parse_hosts(objects) ==
    LET vms == Listed(objects, Len(objects))
        built[n \in 0..Len(objects)] ==
            IF n = 0 THEN <<>>
            ELSE IF IsHost(objects[n]) THEN Append(built[n - 1], HostInfo(objects[n], vms))
            ELSE built[n - 1]
    IN built[Len(objects)]

\* The objects come in one order or another.
Listings(identity, placement) ==
    {objects \in [1..Cardinality(Hypervisor \cup Vm) ->
                    {HostObject(h, identity, placement) : h \in Hypervisor}
                        \cup {VmObject(v) : v \in Vm}] :
        \A j, k \in DOMAIN objects : objects[j].id = objects[k].id => j = k}
-----------------------------------------------------------------------------
(* The inventory of a host. *)

version_at_least(v, min) ==
    \/ v[1] > min[1]
    \/ v[1] = min[1] /\ v[2] > min[2]
    \/ v[1] = min[1] /\ v[2] = min[2] /\ v[3] >= min[3]

conversion_options == [vm_os_ip |-> version_at_least(GlpiVersion, <<10, 0, 17>>)]

device_id(host) ==
    IF host.name # None THEN host.name
    ELSE IF host.uuid # None THEN host.uuid ELSE EsxHost

\* The cores are split evenly, and what is left over is not reported; without a
\* number of packages there is one, if anything is known of it (`model` stands
\* for the CPU model and its clock).
cpu_section(host) ==
    IF host.packages = 0 THEN IF host.model = None THEN <<>> ELSE <<host.cores>>
    ELSE [k \in 1..host.packages |-> host.cores \div host.packages]

from_vm(v) ==
    [vm |-> v.vm, guest |-> IF conversion_options.vm_os_ip THEN v.guest ELSE None]

from_host(host) ==
    [hardware |-> host.name, cpus |-> cpu_section(host),
     virtual_machines |-> {from_vm(v) : v \in host.vms}]
-----------------------------------------------------------------------------
VARIABLES
    identity,   \* what the hosts are called and made of
    placement,  \* [Vm -> Hypervisor]
    moves,
    sessions,   \* sessions the vCenter has open
    mine,       \* one of them is that of this run
    phase,      \* "idle", "login", "retrieve", "logout", "parse", "submit", "hung"
    mode,       \* of the run
    response,   \* objects of the answer, or None
    hosts,      \* the parsed hosts
    at,         \* the host being submitted
    server,     \* the server it is submitted to
    file,       \* the dump file: None, Torn, or [hosts, truth]
    exit,       \* how the last run ended
    view,       \* [Server -> [Device -> its inventory, or None]]
    faults,     \* what went wrong so far
    truth,      \* history: what was there when the answer was given; None
                \* when the answer is not whole
    leaked      \* history: sessions whose login or logout was not answered

vcenter == <<identity, placement, moves>>
vars == <<vcenter, sessions, mine, phase, mode, response, hosts, at, server, file, exit,
          view, faults, truth, leaked>>

Fault == faults < MaxFaults /\ faults' = faults + 1

Init ==
    /\ identity \in Identities /\ placement \in [Vm -> Hypervisor] /\ moves = 0
    /\ sessions = 0 /\ mine = FALSE
    /\ phase = "idle" /\ mode \in Modes /\ response = None
    /\ hosts = <<>> /\ at = 1 /\ server = 1
    /\ file = None /\ exit = "none"
    /\ view = [s \in Server |-> [d \in Device |-> None]]
    /\ faults = 0 /\ truth = None /\ leaked = 0

\* A machine is moved to another host.
Move(v, h) ==
    /\ moves < MaxMoves /\ placement[v] # h
    /\ placement' = [placement EXCEPT ![v] = h] /\ moves' = moves + 1
    /\ UNCHANGED <<identity, sessions, mine, phase, mode, response, hosts, at, server, file,
                   exit, view, faults, truth, leaked>>

End(how) == phase' = "idle" /\ exit' = how

Handshake ==
    /\ phase = "idle"
    /\ mode' \in Modes \cap {"live", "dump"}
    /\ phase' = "login" /\ mine' = FALSE
    /\ hosts' = <<>> /\ at' = 1 /\ server' = 1 /\ truth' = None /\ response' = None
    /\ UNCHANGED <<vcenter, sessions, file, exit, view, faults, leaked>>

\* No answer, a fault, or an answer without the references that are needed.
HandshakeFails ==
    /\ phase = "idle" /\ Modes \cap {"live", "dump"} # {}
    /\ Fault
    /\ End("error")
    /\ UNCHANGED <<vcenter, sessions, mine, mode, response, hosts, at, server, file, view,
                   truth, leaked>>

Login ==
    /\ phase = "login"
    /\ sessions' = sessions + 1 /\ mine' = TRUE /\ phase' = "retrieve"
    /\ UNCHANGED <<vcenter, mode, response, hosts, at, server, file, exit, view, faults, truth,
                   leaked>>

\* The credentials are refused, or there is no answer, in which case the
\* session may have been opened.
LoginFails ==
    /\ phase = "login"
    /\ Fault
    /\ leaked' \in {leaked, leaked + 1} /\ sessions' = sessions + (leaked' - leaked)
    /\ End("error")
    /\ UNCHANGED <<vcenter, mine, mode, response, hosts, at, server, file, view, truth>>

\* Any answer that is no fault, and no 5xx, is taken for a login.
LoginElsewhere ==
    /\ phase = "login"
    /\ Fault
    /\ phase' = "retrieve"
    /\ UNCHANGED <<vcenter, sessions, mine, mode, response, hosts, at, server, file, exit, view,
                   truth, leaked>>

Retrieve ==
    /\ phase = "retrieve" /\ mine
    /\ response' \in Listings(identity, placement)
    /\ truth' = placement
    /\ phase' = "logout"
    /\ UNCHANGED <<vcenter, sessions, mine, mode, hosts, at, server, file, exit, view, faults,
                   leaked>>

\* The answer breaks off, or is not one of vSphere.
RetrieveBroken ==
    /\ phase = "retrieve"
    /\ Fault
    /\ response' \in {<<>>} \cup
          (IF mine THEN UNION {BrokenOff(o) : o \in Listings(identity, placement)} ELSE {})
    /\ phase' = "logout"
    /\ UNCHANGED <<vcenter, sessions, mine, mode, hosts, at, server, file, exit, view, truth,
                   leaked>>

\* Wrong: the request is sent again, in whatever session there is.
RetrieveFails_AsksAgain ==
    /\ phase = "retrieve"
    /\ IF mine THEN Fault ELSE UNCHANGED faults
    /\ UNCHANGED <<vcenter, sessions, mine, phase, mode, response, hosts, at, server, file,
                   exit, view, truth, leaked>>

\* Wrong: the error is returned at once.
RetrieveFails_Returns ==
    /\ phase = "retrieve"
    /\ IF mine THEN Fault ELSE UNCHANGED faults
    /\ End("error")
    /\ UNCHANGED <<vcenter, sessions, mine, mode, response, hosts, at, server, file, view,
                   truth, leaked>>

\* No answer, or a fault: that of a missing session is one.
RetrieveFails ==
    /\ phase = "retrieve"
    /\ IF mine THEN Fault ELSE UNCHANGED faults
    /\ phase' = "logout"
    /\ UNCHANGED <<vcenter, sessions, mine, mode, response, hosts, at, server, file, exit, view,
                   truth, leaked>>

\* Whatever became of the retrieval, and whatever the answer is.
Logout ==
    /\ phase = "logout"
    /\ sessions' = IF mine THEN sessions - 1 ELSE sessions
    /\ phase' = "parse"
    /\ UNCHANGED <<vcenter, mine, mode, response, hosts, at, server, file, exit, view, faults,
                   truth, leaked>>

LogoutFails ==
    /\ phase = "logout" /\ mine
    /\ Fault
    /\ leaked' = leaked + 1
    /\ phase' = "parse"
    /\ UNCHANGED <<vcenter, sessions, mine, mode, response, hosts, at, server, file, exit, view,
                   truth>>

ParseFails ==
    /\ phase = "parse" /\ response = None
    /\ End("error")
    /\ UNCHANGED <<vcenter, sessions, mine, mode, response, hosts, at, server, file, view,
                   faults, truth, leaked>>

Parsed == phase = "parse" /\ response # None

Parse ==
    /\ Parsed /\ mode = "live"
    /\ hosts' = parse_hosts(response)
    /\ phase' = "submit"
    /\ UNCHANGED <<vcenter, sessions, mine, mode, response, at, server, file, exit, view,
                   faults, truth, leaked>>

\* --dump: the hosts are written in place of being submitted.
Dump ==
    /\ Parsed /\ mode = "dump"
    /\ file' = [hosts |-> parse_hosts(response), truth |-> truth]
    /\ End("dumped")
    /\ UNCHANGED <<vcenter, sessions, mine, mode, response, hosts, at, server, view, faults,
                   truth, leaked>>

DumpFails ==
    /\ Parsed /\ mode = "dump"
    /\ Fault
    /\ file' \in {file, Torn}
    /\ End("error")
    /\ UNCHANGED <<vcenter, sessions, mine, mode, response, hosts, at, server, view, truth,
                   leaked>>

\* --dumpfile: as many times and as much later as one likes.
Replay ==
    /\ phase = "idle" /\ "replay" \in Modes /\ file \notin {None, Torn}
    /\ mode' = "replay"
    /\ hosts' = file.hosts /\ truth' = file.truth
    /\ phase' = "submit" /\ at' = 1 /\ server' = 1
    /\ UNCHANGED <<vcenter, sessions, mine, response, file, exit, view, faults, leaked>>

ReplayFails ==
    /\ phase = "idle" /\ "replay" \in Modes /\ file \in {None, Torn}
    /\ mode' = "replay"
    /\ End("error")
    /\ UNCHANGED <<vcenter, sessions, mine, response, hosts, at, server, file, view, faults,
                   truth, leaked>>

Submitting == phase = "submit" /\ at <= Len(hosts)

Post ==
    view' = [view EXCEPT ![server][device_id(hosts[at])] = from_host(hosts[at])]

NextSubmission ==
    IF server < NumServers THEN server' = server + 1 /\ UNCHANGED at
    ELSE at' = at + 1 /\ server' = 1

Submit ==
    /\ Submitting
    /\ Post
    /\ NextSubmission
    /\ UNCHANGED <<vcenter, sessions, mine, phase, mode, response, hosts, file, exit, faults,
                   truth, leaked>>

\* The first submission that is not confirmed ends the run.
SubmitFails ==
    /\ Submitting
    /\ Fault
    /\ Post \/ UNCHANGED view
    /\ End("error")
    /\ UNCHANGED <<vcenter, sessions, mine, mode, response, hosts, at, server, file, truth,
                   leaked>>

Finish ==
    /\ phase = "submit" /\ at > Len(hosts)
    /\ End("ok")
    /\ UNCHANGED <<vcenter, sessions, mine, mode, response, hosts, at, server, file, view,
                   faults, truth, leaked>>

\* An answer of vSphere never comes; the process is ended from outside.
Hang ==
    /\ phase \in {"login", "retrieve", "logout"}
    /\ Fault
    /\ phase' = "hung"
    /\ leaked' \in IF mine THEN {leaked + 1} ELSE {leaked, leaked + 1}
    /\ sessions' = sessions + (IF mine THEN 0 ELSE leaked' - leaked)
    /\ UNCHANGED <<vcenter, mine, mode, response, hosts, at, server, file, exit, view, truth>>

Kill ==
    /\ phase = "hung"
    /\ End("error")
    /\ UNCHANGED <<vcenter, sessions, mine, mode, response, hosts, at, server, file, view,
                   faults, truth, leaked>>

\* Steps of a run in which nothing goes wrong that did not before.
Work ==
    \/ Handshake \/ Login \/ Retrieve \/ Logout \/ Parse \/ Dump \/ ParseFails
    \/ (RetrieveFails /\ ~mine) \/ Submit \/ Finish \/ Kill

Next ==
    \/ \E v \in Vm, h \in Hypervisor : Move(v, h)
    \/ Handshake \/ HandshakeFails \/ Login \/ LoginFails \/ LoginElsewhere
    \/ Retrieve \/ RetrieveBroken \/ RetrieveFails \/ Logout \/ LogoutFails
    \/ ParseFails \/ Parse \/ Dump \/ DumpFails \/ Replay \/ ReplayFails
    \/ Submit \/ SubmitFails \/ Finish \/ Hang \/ Kill

Spec == Init /\ [][Next]_vars

\* The run is started live again and again, and one that hangs is ended.
FairSpec ==
    Spec /\ WF_vars(Work) /\ SF_vars(Handshake /\ mode' = "live")
-----------------------------------------------------------------------------
\* The sockets of a host: one that nothing tells the number of has one.
Sockets(i) ==
    LET n == IF i.packages = 0 /\ i.model # None THEN 1 ELSE i.packages
    IN [k \in 1..n |-> i.cores \div n]

\* What a host contains, by where the machines were.
Whole(h, where) ==
    LET i == identity[h] IN
    [hardware |-> i.name,
     cpus |-> Sockets(i),
     virtual_machines |->
        {[vm |-> v, guest |-> IF conversion_options.vm_os_ip THEN "known" ELSE None] :
            v \in {v \in Vm : where[v] = h}}]

Named(d) == {h \in Hypervisor : device_id(identity[h]) = d}

Shows(s, where) ==
    \A d \in Device : Named(d) # {} => \E h \in Named(d) : view[s][d] = Whole(h, where)

(* A run that ends well has given every server the inventory of every host, *)
(* each with the machines it had when vSphere was asked, in whatever order  *)
(* it listed them, now or when the dump was written; of hosts that share an *)
(* identifier the inventory of one.  Only an answer that breaks off, or is  *)
(* not one of vSphere, makes this untrue.                                   *)
CompletedIsComplete ==
    (phase = "idle" /\ exit = "ok" /\ truth # None) => \A s \in Server : Shows(s, truth)

(* No run leaves a session with the vCenter, however it ends, but where the *)
(* answer to a login or a logout is missing.                                *)
SessionsClosed == phase = "idle" => sessions = leaked

\* What the parser makes of a host of a whole answer.
Described(h, i, where) ==
    HostInfo(HostObject(h, i, where), {VmInfo(VmObject(v)) : v \in Vm})

\* Every host is among the parsed ones, and nothing else.
AllOf(parsed, i, where) ==
    /\ parsed \in Seq({Described(h, i, where) : h \in Hypervisor})
    /\ \A h \in Hypervisor : \E k \in DOMAIN parsed : parsed[k] = Described(h, i, where)

\* The server s has an inventory of the k-th host, or of one of the same name.
Delivered(s, k) ==
    \E j \in DOMAIN hosts :
        /\ device_id(hosts[j]) = device_id(hosts[k])
        /\ view[s][device_id(hosts[k])] = from_host(hosts[j])

TypeOK ==
    /\ identity \in Identities
    /\ phase \in {"idle", "login", "retrieve", "logout", "parse", "submit", "hung"}
    /\ sessions \in Nat /\ leaked \in Nat
    /\ at \in Nat \ {0} /\ server \in Nat \ {0} /\ (server \in Server \/ Server = {})
    /\ DOMAIN view = Server /\ \A s \in Server : DOMAIN view[s] = Device

SessionInv ==
    /\ phase = "login" => ~mine
    /\ sessions = leaked + (IF mine /\ phase \in {"retrieve", "logout"} THEN 1 ELSE 0)

\* Only an answer that is whole is taken for one, and nothing is submitted yet.
AnswerInv ==
    /\ phase \in {"login", "retrieve"} => truth = None
    /\ phase \in {"logout", "parse"} /\ truth # None => response \in Listings(identity, truth)
    /\ phase \in {"login", "retrieve", "logout", "parse"} => at = 1 /\ server = 1

\* The dump of a whole answer has every host.
FileInv ==
    file \notin {None, Torn} /\ file.truth # None => AllOf(file.hosts, identity, file.truth)

\* So have the hosts being submitted, and the servers before this one have
\* been given those up to this one.
SubmitInv ==
    phase = "submit" /\ truth # None =>
        /\ AllOf(hosts, identity, truth)
        /\ \A s \in Server, k \in DOMAIN hosts :
              k < at \/ (k = at /\ s < server) => Delivered(s, k)

IInv ==
    /\ TypeOK
    /\ SessionInv
    /\ AnswerInv
    /\ FileInv
    /\ SubmitInv
    /\ CompletedIsComplete

(* Once nothing goes wrong and no machine moves, every server comes to show *)
(* every host with its machines, and no machine in two places, whatever     *)
(* runs ended half way before.                                              *)
HostsConverge ==
    <>[][Work]_vars => <>[](\A s \in Server : Shows(s, placement))
=============================================================================

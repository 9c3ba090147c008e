-------------------------- MODULE SessionProofs --------------------------
(***************************************************************************)
(* Proofs about the two sessions with a machine that is not this one.       *)
(*                                                                         *)
(* EsxInventory: a run that ends well has given every server every host     *)
(* with its machines, and no session of the vCenter is left open, for any   *)
(* hosts, machines, servers and faults.                                     *)
(*                                                                         *)
(* WinRmSession, in the second part: no command is left on the host and     *)
(* every section of the inventory is whole or missing.                      *)
(***************************************************************************)
EXTENDS EsxInventory, WinRmSession, DataLemmas, SequenceTheorems

USE EsxAssumption
-----------------------------------------------------------------------------
\* The objects of a listing.
ObjectsOf(i, w) == {HostObject(h, i, w) : h \in Hypervisor} \cup {VmObject(v) : v \in Vm}

(* A whole listing has every host and every machine: it is as long as there *)
(* are objects, and no two of its places have the same reference.           *)
LEMMA ListingIsWhole ==
    ASSUME NEW i, NEW w, NEW objects \in Listings(i, w)
    PROVE  /\ objects \in Seq(ObjectsOf(i, w))
           /\ \A h \in Hypervisor : \E k \in 1..Len(objects) : objects[k] = HostObject(h, i, w)
           /\ \A v \in Vm : \E k \in 1..Len(objects) : objects[k] = VmObject(v)
<1> DEFINE N == Cardinality(Hypervisor \cup Vm)
           Objects == ObjectsOf(i, w)
           ids == [k \in 1..N |-> objects[k].id]
<1>1. IsFiniteSet(Hypervisor \cup Vm) /\ N \in Nat
  BY FS_Union, FS_CardinalityType
<1>2. /\ objects \in [1..N -> Objects]
      /\ \A j, k \in 1..N : objects[j].id = objects[k].id => j = k
  BY DEF Listings, ObjectsOf
<1>3. \A o \in Objects : o.id \in Hypervisor \cup Vm
  BY DEF ObjectsOf, HostObject, VmObject
<1> HIDE DEF N, Objects
<1>4. ids \in [1..N -> Hypervisor \cup Vm]
  BY <1>2, <1>3
<1>5. ids \in Injection(1..N, Hypervisor \cup Vm)
  BY <1>2, <1>4 DEF Injection, IsInjective
<1>6. Cardinality(1..N) = Cardinality(Hypervisor \cup Vm)
  BY <1>1, FS_Interval DEF N
<1>7. ids \in Surjection(1..N, Hypervisor \cup Vm)
  BY <1>1, <1>5, <1>6, FS_Injection
<1>8. \A x \in Hypervisor \cup Vm : \E k \in 1..N : objects[k].id = x /\ objects[k] \in Objects
  BY <1>2, <1>7 DEF Surjection
<1>9. objects \in Seq(Objects) /\ Len(objects) = N
  BY <1>1, <1>2
<1>10. ASSUME NEW h \in Hypervisor
       PROVE  \E k \in 1..N : objects[k] = HostObject(h, i, w)
  <2>1. PICK k \in 1..N : objects[k].id = h /\ objects[k] \in Objects
    BY <1>8
  <2>2. \A v \in Vm : objects[k] # VmObject(v)
    BY <2>1 DEF VmObject
  <2>3. PICK g \in Hypervisor : objects[k] = HostObject(g, i, w)
    BY <2>1, <2>2 DEF Objects, ObjectsOf
  <2>4. g = h
    BY <2>1, <2>3 DEF HostObject
  <2>5. QED
    BY <2>3, <2>4
<1>11. ASSUME NEW v \in Vm
       PROVE  \E k \in 1..N : objects[k] = VmObject(v)
  <2>1. PICK k \in 1..N : objects[k].id = v /\ objects[k] \in Objects
    BY <1>8
  <2>2. \A h \in Hypervisor : objects[k] # HostObject(h, i, w)
    BY <2>1 DEF HostObject
  <2>3. PICK u \in Vm : objects[k] = VmObject(u)
    BY <2>1, <2>2 DEF Objects, ObjectsOf
  <2>4. u = v
    BY <2>1, <2>3 DEF VmObject
  <2>5. QED
    BY <2>3, <2>4
<1>12. QED
  BY <1>9, <1>10, <1>11 DEF Objects

(* The parser's loop builds one record for each host it was given, whatever *)
(* else is between them.                                                    *)
LEMMA ParsedHosts ==
    ASSUME NEW O, NEW objects \in Seq(O)
    PROVE  LET vms == Listed(objects, Len(objects))
               found == {k \in 1..Len(objects) : IsHost(objects[k])}
           IN /\ parse_hosts(objects) \in Seq({HostInfo(objects[k], vms) : k \in found})
              /\ \A k \in found : \E j \in DOMAIN parse_hosts(objects) :
                    parse_hosts(objects)[j] = HostInfo(objects[k], vms)
<1> DEFINE N == Len(objects)
           vms == Listed(objects, N)
           found == {k \in 1..N : IsHost(objects[k])}
           item == [k \in 1..N |-> HostInfo(objects[k], vms)]
           built[n \in 0..N] == IF n = 0 THEN <<>>
                                ELSE IF IsHost(objects[n])
                                     THEN Append(built[n - 1], HostInfo(objects[n], vms))
                                     ELSE built[n - 1]
<1>1. N \in Nat /\ found \in SUBSET (1..N)
  OBVIOUS
<1>2. parse_hosts(objects) = built[N]
  BY DEF parse_hosts
<1>3. ASSUME NEW f
      PROVE  Collects(f, N, found, item) <=>
               f = [n \in 0..N |-> IF n = 0 THEN <<>>
                                   ELSE IF IsHost(objects[n])
                                        THEN Append(f[n - 1], HostInfo(objects[n], vms))
                                        ELSE f[n - 1]]
  <2> HIDE DEF N, vms, built
  <2>1. \A n \in 0..N : n # 0 => /\ n \in found <=> IsHost(objects[n])
                                 /\ item[n] = HostInfo(objects[n], vms)
    BY <1>1
  <2>2. ASSUME NEW n \in 0..N
        PROVE  (IF n = 0 THEN <<>>
                ELSE IF n \in found THEN Append(f[n - 1], item[n]) ELSE f[n - 1])
               = IF n = 0 THEN <<>>
                 ELSE IF IsHost(objects[n]) THEN Append(f[n - 1], HostInfo(objects[n], vms))
                 ELSE f[n - 1]
    BY <2>1
  <2> HIDE DEF item, found
  <2>3. QED
    BY <2>2, Zenon DEF Collects
<1>4. Collects(built, N, found, item)
  <2>1. PICK f : Collects(f, N, found, item)
    BY <1>1, CollectingExists
  <2>2. QED
    BY <1>3, <2>1
<1> DEFINE D == {HostInfo(objects[k], vms) : k \in found}
<1>5. \A k \in found : item[k] = HostInfo(objects[k], vms) /\ item[k] \in D
  OBVIOUS
<1> HIDE DEF built, D
<1>6. /\ built[N] \in Seq(D)
      /\ \A k \in found : \E j \in 1..Len(built[N]) : built[N][j] = item[k]
  <2> HIDE DEF N, found, item, vms
  <2>1. built[N] \in Seq(D)
    BY <1>1, <1>4, <1>5, Collecting
  <2>2. HasAll(built[N], found, item)
    BY <1>1, <1>4, CollectingAll
  <2>3. QED
    BY <2>1, <2>2 DEF HasAll
<1>7. DOMAIN built[N] = 1..Len(built[N])
  BY <1>6
<1>8. QED
  BY <1>2, <1>5, <1>6, <1>7 DEF D

(* A whole answer is parsed into every host with its machines.              *)
LEMMA WholeIsParsed ==
    ASSUME NEW objects, NEW w, objects \in Listings(identity, w)
    PROVE  AllOf(parse_hosts(objects), identity, w)
<1> DEFINE N == Len(objects)
           vms == Listed(objects, N)
           found == {k \in 1..N : IsHost(objects[k])}
           O == ObjectsOf(identity, w)
           D == {Described(h, identity, w) : h \in Hypervisor}
<1>1. /\ objects \in Seq(O)
      /\ \A h \in Hypervisor : \E k \in 1..N : objects[k] = HostObject(h, identity, w)
      /\ \A v \in Vm : \E k \in 1..N : objects[k] = VmObject(v)
  BY ListingIsWhole
<1>2. \A k \in 1..N : objects[k] \in O
  <2> HIDE DEF O
  <2>1. QED
    BY <1>1
<1>3. vms = {VmInfo(VmObject(v)) : v \in Vm}
  <2>1. ASSUME NEW k \in 1..N, objects[k].type = "VirtualMachine"
        PROVE  \E v \in Vm : objects[k] = VmObject(v)
    <3>1. \A h \in Hypervisor : objects[k] # HostObject(h, identity, w)
      BY <2>1 DEF HostObject
    <3>2. QED
      BY <1>2, <3>1 DEF ObjectsOf
  <2>2. \A v \in Vm : VmObject(v).type = "VirtualMachine"
    BY DEF VmObject
  <2> HIDE DEF N
  <2>3. QED
    BY <1>1, <2>1, <2>2 DEF Listed
<1>4. \A h \in Hypervisor :
        HostInfo(HostObject(h, identity, w), vms) = Described(h, identity, w)
  BY <1>3 DEF Described
<1>5. \A k \in found : \E h \in Hypervisor : objects[k] = HostObject(h, identity, w)
  <2>1. \A v \in Vm : ~IsHost(VmObject(v))
    BY DEF IsHost, VmObject
  <2>2. QED
    BY <1>2, <2>1 DEF ObjectsOf
<1>6. \A h \in Hypervisor : \E k \in found : objects[k] = HostObject(h, identity, w)
  <2>1. \A h \in Hypervisor : IsHost(HostObject(h, identity, w))
    BY DEF IsHost, HostObject
  <2>2. QED
    BY <1>1, <2>1
<1>7. /\ parse_hosts(objects) \in Seq({HostInfo(objects[k], vms) : k \in found})
      /\ \A k \in found : \E j \in DOMAIN parse_hosts(objects) :
            parse_hosts(objects)[j] = HostInfo(objects[k], vms)
  <2>1. objects \in Seq(O)
    BY <1>1
  <2> HIDE DEF O
  <2>2. QED
    BY <2>1, ParsedHosts
<1>8. {HostInfo(objects[k], vms) : k \in found} = D
  <2> HIDE DEF found, vms
  <2>1. QED
    BY <1>4, <1>5, <1>6
<1>9. parse_hosts(objects) \in Seq(D)
  BY <1>7, <1>8
<1>10. \A h \in Hypervisor : \E j \in DOMAIN parse_hosts(objects) :
          parse_hosts(objects)[j] = Described(h, identity, w)
  <2> HIDE DEF found, vms
  <2>1. QED
    BY <1>4, <1>6, <1>7
<1>11. QED
  BY <1>9, <1>10 DEF AllOf

(* What is submitted for such a host is its whole inventory, under its own  *)
(* identifier.                                                              *)
LEMMA SubmittedForDescribed ==
    ASSUME NEW h \in Hypervisor, NEW w, identity \in Identities
    PROVE  /\ from_host(Described(h, identity, w)) = Whole(h, w)
           /\ device_id(Described(h, identity, w)) = device_id(identity[h])
           /\ device_id(identity[h]) \in Device
<1> DEFINE d == Described(h, identity, w)
           listed == {VmInfo(VmObject(v)) : v \in Vm}
           ip(guest) == IF conversion_options.vm_os_ip THEN guest ELSE None
<1>1. /\ d.name = identity[h].name /\ d.uuid = identity[h].uuid
      /\ d.model = identity[h].model
      /\ d.packages = identity[h].packages /\ d.cores = identity[h].cores
      /\ d.vms = {v \in listed : v.vm \in {u \in Vm : w[u] = h}}
  BY DEF Described, HostInfo, HostObject
<1>2. listed = {[vm |-> v, guest |-> "known"] : v \in Vm}
  BY DEF VmInfo, VmObject
<1>3. {from_vm(v) : v \in d.vms}
        = {[vm |-> v, guest |-> ip("known")] : v \in {v \in Vm : w[v] = h}}
  <2>1. \A v \in Vm :
        from_vm([vm |-> v, guest |-> "known"]) = [vm |-> v, guest |-> ip("known")]
    BY DEF from_vm
  <2>2. d.vms = {[vm |-> v, guest |-> "known"] : v \in {v \in Vm : w[v] = h}}
    BY <1>1, <1>2
  <2> DEFINE S == {v \in Vm : w[v] = h}
             F(v) == [vm |-> v, guest |-> "known"]
             G(v) == [vm |-> v, guest |-> ip("known")]
  <2>3. \A v \in S : from_vm(F(v)) = G(v)
    BY <2>1
  <2>4. d.vms = {F(v) : v \in S}
    BY <2>2
  <2> HIDE DEF d, ip, S, F, G
  <2>5. {from_vm(v) : v \in d.vms} = {G(v) : v \in S}
    BY <2>3, <2>4
  <2>6. QED
    BY <2>5 DEF S, G
<1>4. cpu_section(d) = Sockets(identity[h])
  <2> DEFINE p == identity[h].packages
             c == identity[h].cores
  <2>1. p \in Nat /\ c \in Nat
    BY DEF EsxAssumption
  <2>2. d.model = identity[h].model /\ d.packages = p /\ d.cores = c
    BY <1>1
  <2> HIDE DEF d, p, c
  <2>3. CASE p = 0 /\ d.model # None
    <3>1. Sockets(identity[h]) = [k \in 1..1 |-> c \div 1]
      BY <2>2, <2>3 DEF Sockets, p, c
    <3>2. c \div 1 = c
      BY <2>1
    <3>3. cpu_section(d) = <<c>>
      BY <2>2, <2>3 DEF cpu_section
    <3>4. QED
      BY <3>1, <3>2, <3>3
  <2>4. CASE p = 0 /\ d.model = None
    <3>1. Sockets(identity[h]) = [k \in 1..0 |-> c \div 0]
      BY <2>2, <2>4 DEF Sockets, p, c
    <3>2. cpu_section(d) = <<>>
      BY <2>2, <2>4 DEF cpu_section
    <3>3. QED
      BY <3>1, <3>2
  <2>5. CASE p # 0
    BY <2>2, <2>5 DEF Sockets, cpu_section, p, c
  <2>6. QED
    BY <2>3, <2>4, <2>5
<1>5. from_host(d) = Whole(h, w)
  <2> HIDE DEF d
  <2>1. QED
    BY <1>1, <1>3, <1>4 DEF from_host, Whole
<1>6. device_id(d) = device_id(identity[h])
  BY <1>1 DEF device_id
<1>7. device_id(identity[h]) \in Device
  <2>1. identity[h].name \in Device \cup {None} /\ identity[h].uuid \in Device \cup {None}
    BY DEF EsxAssumption
  <2>2. QED
    BY <2>1 DEF device_id, EsxAssumption
<1>8. QED
  BY <1>5, <1>6, <1>7
-----------------------------------------------------------------------------
(* A run that has not begun holds no session and has parsed nothing.        *)
LEMMA InitInv == Init => IInv
<1> SUFFICES ASSUME Init PROVE IInv
  OBVIOUS
<1>1. TypeOK
  <2>1. DOMAIN view = Server /\ \A s \in Server : DOMAIN view[s] = Device
    BY DEF Init
  <2>2. 1 \in Server \/ Server = {}
    BY DEF Server, EsxAssumption
  <2>3. QED
    BY <2>1, <2>2 DEF Init, TypeOK
<1>2. SessionInv /\ AnswerInv /\ FileInv /\ SubmitInv /\ CompletedIsComplete
  BY DEF Init, SessionInv, AnswerInv, FileInv, SubmitInv, CompletedIsComplete
<1>3. QED
  BY <1>1, <1>2 DEF IInv

(* A session is open from the answer to the login to the logout, and each   *)
(* step that opens one or fails to close one accounts for it.               *)
LEMMA StepSession ==
    ASSUME TypeOK, SessionInv, [Next]_vars
    PROVE  SessionInv'
<1> USE DEF SessionInv, TypeOK, End
<1>1. CASE UNCHANGED vars
  BY <1>1 DEF vars
<1>2. ASSUME NEW v \in Vm, NEW h \in Hypervisor, Move(v, h)
      PROVE  SessionInv'
  BY <1>2 DEF Move
<1>3. CASE Handshake \/ HandshakeFails
  BY <1>3 DEF Handshake, HandshakeFails
<1>4. CASE Login \/ LoginElsewhere
  BY <1>4 DEF Login, LoginElsewhere
<1>5. CASE LoginFails
  BY <1>5 DEF LoginFails
<1>6. CASE Retrieve \/ RetrieveBroken \/ RetrieveFails
  BY <1>6 DEF Retrieve, RetrieveBroken, RetrieveFails
<1>7. CASE Logout \/ LogoutFails
  BY <1>7 DEF Logout, LogoutFails
<1>8. CASE ParseFails \/ Parse \/ Dump \/ DumpFails
  BY <1>8 DEF ParseFails, Parsed, Parse, Dump, DumpFails
<1>9. CASE Replay \/ ReplayFails
  BY <1>9 DEF Replay, ReplayFails
<1>10. CASE Submit \/ SubmitFails \/ Finish
  BY <1>10 DEF Submit, SubmitFails, Submitting, Finish
<1>11. CASE Hang \/ Kill
  BY <1>11 DEF Hang, Kill
<1>12. QED
  BY <1>1, <1>2, <1>3, <1>4, <1>5, <1>6, <1>7, <1>8, <1>9, <1>10, <1>11 DEF Next

\* What a post does to the views of the servers.
LEMMA PostFacts ==
    ASSUME TypeOK, Post
    PROVE  /\ DOMAIN view' = Server /\ \A s \in Server : DOMAIN view'[s] = Device
           /\ \A s \in Server, d \in Device :
                 view'[s][d] = IF s = server /\ d = device_id(hosts[at])
                                  THEN from_host(hosts[at])
                               ELSE view[s][d]
  BY DEF TypeOK, Post

\* Every step keeps the variables typed.
LEMMA StepType ==
    ASSUME TypeOK, SessionInv, [Next]_vars
    PROVE  TypeOK'
<1> USE DEF TypeOK, End
<1>1. CASE UNCHANGED vars
  BY <1>1 DEF vars, vcenter
<1>2. ASSUME NEW v \in Vm, NEW h \in Hypervisor, Move(v, h)
      PROVE  TypeOK'
  BY <1>2 DEF Move
<1>3. CASE Handshake \/ HandshakeFails
  <2>1. 1 \in Server \/ Server = {}
    BY DEF Server, EsxAssumption
  <2>2. QED
    BY <1>3, <2>1 DEF Handshake, HandshakeFails, vcenter
<1>4. CASE Login \/ LoginElsewhere
  BY <1>4 DEF Login, LoginElsewhere, vcenter
<1>5. CASE LoginFails
  <2>1. sessions' \in Nat /\ leaked' \in Nat
    <3>1. CASE leaked' = leaked
      BY <1>5, <3>1 DEF LoginFails
    <3>2. CASE leaked' = leaked + 1
      BY <1>5, <3>2 DEF LoginFails
    <3>3. QED
      BY <1>5, <3>1, <3>2 DEF LoginFails
  <2>2. QED
    BY <1>5, <2>1 DEF LoginFails, vcenter
<1>6. CASE Retrieve \/ RetrieveBroken \/ RetrieveFails
  BY <1>6 DEF Retrieve, RetrieveBroken, RetrieveFails, vcenter
<1>7. CASE Logout \/ LogoutFails
  BY <1>7 DEF Logout, LogoutFails, vcenter, SessionInv
<1>8. CASE ParseFails \/ Parse \/ Dump \/ DumpFails
  BY <1>8 DEF ParseFails, Parsed, Parse, Dump, DumpFails, vcenter
<1>9. CASE Replay \/ ReplayFails
  <2>1. 1 \in Server \/ Server = {}
    BY DEF Server, EsxAssumption
  <2>2. QED
    BY <1>9, <2>1 DEF Replay, ReplayFails, vcenter
<1>10. CASE Submit
  <2>1. DOMAIN view' = Server /\ \A s \in Server : DOMAIN view'[s] = Device
    BY <1>10, PostFacts DEF Submit
  <2>2. at' \in Nat \ {0} /\ server' \in Nat \ {0} /\ (server' \in Server \/ Server = {})
    BY <1>10 DEF Submit, NextSubmission, Server, EsxAssumption
  <2>3. QED
    BY <1>10, <2>1, <2>2 DEF Submit, vcenter
<1>11. CASE SubmitFails
  <2>1. DOMAIN view' = Server /\ \A s \in Server : DOMAIN view'[s] = Device
    BY <1>11, PostFacts DEF SubmitFails
  <2>2. QED
    BY <1>11, <2>1 DEF SubmitFails, vcenter
<1>12. CASE Finish
  BY <1>12 DEF Finish, vcenter
<1>13. CASE Hang \/ Kill
  BY <1>13 DEF Hang, Kill, vcenter
<1>14. QED
  BY <1>1, <1>2, <1>3, <1>4, <1>5, <1>6, <1>7, <1>8, <1>9, <1>10, <1>11, <1>12, <1>13 DEF Next

(* Posting the host at hand leaves every server that had a host with one of *)
(* its identifier, and gives it to this server.                             *)
LEMMA PostDelivers ==
    ASSUME TypeOK, Post, truth # None, AllOf(hosts, identity, truth), at \in DOMAIN hosts,
           hosts' = hosts
    PROVE  \A s \in Server, k \in DOMAIN hosts :
              Delivered(s, k) \/ (s = server /\ k = at) => Delivered(s, k)'
<1> DEFINE id(k) == device_id(hosts[k])
<1>1. \A k \in DOMAIN hosts : id(k) \in Device
  <2>1. ASSUME NEW k \in DOMAIN hosts
        PROVE  id(k) \in Device
    <3>1. PICK h \in Hypervisor : hosts[k] = Described(h, identity, truth)
      BY DEF AllOf
    <3>2. QED
      BY <3>1, SubmittedForDescribed DEF TypeOK
  <2>2. QED
    BY <2>1
<1>2. \A s \in Server, k \in DOMAIN hosts :
         view'[s][id(k)] = IF s = server /\ id(k) = id(at) THEN from_host(hosts[at])
                           ELSE view[s][id(k)]
  BY <1>1, PostFacts
<1>3. \A k : id(k)' = id(k) /\ from_host(hosts[k])' = from_host(hosts[k])
  BY DEF device_id, from_host, cpu_section, from_vm, conversion_options
<1>4. ASSUME NEW s \in Server, NEW k \in DOMAIN hosts, Delivered(s, k)
      PROVE  Delivered(s, k)'
  <2>1. PICK j \in DOMAIN hosts : id(j) = id(k) /\ view[s][id(k)] = from_host(hosts[j])
    BY <1>4 DEF Delivered
  <2>2. CASE s = server /\ id(k) = id(at)
    BY <1>2, <1>3, <2>2 DEF Delivered
  <2>3. CASE ~(s = server /\ id(k) = id(at))
    BY <1>2, <1>3, <2>1, <2>3 DEF Delivered
  <2>4. QED
    BY <2>2, <2>3
<1>5. ASSUME NEW s \in Server, s = server, NEW k \in DOMAIN hosts, k = at
      PROVE  Delivered(s, k)'
  BY <1>2, <1>3, <1>5 DEF Delivered
<1>6. QED
  BY <1>4, <1>5

\* No step renames a host or gives it another processor.
LEMMA SameIdentity == [Next]_vars => identity' = identity
  BY DEF Next, vars, vcenter, Move, Handshake, HandshakeFails, Login, LoginFails,
     LoginElsewhere, Retrieve, RetrieveBroken, RetrieveFails, Logout, LogoutFails, ParseFails,
     Parse, Dump, DumpFails, Replay, ReplayFails, Submit, SubmitFails, Finish, Hang, Kill

(* Only what Retrieve got, in one piece, is remembered as a whole answer.   *)
LEMMA StepAnswer ==
    ASSUME TypeOK, AnswerInv, [Next]_vars
    PROVE  AnswerInv'
<1> USE DEF AnswerInv, End
<1>1. identity' = identity
  BY SameIdentity
<1>2. CASE UNCHANGED vars
  BY <1>1, <1>2 DEF vars
<1>3. ASSUME NEW v \in Vm, NEW h \in Hypervisor, Move(v, h)
      PROVE  AnswerInv'
  BY <1>1, <1>3 DEF Move
<1>4. CASE Handshake \/ HandshakeFails \/ Login \/ LoginElsewhere \/ LoginFails
  BY <1>4 DEF Handshake, HandshakeFails, Login, LoginElsewhere, LoginFails
<1>5. CASE Retrieve
  BY <1>1, <1>5 DEF Retrieve
<1>6. CASE RetrieveBroken \/ RetrieveFails
  BY <1>6 DEF RetrieveBroken, RetrieveFails
<1>7. CASE Logout \/ LogoutFails
  BY <1>1, <1>7 DEF Logout, LogoutFails
<1>8. CASE ParseFails \/ Parse \/ Dump \/ DumpFails \/ Replay \/ ReplayFails
  BY <1>8 DEF ParseFails, Parsed, Parse, Dump, DumpFails, Replay, ReplayFails
<1>9. CASE Submit \/ SubmitFails \/ Finish \/ Hang \/ Kill
  BY <1>9 DEF Submit, SubmitFails, Submitting, Finish, Hang, Kill
<1>10. QED
  BY <1>2, <1>3, <1>4, <1>5, <1>6, <1>7, <1>8, <1>9 DEF Next

(* Nothing but a dump writes the file.                                      *)
LEMMA StepFile ==
    ASSUME TypeOK, AnswerInv, FileInv, [Next]_vars
    PROVE  FileInv'
<1>1. identity' = identity
  BY SameIdentity
<1>2. CASE Dump
  <2>1. file'.hosts = parse_hosts(response) /\ file'.truth = truth /\ phase = "parse"
    BY <1>2 DEF Dump, Parsed
  <2>2. truth # None => AllOf(parse_hosts(response), identity, truth)
    BY <2>1, WholeIsParsed DEF AnswerInv
  <2>3. QED
    BY <1>1, <2>1, <2>2 DEF FileInv
<1>3. CASE DumpFails
  BY <1>1, <1>3 DEF DumpFails, FileInv
<1>4. CASE ~(Dump \/ DumpFails)
  <2>1. file' = file
    BY <1>4 DEF Next, vars, Move, Handshake, HandshakeFails, Login, LoginFails,
     LoginElsewhere, Retrieve, RetrieveBroken, RetrieveFails, Logout, LogoutFails, ParseFails,
     Parse, Replay, ReplayFails, Submit, SubmitFails, Finish, Hang, Kill
  <2>2. QED
    BY <1>1, <2>1 DEF FileInv
<1>5. QED
  BY <1>2, <1>3, <1>4

(* What has been delivered stays delivered, and the host at hand joins it.  *)
LEMMA StepSubmit ==
    ASSUME TypeOK, AnswerInv, FileInv, SubmitInv, [Next]_vars
    PROVE  SubmitInv'
<1>1. identity' = identity
  BY SameIdentity
<1>2. CASE Parse
  <2>1. /\ phase = "parse" /\ at' = 1 /\ server' = 1 /\ truth' = truth
        /\ hosts' = parse_hosts(response)
    BY <1>2 DEF Parse, Parsed, AnswerInv
  <2>2. truth # None => AllOf(hosts', identity', truth')
    BY <1>1, <2>1, WholeIsParsed DEF AnswerInv
  <2>3. QED
    BY <2>1, <2>2 DEF SubmitInv, AllOf, Server
<1>3. CASE Replay
  <2>1. /\ at' = 1 /\ server' = 1 /\ truth' = file.truth /\ hosts' = file.hosts
        /\ file \notin {None, Torn}
    BY <1>3 DEF Replay
  <2>2. truth' # None => AllOf(hosts', identity', truth')
    BY <1>1, <2>1 DEF FileInv
  <2>3. truth' # None => \A k \in DOMAIN hosts' : k \in Nat \ {0}
    <3>1. SUFFICES ASSUME truth' # None PROVE \A k \in DOMAIN hosts' : k \in Nat \ {0}
      OBVIOUS
    <3>2. hosts' \in Seq({Described(h, identity', truth') : h \in Hypervisor})
      BY <2>2, <3>1 DEF AllOf
    <3>3. QED
      BY <3>2
  <2>4. \A s \in Server : ~(s < 1)
    BY DEF Server
  <2>5. QED
    BY <2>1, <2>2, <2>3, <2>4 DEF SubmitInv
<1>4. CASE Submit
  <2>1. /\ phase = "submit" /\ at \in Nat /\ at \in 1..Len(hosts) /\ Post /\ NextSubmission
        /\ UNCHANGED <<identity, hosts, truth>>
    BY <1>1, <1>4 DEF Submit, Submitting, TypeOK
  <2>2. SUFFICES ASSUME truth # None
                 PROVE  \A s \in Server, k \in DOMAIN hosts :
                           k < at' \/ (k = at' /\ s < server') => Delivered(s, k)'
    BY <1>4, <2>1 DEF SubmitInv, Submit
  <2>3. /\ AllOf(hosts, identity, truth)
        /\ \A s \in Server, k \in DOMAIN hosts :
              k < at \/ (k = at /\ s < server) => Delivered(s, k)
    BY <2>1, <2>2 DEF SubmitInv
  <2>4. DOMAIN hosts = 1..Len(hosts) /\ Len(hosts) \in Nat
    BY <2>3 DEF AllOf
  <2>5. \A s \in Server, k \in DOMAIN hosts :
           Delivered(s, k) \/ (s = server /\ k = at) => Delivered(s, k)'
    BY <2>1, <2>2, <2>3, <2>4, PostDelivers
  <2>6. \A s \in Server, k \in DOMAIN hosts :
           k < at' \/ (k = at' /\ s < server')
             => k < at \/ (k = at /\ s < server) \/ (s = server /\ k = at)
    BY <2>1, <2>4 DEF NextSubmission, Server, TypeOK, EsxAssumption
  <2>7. QED
    BY <2>3, <2>5, <2>6
<1>5. CASE ~(Parse \/ Replay \/ Submit)
  <2>1. phase' = "submit" =>
           phase = "submit" /\ UNCHANGED <<hosts, truth, at, server, view>>
    BY <1>5 DEF Next, vars, Move, Handshake, HandshakeFails, Login, LoginFails,
     LoginElsewhere, Retrieve, RetrieveBroken, RetrieveFails, Logout, LogoutFails, ParseFails,
     Dump, DumpFails, ReplayFails, SubmitFails, Finish, Hang, Kill, End
  <2>2. QED
    BY <1>1, <2>1 DEF SubmitInv, Delivered
<1>6. QED
  BY <1>2, <1>3, <1>4, <1>5

(* Every server that was given all the hosts shows, under every identifier, *)
(* the whole inventory of a host that has it.                               *)
LEMMA AllDelivered ==
    ASSUME TypeOK, AllOf(hosts, identity, truth), NEW s \in Server,
           \A k \in DOMAIN hosts : Delivered(s, k)
    PROVE  Shows(s, truth)
<1> SUFFICES ASSUME NEW d \in Device, Named(d) # {}
             PROVE  \E h \in Named(d) : view[s][d] = Whole(h, truth)
  BY DEF Shows
<1>1. PICK g \in Hypervisor : device_id(identity[g]) = d
  BY DEF Named
<1>2. PICK k \in DOMAIN hosts : hosts[k] = Described(g, identity, truth)
  BY DEF AllOf
<1>3. device_id(hosts[k]) = d
  BY <1>1, <1>2, SubmittedForDescribed DEF TypeOK
<1>4. PICK j \in DOMAIN hosts : device_id(hosts[j]) = d /\ view[s][d] = from_host(hosts[j])
  BY <1>3 DEF Delivered
<1>5. PICK h \in Hypervisor : hosts[j] = Described(h, identity, truth)
  BY DEF AllOf
<1>6. device_id(identity[h]) = d /\ from_host(hosts[j]) = Whole(h, truth)
  BY <1>4, <1>5, SubmittedForDescribed DEF TypeOK
<1>7. QED
  BY <1>4, <1>6 DEF Named

\* What a server shows of the hosts depends on nothing else.
LEMMA SameShows ==
    ASSUME UNCHANGED <<identity, view, truth>>
    PROVE  \A s \in Server : Shows(s, truth) <=> Shows(s, truth)'
<1>1. \A h \in Hypervisor : Whole(h, truth)' = Whole(h, truth)
  BY DEF Whole, conversion_options
<1>2. \A d \in Device : Named(d)' = Named(d)
  BY DEF Named, device_id
<1>3. \A d \in Device : Named(d) \subseteq Hypervisor
  BY DEF Named
<1>4. QED
  BY <1>1, <1>2, <1>3 DEF Shows

(* A run ends well only once the last host has been given to the last       *)
(* server.                                                                  *)
LEMMA StepComplete ==
    ASSUME TypeOK, SubmitInv, CompletedIsComplete, [Next]_vars
    PROVE  CompletedIsComplete'
<1>1. identity' = identity
  BY SameIdentity
<1>2. CASE Finish
  <2>1. phase = "submit" /\ ~(at <= Len(hosts)) /\ UNCHANGED <<view, truth>> /\ at \in Nat
    BY <1>2 DEF Finish, TypeOK
  <2>2. SUFFICES ASSUME truth # None, NEW s \in Server
                 PROVE  Shows(s, truth)
    BY <1>1, <2>1, SameShows DEF CompletedIsComplete
  <2>3. AllOf(hosts, identity, truth) /\ \A k \in DOMAIN hosts : k < at => Delivered(s, k)
    BY <2>1, <2>2 DEF SubmitInv
  <2>4. \A k \in DOMAIN hosts : k < at
    BY <2>1, <2>3 DEF AllOf
  <2>5. QED
    BY <2>3, <2>4, AllDelivered
<1>3. CASE ~Finish
  <2>1. phase' = "idle" /\ exit' = "ok" =>
           phase = "idle" /\ exit = "ok" /\ UNCHANGED <<truth, view>>
    BY <1>3 DEF Next, vars, Move, Handshake, HandshakeFails, Login, LoginFails,
     LoginElsewhere, Retrieve, RetrieveBroken, RetrieveFails, Logout, LogoutFails, ParseFails,
     Parse, Dump, DumpFails, Replay, ReplayFails, Submit, Submitting, SubmitFails, Hang, Kill,
     End
  <2>2. QED
    BY <1>1, <2>1, SameShows DEF CompletedIsComplete
<1>4. QED
  BY <1>2, <1>3

(* Every step keeps the invariant.                                          *)
LEMMA StepInv == IInv /\ [Next]_vars => IInv'
  BY StepType, StepSession, StepAnswer, StepFile, StepSubmit, StepComplete DEF IInv
-----------------------------------------------------------------------------
(* The inductive invariant holds in every reachable state.                  *)
THEOREM Invariance == Spec => []IInv
<1>1. QED
  BY InitInv, StepInv, PTL DEF Spec

(* A run that ends well has given every server every host with its machines *)
(* as vSphere listed them, for any hosts, machines, servers and faults.     *)
THEOREM CompletedIsCompleteHolds == Spec => []CompletedIsComplete
<1>1. IInv => CompletedIsComplete
  BY DEF IInv
<1>2. QED
  BY <1>1, Invariance, PTL

(* Between runs the vCenter has open only sessions whose login or logout    *)
(* was not answered.                                                        *)
THEOREM SessionsClosedHolds == Spec => []SessionsClosed
<1>1. IInv => SessionsClosed
  BY DEF IInv, TypeOK, SessionInv, SessionsClosed
<1>2. QED
  BY <1>1, Invariance, PTL
-----------------------------------------------------------------------------
(***************************************************************************)
(* The session with a Windows host, for any host, any disabled categories  *)
(* and any number of failing requests.                                     *)
(***************************************************************************)

HIDE EsxAssumption
USE WinRmAssumption
Pieces(n) == [k \in 1..n |-> k]

\* What was received of a command is what the host has sent of it.
Received ==
    /\ session \in {"create", "receive", "signal"} => turn <= Len(Queries)
    /\ session = "receive" => Here \in DOMAIN commands /\ stdout = Pieces(commands[Here])
    /\ session = "signal" => stdout = Output(Here) /\ exit_code = host[Here].exit

\* An answer is what the host has to say, or one of its requests failed.
Honest(q) ==
    IF answers[q].ok THEN answers[q].stdout = Output(q) /\ host[q].exit # 1
    ELSE q \in hit \/ host[q].exit = 1

\* Every query before the present one was answered in some way.
AllAnswered ==
    /\ \A q \in DOMAIN answers : Honest(q)
    /\ \A k \in 1..(turn - 1) : Asked(Queries[k]) => Queries[k] \in DOMAIN answers
    /\ session = "done" => turn > Len(Queries)

SessionIInv == WinRmTypeOK /\ Received /\ AllAnswered /\ CommandsForgotten
-----------------------------------------------------------------------------
(* The queries, and what the host prints. *)

(* The query at each place of the program is one of the queries.             *)
LEMMA QueryFacts ==
    /\ Len(Queries) = 19
    /\ \A k \in 1..Len(Queries) : Queries[k] \in Query
    /\ Queries[1] = "hostname" /\ {"hostname", "bios", "software", "appx"} \subseteq Query
<1>1. Len(Queries) = 19
  BY DEF Queries
<1>2. \A k \in 1..Len(Queries) : Queries[k] \in Query
  BY DEF Query
<1>3. /\ Queries[1] = "hostname" /\ Queries[5] = "bios" /\ Queries[7] = "software"
      /\ Queries[8] = "appx"
  BY DEF Queries
<1>4. QED
  BY <1>1, <1>2, <1>3

(* What a command of the host prints and how it ends.                        *)
LEMMA HostFacts ==
    ASSUME WinRmTypeOK, NEW q \in Query
    PROVE  host[q].pieces \in Nat /\ host[q].exit \in {0, 1, NoCode}
<1>1. host \in [Query -> [pieces : Nat, exit : {0, 1, NoCode}]]
  BY DEF WinRmTypeOK
<1>2. QED
  BY <1>1

(* The pieces that were sent, and the next one.                              *)
LEMMA PiecesFacts ==
    ASSUME NEW n \in Nat
    PROVE  /\ Pieces(n) \in Seq(Nat) /\ Len(Pieces(n)) = n
           /\ Pieces(n) \o <<n + 1>> = Pieces(n + 1)
           /\ Pieces(n) \o <<>> = Pieces(n)
           /\ Pieces(0) = <<>> /\ (Pieces(n) = <<>> <=> n = 0)
<1>1. ASSUME NEW m \in Nat PROVE Pieces(m) \in Seq(Nat) /\ Len(Pieces(m)) = m
  BY IsASeq DEF Pieces
<1>2. n + 1 \in Nat /\ 0 \in Nat
  OBVIOUS
<1>3. /\ Pieces(n) \in Seq(Nat) /\ Len(Pieces(n)) = n
      /\ Pieces(n + 1) \in Seq(Nat) /\ Len(Pieces(n + 1)) = n + 1
      /\ Pieces(0) \in Seq(Nat) /\ Len(Pieces(0)) = 0
  BY <1>1, <1>2
<1>4. /\ \A i \in 1..n : Pieces(n)[i] = i
      /\ \A i \in 1..(n + 1) : Pieces(n + 1)[i] = i
  BY DEF Pieces
<1>5. Pieces(n) \o <<n + 1>> = Pieces(n + 1)
  <2> DEFINE f == Pieces(n)
             g == Pieces(n + 1)
             e == <<n + 1>>
  <2>1. e \in Seq(Nat) /\ Len(e) = 1 /\ e[1] = n + 1
    OBVIOUS
  <2>2. /\ f \in Seq(Nat) /\ Len(f) = n /\ \A i \in 1..n : f[i] = i
        /\ g \in Seq(Nat) /\ Len(g) = n + 1 /\ \A i \in 1..(n + 1) : g[i] = i
    BY <1>3, <1>4
  <2> HIDE DEF f, g, e
  <2>3. /\ f \o e \in Seq(Nat) /\ Len(f \o e) = Len(f) + Len(e)
        /\ \A i \in 1..(Len(f) + Len(e)) :
              (f \o e)[i] = IF i <= Len(f) THEN f[i] ELSE e[i - Len(f)]
    <3>1. f \in Seq(Nat) /\ e \in Seq(Nat)
      BY <2>1, <2>2
    <3>2. QED
      BY <3>1, ConcatProperties
  <2>4. ASSUME NEW i \in 1..(n + 1) PROVE (f \o e)[i] = g[i]
    <3>1. CASE i <= n
      BY <2>1, <2>2, <2>3, <3>1
    <3>2. CASE i = n + 1
      BY <2>1, <2>2, <2>3, <3>2
    <3>3. i <= n \/ i = n + 1
      OBVIOUS
    <3>4. QED
      BY <3>1, <3>2, <3>3
  <2>5. Len(f \o e) = n + 1
    BY <2>1, <2>2, <2>3
  <2>6. f \o e = g
    BY <2>2, <2>3, <2>4, <2>5, SeqEqual
  <2>7. QED
    BY <2>6 DEF f, g, e
<1>6. Pieces(n) \o <<>> = Pieces(n)
  BY <1>3, ConcatEmptySeq
<1>7. Pieces(0) = <<>> /\ (Pieces(n) = <<>> <=> n = 0)
  <2>1. Pieces(0) = <<>>
    BY <1>3, EmptySeq
  <2>2. Pieces(n) = <<>> => n = 0
    BY <1>3, EmptySeq
  <2>3. QED
    BY <2>1, <2>2
<1>8. QED
  BY <1>3, <1>5, <1>6, <1>7

(* The present query.                                                       *)
LEMMA HereFacts ==
    ASSUME WinRmTypeOK, turn <= Len(Queries)
    PROVE  turn \in Nat /\ turn \in 1..Len(Queries) /\ Here \in Query
<1>1. turn \in 1..(Len(Queries) + 1) /\ Len(Queries) \in Nat
  BY QueryFacts DEF WinRmTypeOK
<1>2. turn \in 1..Len(Queries)
  BY <1>1
<1>3. QED
  BY <1>1, <1>2, QueryFacts DEF Here
-----------------------------------------------------------------------------
(* Requests and answers. *)

(* A piece that is sent is the next one, and no more than the command prints.  *)
LEMMA SendsFacts ==
    ASSUME WinRmTypeOK, turn <= Len(Queries),
           Here \in DOMAIN commands, SendsOne
    PROVE  /\ DOMAIN commands' = DOMAIN commands
           /\ \A q \in DOMAIN commands : commands'[q] \in 0..host[q].pieces
           /\ commands'[Here] = commands[Here] + Len(NextPiece)
           /\ Pieces(commands[Here]) \o NextPiece = Pieces(commands'[Here])
<1> DEFINE c == commands[Here]
           p == host[Here].pieces
<1>1. Here \in Query /\ p \in Nat /\ c \in 0..p
  BY HereFacts, HostFacts DEF WinRmTypeOK
<1>2. /\ commands' = [q \in DOMAIN commands \cup {Here} |->
                          IF q = Here THEN c + Len(NextPiece) ELSE commands[q]]
      /\ NextPiece = IF c < p THEN <<c + 1>> ELSE <<>>
  BY DEF SendsOne, Keeps, NextPiece
<1>3. DOMAIN commands' = DOMAIN commands /\ commands'[Here] = c + Len(NextPiece)
  BY <1>2
<1> HIDE DEF c, p
<1>4. /\ c + Len(NextPiece) \in 0..p
      /\ Pieces(c) \o NextPiece = Pieces(c + Len(NextPiece))
  <2>1. CASE c < p
    <3>1. NextPiece = <<c + 1>> /\ Len(NextPiece) = 1 /\ c \in Nat /\ c + 1 \in 0..p
      BY <1>1, <1>2, <2>1
    <3>2. Pieces(c) \o <<c + 1>> = Pieces(c + 1)
      BY <3>1, PiecesFacts
    <3>3. QED
      BY <3>1, <3>2
  <2>2. CASE ~(c < p)
    <3>1. NextPiece = <<>> /\ Len(NextPiece) = 0 /\ c \in Nat /\ c + 0 = c
      BY <1>1, <1>2, <2>2
    <3>2. Pieces(c) \o <<>> = Pieces(c)
      BY <3>1, PiecesFacts
    <3>3. QED
      BY <1>1, <3>1, <3>2
  <2>3. QED
    BY <2>1, <2>2
<1>5. \A q \in DOMAIN commands : commands'[q] = IF q = Here THEN c + Len(NextPiece)
                                              ELSE commands[q]
  BY <1>2
<1>6. ASSUME NEW q \in DOMAIN commands PROVE commands'[q] \in 0..host[q].pieces
  <2>1. CASE q = Here
    BY <1>4, <1>5, <2>1 DEF p
  <2>2. CASE q # Here
    BY <1>5, <2>2 DEF WinRmTypeOK
  <2>3. QED
    BY <2>1, <2>2
<1>7. QED
  BY <1>3, <1>4, <1>6 DEF c

(* A query that is answered with what the host says, or after a failure of    *)
(* its own, is one more that was answered.                                   *)
LEMMA AnsweredInv ==
    ASSUME WinRmTypeOK, AllAnswered, turn <= Len(Queries),
           NEW a \in [ok : BOOLEAN, stdout : Seq(Nat)],
           Answer(a), host' = host, hit \subseteq hit',
           IF a.ok THEN a.stdout = Output(Here) /\ host[Here].exit # 1
           ELSE Here \in hit' \/ host[Here].exit = 1
    PROVE  /\ AllAnswered' /\ session' = "query" /\ turn' \in 1..(Len(Queries) + 1)
           /\ \A q \in DOMAIN answers' :
                 q \in Query /\ answers'[q] \in [ok : BOOLEAN, stdout : Seq(Nat)]
<1>1. /\ answers' = [q \in DOMAIN answers \cup {Here}
                     |-> IF q = Here THEN a ELSE answers[q]]
      /\ turn' = turn + 1 /\ session' = "query"
  BY DEF Answer
<1>2. turn \in Nat /\ turn \in 1..Len(Queries)
      /\ Here \in Query /\ Len(Queries) \in Nat
  BY HereFacts, QueryFacts
<1>3. /\ DOMAIN answers' = DOMAIN answers \cup {Here} /\ answers'[Here] = a
      /\ \A q \in DOMAIN answers \ {Here} : answers'[q] = answers[q]
  BY <1>1
<1>4. ASSUME NEW q \in DOMAIN answers'
      PROVE  q \in Query /\ answers'[q] \in [ok : BOOLEAN, stdout : Seq(Nat)]
  BY <1>2, <1>3 DEF WinRmTypeOK
<1>5. ASSUME NEW q \in DOMAIN answers' PROVE Honest(q)'
  <2>1. CASE q = Here
    BY <1>3, <2>1 DEF Honest, Output
  <2>2. CASE q # Here
    <3>1. q \in DOMAIN answers /\ answers'[q] = answers[q]
      BY <1>3, <2>2
    <3>2. Honest(q)
      BY <3>1 DEF AllAnswered
    <3>3. QED
      BY <3>1, <3>2 DEF Honest, Output
  <2>3. QED
    BY <2>1, <2>2
<1>6. ASSUME NEW k \in 1..(turn' - 1), Asked(Queries[k])
      PROVE Queries[k] \in DOMAIN answers'
  <2>1. k = turn \/ k \in 1..(turn - 1)
    BY <1>1, <1>2
  <2>2. CASE k = turn
    BY <1>3, <2>2 DEF Here
  <2>3. CASE k \in 1..(turn - 1)
    BY <1>3, <1>6, <2>3 DEF AllAnswered
  <2>4. QED
    BY <2>1, <2>2, <2>3
<1>7. AllAnswered'
  BY <1>1, <1>5, <1>6 DEF AllAnswered
<1>8. turn' \in 1..(Len(Queries) + 1)
  BY <1>1, <1>2
<1>9. QED
  BY <1>1, <1>4, <1>7, <1>8

(* Where no query is answered, what was answered stays true.                  *)
LEMMA NoAnswerInv ==
    ASSUME WinRmTypeOK, AllAnswered, host' = host, hit \subseteq hit',
           answers' = answers, turn' = turn, session' = "done" => turn > Len(Queries)
    PROVE  AllAnswered'
<1>1. \A q \in DOMAIN answers' : Honest(q)'
  BY DEF AllAnswered, Honest, Output
<1>2. \A k \in 1..(turn' - 1) : Asked(Queries[k]) => Queries[k] \in DOMAIN answers'
  BY DEF AllAnswered
<1>3. QED
  BY <1>1, <1>2 DEF AllAnswered

(* A request that fails is counted to the query it belongs to.                *)
LEMMA FailsFacts ==
    ASSUME WinRmTypeOK, turn <= Len(Queries), Fails
    PROVE  /\ failed' \in 0..MaxFailed /\ hit' \subseteq Query
           /\ hit \subseteq hit' /\ Here \in hit'
<1>1. Here \in Query
  BY HereFacts
<1>2. hit' = hit \cup {Here}
  BY DEF Fails
<1>3. failed' \in 0..MaxFailed
  <2>1. failed \in 0..MaxFailed /\ MaxFailed \in Nat
    BY DEF WinRmTypeOK
  <2>2. failed' = failed \/ (failed < MaxFailed /\ failed' = failed + 1)
    BY DEF Fails
  <2>3. QED
    BY <2>1, <2>2
<1>4. QED
  BY <1>1, <1>2, <1>3 DEF WinRmTypeOK
-----------------------------------------------------------------------------
(* The steps. *)

(* The shell is made, or not; the password is changed.                       *)
LEMMA StepShell ==
    ASSUME SessionIInv, Create \/ CreateFails \/ Deny
    PROVE  SessionIInv'
<1>1. /\ WinRmTypeOK /\ Received /\ AllAnswered /\ CommandsForgotten
  BY DEF SessionIInv
<1>2. /\ UNCHANGED <<host, commands, turn, stdout, exit_code, answers>>
      /\ session' = session \/ (session = "create" /\ session' \in {"query", "failed"})
  BY DEF Create, CreateFails, Deny, remote
<1>3. /\ failed' \in 0..MaxFailed /\ hit' \subseteq Query /\ hit \subseteq hit'
  <2>1. CASE Create
    BY <1>1, <2>1 DEF Create, Succeeds, WinRmTypeOK
  <2>2. CASE CreateFails
    <3>1. turn <= Len(Queries)
      BY <1>1, <2>2 DEF CreateFails, Received
    <3>2. QED
      BY <1>1, <2>2, <3>1, FailsFacts DEF CreateFails
  <2>3. CASE Deny
    <3>1. failed < MaxFailed /\ failed' = failed + 1 /\ hit' = hit
      BY <2>3 DEF Deny
    <3>2. failed \in 0..MaxFailed /\ MaxFailed \in Nat /\ hit \subseteq Query
      BY <1>1 DEF WinRmTypeOK
    <3>3. failed' \in 0..MaxFailed
      BY <3>1, <3>2
    <3>4. QED
      BY <3>1, <3>2, <3>3
  <2>4. QED
    BY <2>1, <2>2, <2>3
<1>4. shell' \in BOOLEAN /\ denied' \in BOOLEAN
  BY <1>1 DEF Create, CreateFails, Deny, Perhaps, WinRmTypeOK, remote
<1>5. WinRmTypeOK'
  BY <1>1, <1>2, <1>3, <1>4 DEF WinRmTypeOK
<1>6. Received'
  BY <1>1, <1>2 DEF Received, Here, Output
<1>7. AllAnswered'
  <2>1. session' = "done" => turn > Len(Queries)
    BY <1>1, <1>2 DEF AllAnswered
  <2>2. QED
    BY <1>1, <1>2, <1>3, <2>1, NoAnswerInv
<1>8. CommandsForgotten'
  BY <1>1, <1>2, <1>3 DEF CommandsForgotten, Here
<1>9. QED
  BY <1>5, <1>6, <1>7, <1>8 DEF SessionIInv

(* A query of a disabled category is not asked.                              *)
LEMMA StepSkip ==
    ASSUME SessionIInv, Skip
    PROVE  SessionIInv'
<1>1. /\ WinRmTypeOK /\ Received /\ AllAnswered /\ CommandsForgotten
  BY DEF SessionIInv
<1>2. /\ session = "query" /\ turn <= Len(Queries) /\ ~Asked(Here) /\ turn' = turn + 1
      /\ UNCHANGED <<host, shell, commands, denied, session, stdout, exit_code, answers>>
      /\ UNCHANGED <<failed, hit>>
  BY DEF Skip, remote
<1>3. turn \in Nat /\ turn \in 1..Len(Queries) /\ Len(Queries) \in Nat
  BY <1>1, <1>2, HereFacts, QueryFacts
<1>4. turn' \in 1..(Len(Queries) + 1)
  <2>1. turn' = turn + 1
    BY <1>2
  <2>2. QED
    BY <1>3, <2>1
<1>5. WinRmTypeOK'
  BY <1>1, <1>2, <1>4 DEF WinRmTypeOK
<1>6. Received'
  BY <1>2 DEF Received
<1>7. AllAnswered'
  <2>1. \A q \in DOMAIN answers' : Honest(q)'
    BY <1>1, <1>2 DEF AllAnswered, Honest, Output
  <2>2. ASSUME NEW k \in 1..(turn' - 1), Asked(Queries[k])
        PROVE  Queries[k] \in DOMAIN answers'
    <3>1. k = turn \/ k \in 1..(turn - 1)
      <4>1. turn' = turn + 1
        BY <1>2
      <4>2. QED
        BY <1>3, <4>1
    <3>2. k # turn
      BY <1>2, <2>2 DEF Here
    <3>3. Queries[k] \in DOMAIN answers
      BY <1>1, <2>2, <3>1, <3>2 DEF AllAnswered
    <3>4. QED
      BY <1>2, <3>3
  <2>3. QED
    BY <1>2, <2>1, <2>2 DEF AllAnswered
<1>8. CommandsForgotten'
  BY <1>1, <1>2 DEF CommandsForgotten
<1>9. QED
  BY <1>5, <1>6, <1>7, <1>8 DEF SessionIInv

(* The host keeps one command more, which nothing was received of yet.        *)
LEMMA StepCommand ==
    ASSUME SessionIInv, Command
    PROVE  SessionIInv'
<1>1. /\ WinRmTypeOK /\ Received /\ AllAnswered /\ CommandsForgotten
  BY DEF SessionIInv
<1>2. /\ session = "query" /\ turn <= Len(Queries) /\ Keeps(0)
      /\ session' = "receive" /\ stdout' = <<>> /\ exit_code' = NoCode
      /\ UNCHANGED <<host, shell, denied, turn, answers>> /\ UNCHANGED <<failed, hit>>
  BY DEF Command, Asking, Succeeds
<1>3. Here \in Query /\ host[Here].pieces \in Nat
  BY <1>1, <1>2, HereFacts, HostFacts
<1>4. /\ DOMAIN commands' = DOMAIN commands \cup {Here} /\ commands'[Here] = 0
      /\ \A q \in DOMAIN commands \ {Here} : commands'[q] = commands[q]
  BY <1>2 DEF Keeps
<1>5. ASSUME NEW q \in DOMAIN commands'
      PROVE q \in Query /\ commands'[q] \in 0..host[q].pieces
  <2>1. CASE q = Here
    BY <1>3, <1>4, <2>1
  <2>2. CASE q # Here
    BY <1>1, <1>4, <2>2 DEF WinRmTypeOK
  <2>3. QED
    BY <2>1, <2>2
<1>6. WinRmTypeOK'
  <2>1. <<>> \in Seq(Nat)
    BY EmptySeq
  <2>2. QED
    BY <1>1, <1>2, <1>5, <2>1 DEF WinRmTypeOK
<1>7. Received'
  <2>1. Pieces(0) = <<>>
    BY PiecesFacts
  <2>2. QED
    BY <1>2, <1>4, <2>1 DEF Received, Here
<1>8. AllAnswered'
  <2>1. session' # "done" /\ hit' = hit /\ host' = host /\ answers' = answers /\ turn' = turn
    BY <1>2
  <2>2. QED
    BY <1>1, <2>1, NoAnswerInv
<1>9. CommandsForgotten'
  <2>1. Here' = Here /\ hit' = hit
    BY <1>2 DEF Here
  <2>2. \A q \in DOMAIN commands : q \in hit
    BY <1>1, <1>2 DEF CommandsForgotten
  <2>3. QED
    BY <1>2, <1>4, <2>1, <2>2 DEF CommandsForgotten
<1>10. QED
  BY <1>6, <1>7, <1>8, <1>9 DEF SessionIInv

(* Another piece, or the end of the command: what was received is what the    *)
(* host has sent, and when it is done, all that the command prints.           *)
LEMMA StepReceive ==
    ASSUME SessionIInv, Receive, Takes
    PROVE  SessionIInv'
<1>1. /\ WinRmTypeOK /\ Received /\ AllAnswered /\ CommandsForgotten
  BY DEF SessionIInv
<1>2. /\ session = "receive" /\ SendsOne /\ stdout' = stdout \o NextPiece
      /\ UNCHANGED <<host, shell, denied, turn, answers>> /\ UNCHANGED <<failed, hit>>
      /\ \/ UNCHANGED <<session, exit_code>>
         \/ /\ commands[Here] + 1 >= host[Here].pieces
            /\ session' = "signal" /\ exit_code' = host[Here].exit
  BY DEF Receive, Takes, Succeeds
<1>3. /\ turn <= Len(Queries) /\ Here \in DOMAIN commands
      /\ stdout = Pieces(commands[Here]) /\ Here' = Here
  BY <1>1, <1>2 DEF Received, Here
<1>4. Here \in Query /\ host[Here].pieces \in Nat
      /\ host[Here].exit \in {0, 1, NoCode}
  BY <1>1, <1>3, HereFacts, HostFacts
<1>5. /\ DOMAIN commands' = DOMAIN commands
      /\ \A q \in DOMAIN commands : commands'[q] \in 0..host[q].pieces
      /\ commands'[Here] = commands[Here] + Len(NextPiece)
      /\ stdout' = Pieces(commands'[Here])
  BY <1>1, <1>2, <1>3, SendsFacts
<1>6. stdout' \in Seq(Nat)
  <2>1. commands'[Here] \in Nat
    BY <1>3, <1>4, <1>5
  <2>2. QED
    BY <1>5, <2>1, PiecesFacts
<1>7. WinRmTypeOK'
  <2>1. exit_code' \in {0, 1, NoCode} /\ session' \in {"receive", "signal"}
    BY <1>1, <1>2, <1>4 DEF WinRmTypeOK
  <2>2. \A q \in DOMAIN commands' : q \in Query /\ commands'[q] \in 0..host'[q].pieces
    BY <1>1, <1>2, <1>5 DEF WinRmTypeOK
  <2>3. QED
    BY <1>1, <1>2, <1>6, <2>1, <2>2 DEF WinRmTypeOK
<1>8. session' = "signal" => stdout' = Output(Here)
  <2> DEFINE c == commands[Here]
             p == host[Here].pieces
  <2>1. ASSUME session' = "signal" PROVE commands'[Here] = p
    <3>1. c \in 0..p /\ c + 1 >= p /\ p \in Nat
      BY <1>1, <1>2, <1>3, <1>4, <2>1 DEF WinRmTypeOK
    <3>2. NextPiece = IF c < p THEN <<c + 1>> ELSE <<>>
      BY DEF NextPiece
    <3>3. commands'[Here] = c + Len(NextPiece)
      BY <1>5
    <3> HIDE DEF c, p
    <3>4. CASE c < p
      <4>1. Len(NextPiece) = 1
        BY <3>2, <3>4
      <4>2. QED
        BY <3>1, <3>3, <3>4, <4>1
    <3>5. CASE ~(c < p)
      <4>1. Len(NextPiece) = 0
        BY <3>2, <3>5
      <4>2. QED
        BY <3>1, <3>3, <3>5, <4>1
    <3>6. QED
      BY <3>4, <3>5
  <2>2. QED
    BY <1>5, <2>1 DEF Output, Pieces
<1>9. Received'
  BY <1>2, <1>3, <1>5, <1>8 DEF Received, Output
<1>10. AllAnswered'
  <2>1. session' # "done" /\ hit' = hit /\ host' = host /\ answers' = answers /\ turn' = turn
    BY <1>2
  <2>2. QED
    BY <1>1, <2>1, NoAnswerInv
<1>11. CommandsForgotten'
  BY <1>1, <1>2, <1>3, <1>5 DEF CommandsForgotten
<1>12. QED
  BY <1>7, <1>9, <1>10, <1>11 DEF SessionIInv

(* A step that answers the query: the answer is true, and a command that is    *)
(* still on the host is one whose request failed.                            *)
LEMMA StepAnswered ==
    ASSUME SessionIInv, turn <= Len(Queries),
           NEW a \in [ok : BOOLEAN, stdout : Seq(Nat)], Answer(a),
           UNCHANGED <<host, shell, denied, stdout, exit_code>>,
           failed' \in 0..MaxFailed, hit' \subseteq Query, hit \subseteq hit',
           \A q \in DOMAIN commands' : q \in Query /\ commands'[q] \in 0..host[q].pieces,
           \A q \in DOMAIN commands' : q \in hit',
           IF a.ok THEN a.stdout = Output(Here) /\ host[Here].exit # 1
           ELSE Here \in hit' \/ host[Here].exit = 1
    PROVE  SessionIInv'
<1>1. WinRmTypeOK /\ AllAnswered
  BY DEF SessionIInv
<1>2. /\ AllAnswered' /\ session' = "query" /\ turn' \in 1..(Len(Queries) + 1)
      /\ \A q \in DOMAIN answers' :
            q \in Query /\ answers'[q] \in [ok : BOOLEAN, stdout : Seq(Nat)]
  <2>1. host' = host
    OBVIOUS
  <2>2. QED
    BY <1>1, <2>1, AnsweredInv
<1>3. WinRmTypeOK'
  BY <1>1, <1>2 DEF WinRmTypeOK
<1>4. Received' /\ CommandsForgotten'
  BY <1>2 DEF Received, CommandsForgotten
<1>5. QED
  BY <1>2, <1>3, <1>4 DEF SessionIInv

(* What the host keeps after a command that was started, read or forgotten, or *)
(* not: what it kept, and perhaps the command of the present query.            *)
LEMMA CommandsFacts ==
    ASSUME SessionIInv, turn <= Len(Queries),
           \/ commands' = commands
           \/ Keeps(0)
           \/ Here \in DOMAIN commands /\ SendsOne
           \/ Forgets
    PROVE  /\ \A q \in DOMAIN commands' : q \in Query /\ commands'[q] \in 0..host[q].pieces
           /\ \A q \in DOMAIN commands' : q \in hit \cup {Here}
<1>1. WinRmTypeOK /\ CommandsForgotten
  BY DEF SessionIInv
<1>2. Here \in Query /\ host[Here].pieces \in Nat
  BY <1>1, HereFacts, HostFacts
<1>3. \A q \in DOMAIN commands : q \in hit \cup {Here}
  BY <1>1 DEF CommandsForgotten
<1>4. CASE commands' = commands
  BY <1>1, <1>3, <1>4 DEF WinRmTypeOK
<1>5. CASE Keeps(0)
  <2>1. /\ DOMAIN commands' = DOMAIN commands \cup {Here}
        /\ \A q \in DOMAIN commands' : commands'[q] = IF q = Here THEN 0 ELSE commands[q]
    BY <1>5 DEF Keeps
  <2>2. ASSUME NEW q \in DOMAIN commands'
        PROVE  q \in Query /\ commands'[q] \in 0..host[q].pieces
    <3>1. CASE q = Here
      BY <1>2, <2>1, <3>1
    <3>2. CASE q # Here
      BY <1>1, <2>1, <3>2 DEF WinRmTypeOK
    <3>3. QED
      BY <3>1, <3>2
  <2>3. QED
    BY <1>3, <2>1, <2>2
<1>6. CASE Here \in DOMAIN commands /\ SendsOne
  <2>1. /\ DOMAIN commands' = DOMAIN commands
        /\ \A q \in DOMAIN commands : commands'[q] \in 0..host[q].pieces
    BY <1>1, <1>6, SendsFacts
  <2>2. QED
    BY <1>1, <1>3, <2>1 DEF WinRmTypeOK
<1>7. CASE Forgets
  <2>1. /\ DOMAIN commands' = DOMAIN commands \ {Here}
        /\ \A q \in DOMAIN commands' : commands'[q] = commands[q]
    BY <1>7 DEF Forgets
  <2>2. QED
    BY <1>1, <1>3, <2>1 DEF WinRmTypeOK
<1>8. QED
  BY <1>4, <1>5, <1>6, <1>7

(* A request of the query fails before the command is over: no answer.        *)
LEMMA StepFails ==
    ASSUME SessionIInv, CommandFails \/ ReceiveFails
    PROVE  SessionIInv'
<1>1. WinRmTypeOK /\ Received
  BY DEF SessionIInv
<1>2. /\ turn <= Len(Queries) /\ Fails /\ Answer(NoAnswer)
      /\ UNCHANGED <<host, shell, denied, stdout, exit_code>>
      /\ \/ commands' = commands
         \/ Keeps(0)
         \/ Here \in DOMAIN commands /\ SendsOne
  BY <1>1 DEF CommandFails, Asking, ReceiveFails, Perhaps, Received
<1>3. /\ failed' \in 0..MaxFailed /\ hit' \subseteq Query
      /\ hit \subseteq hit' /\ Here \in hit'
  BY <1>1, <1>2, FailsFacts
<1>4. /\ \A q \in DOMAIN commands' : q \in Query /\ commands'[q] \in 0..host[q].pieces
      /\ \A q \in DOMAIN commands' : q \in hit \cup {Here}
  BY <1>2, CommandsFacts
<1>5. NoAnswer \in [ok : BOOLEAN, stdout : Seq(Nat)] /\ ~NoAnswer.ok
  <2>1. <<>> \in Seq(Nat)
    BY EmptySeq
  <2>2. QED
    BY <2>1 DEF NoAnswer
<1>6. \A q \in DOMAIN commands' : q \in hit'
  BY <1>3, <1>4
<1>7. QED
  BY <1>2, <1>3, <1>4, <1>5, <1>6, StepAnswered

(* The command is over, and all its output was received: it is answered as it  *)
(* ended, and forgotten by the host unless the signal fails.                   *)
LEMMA StepSignal ==
    ASSUME SessionIInv, Signal \/ SignalFails
    PROVE  SessionIInv'
<1> DEFINE a == IF exit_code \in {0, NoCode} THEN [ok |-> TRUE, stdout |-> stdout]
                ELSE NoAnswer
<1>1. WinRmTypeOK /\ Received /\ CommandsForgotten
  BY DEF SessionIInv
<1>2. /\ session = "signal" /\ Answer(a)
      /\ UNCHANGED <<host, shell, denied, stdout, exit_code>>
      /\ \/ Succeeds /\ Forgets
         \/ Fails /\ (commands' = commands \/ Forgets)
  BY DEF Signal, SignalFails, Concluded, Perhaps
<1>3. turn <= Len(Queries) /\ stdout = Output(Here) /\ exit_code = host[Here].exit
  BY <1>1, <1>2 DEF Received
<1>4. /\ failed' \in 0..MaxFailed /\ hit' \subseteq Query /\ hit \subseteq hit'
      /\ Forgets \/ Here \in hit'
  <2>1. CASE Succeeds /\ Forgets
    BY <1>1, <2>1 DEF Succeeds, WinRmTypeOK
  <2>2. CASE Fails
    BY <1>1, <1>3, <2>2, FailsFacts
  <2>3. QED
    BY <1>2, <2>1, <2>2
<1>5. /\ \A q \in DOMAIN commands' : q \in Query /\ commands'[q] \in 0..host[q].pieces
      /\ \A q \in DOMAIN commands' : q \in hit \cup {Here}
  BY <1>2, <1>3, CommandsFacts
<1>6. \A q \in DOMAIN commands' : q \in hit'
  <2>1. Forgets => \A q \in DOMAIN commands' : q # Here
    BY DEF Forgets
  <2>2. QED
    BY <1>4, <1>5, <2>1
<1>7. a \in [ok : BOOLEAN, stdout : Seq(Nat)]
  <2>1. <<>> \in Seq(Nat) /\ stdout \in Seq(Nat)
    BY <1>1, EmptySeq DEF WinRmTypeOK
  <2>2. QED
    BY <2>1 DEF NoAnswer
<1>8. IF a.ok THEN a.stdout = Output(Here) /\ host[Here].exit # 1
      ELSE Here \in hit' \/ host[Here].exit = 1
  <2>1. exit_code \in {0, 1, NoCode} /\ NoCode # 1 /\ 0 # 1
    BY <1>1 DEF WinRmTypeOK, NoCode
  <2>2. CASE exit_code \in {0, NoCode}
    <3>1. a.ok /\ a.stdout = stdout
      BY <2>2
    <3>2. exit_code # 1
      BY <2>1, <2>2
    <3>3. QED
      BY <1>3, <3>1, <3>2
  <2>3. CASE exit_code \notin {0, NoCode}
    <3>1. ~a.ok
      BY <2>3 DEF NoAnswer
    <3>2. exit_code = 1
      BY <2>1, <2>3
    <3>3. QED
      BY <1>3, <3>1, <3>2
  <2>4. QED
    BY <2>2, <2>3
<1> HIDE DEF a
<1>9. QED
  BY <1>2, <1>3, <1>4, <1>5, <1>6, <1>7, <1>8, StepAnswered

(* A request that is never answered: the query it belongs to is hit.           *)
LEMMA StepHang ==
    ASSUME SessionIInv, NeverAnswered
    PROVE  SessionIInv'
<1>1. /\ WinRmTypeOK /\ Received /\ AllAnswered /\ CommandsForgotten
  BY DEF SessionIInv
<1>2. /\ turn <= Len(Queries) /\ Fails /\ session' = "hung"
      /\ UNCHANGED <<host, shell, commands, denied, turn, stdout, exit_code, answers>>
  BY <1>1 DEF NeverAnswered, Asking, Received, remote
<1>3. /\ failed' \in 0..MaxFailed /\ hit' \subseteq Query
      /\ hit \subseteq hit' /\ Here \in hit'
  BY <1>1, <1>2, FailsFacts
<1>4. WinRmTypeOK'
  BY <1>1, <1>2, <1>3 DEF WinRmTypeOK
<1>5. Received'
  BY <1>2 DEF Received
<1>6. AllAnswered'
  <2>1. session' # "done" /\ host' = host /\ answers' = answers /\ turn' = turn
    BY <1>2
  <2>2. QED
    BY <1>1, <1>3, <2>1, NoAnswerInv
<1>7. CommandsForgotten'
  BY <1>1, <1>2, <1>3 DEF CommandsForgotten
<1>8. QED
  BY <1>4, <1>5, <1>6, <1>7 DEF SessionIInv

(* The inventory ends, or nothing changes.                                   *)
LEMMA StepEnd ==
    ASSUME SessionIInv, Collected \/ Terminated \/ UNCHANGED winrm_vars
    PROVE  SessionIInv'
<1>1. /\ WinRmTypeOK /\ Received /\ AllAnswered /\ CommandsForgotten
  BY DEF SessionIInv
<1>2. /\ UNCHANGED <<host, shell, commands, denied, turn, stdout, exit_code, answers>>
      /\ UNCHANGED <<failed, hit>>
      /\ session' = session
         \/ (session = "query" /\ session' = "done" /\ turn > Len(Queries))
  BY DEF Collected, Terminated, winrm_vars, remote
<1>3. WinRmTypeOK'
  BY <1>1, <1>2 DEF WinRmTypeOK
<1>4. Received'
  BY <1>1, <1>2 DEF Received, Here, Output
<1>5. AllAnswered'
  <2>1. /\ session' = "done" => turn > Len(Queries)
        /\ hit' = hit /\ host' = host /\ answers' = answers /\ turn' = turn
    BY <1>1, <1>2 DEF AllAnswered
  <2>2. QED
    BY <1>1, <2>1, NoAnswerInv
<1>6. CommandsForgotten'
  BY <1>1, <1>2 DEF CommandsForgotten, Here
<1>7. QED
  BY <1>3, <1>4, <1>5, <1>6 DEF SessionIInv
-----------------------------------------------------------------------------
(* The invariant starts true and every step keeps it.                        *)

(* Nothing was asked yet.                                                    *)
LEMMA SessionInit == WinRmInit => SessionIInv
<1> SUFFICES ASSUME WinRmInit PROVE SessionIInv
  OBVIOUS
<1>1. /\ host \in Hosts /\ shell = FALSE /\ DOMAIN commands = {} /\ denied = FALSE
      /\ session = "create" /\ turn = 1 /\ stdout = <<>> /\ exit_code = NoCode
      /\ DOMAIN answers = {} /\ failed = 0 /\ hit = {}
  BY DEF WinRmInit
<1>2. <<>> \in Seq(Nat) /\ 1 \in 1..(Len(Queries) + 1) /\ 1 <= Len(Queries)
  BY QueryFacts, EmptySeq
<1>3. 0 \in 0..MaxFailed
  OBVIOUS
<1>4. WinRmTypeOK
  BY <1>1, <1>2, <1>3 DEF WinRmTypeOK
<1>5. Received
  BY <1>1, <1>2 DEF Received
<1>6. AllAnswered
  <2>1. \A k \in 1..(turn - 1) : FALSE
    BY <1>1
  <2>2. QED
    BY <1>1, <2>1 DEF AllAnswered
<1>7. CommandsForgotten
  BY <1>1 DEF CommandsForgotten
<1>8. QED
  BY <1>4, <1>5, <1>6, <1>7 DEF SessionIInv

(* Every request, however it ends, keeps it.                                 *)
LEMMA SessionStep == SessionIInv /\ [WinRmNext]_winrm_vars => SessionIInv'
<1> SUFFICES ASSUME SessionIInv, [WinRmNext]_winrm_vars PROVE SessionIInv'
  OBVIOUS
<1>1. CASE Create \/ CreateFails \/ Deny
  BY <1>1, StepShell
<1>2. CASE Skip
  BY <1>2, StepSkip
<1>3. CASE Command
  BY <1>3, StepCommand
<1>4. CASE CommandFails \/ ReceiveFails
  BY <1>4, StepFails
<1>5. CASE Receive
  <2>1. Takes \/ UNCHANGED winrm_vars
    BY <1>5 DEF Receive, Waits, Succeeds, winrm_vars, remote
  <2>2. QED
    BY <1>5, <2>1, StepReceive, StepEnd
<1>6. CASE Signal \/ SignalFails
  BY <1>6, StepSignal
<1>7. CASE NeverAnswered
  BY <1>7, StepHang
<1>8. CASE Collected \/ Terminated \/ UNCHANGED winrm_vars
  BY <1>8, StepEnd
<1>9. QED
  BY <1>1, <1>2, <1>3, <1>4, <1>5, <1>6, <1>7, <1>8 DEF WinRmNext

(* The invariant of every behaviour.                                         *)
THEOREM SessionInvariance == WinRmSpec => []SessionIInv
<1>1. QED
  BY SessionInit, SessionStep, PTL DEF WinRmSpec

(* Every variable keeps its type: the host never hands out more of a command's *)
(* output than there is.                                                     *)
THEOREM SessionTypeCorrect == WinRmSpec => []WinRmTypeOK
<1>1. SessionIInv => WinRmTypeOK
  BY DEF SessionIInv
<1>2. QED
  BY <1>1, SessionInvariance, PTL

(* A command stays on the host only if one of its own requests failed, or      *)
(* while it runs.                                                            *)
THEOREM NoCommandLeft == WinRmSpec => []CommandsForgotten
<1>1. SessionIInv => CommandsForgotten
  BY DEF SessionIInv
<1>2. QED
  BY <1>1, SessionInvariance, PTL

(* A finished inventory has every section whole or not at all, whatever the    *)
(* host, the categories and the requests that failed.                         *)
THEOREM WholeOrMissing == WinRmSpec => []SectionsWhole
<1>1. ASSUME SessionIInv, session = "done"
      PROVE  /\ \A q \in DOMAIN answers : answers[q].ok => answers[q].stdout = Output(q)
             /\ \A s \in DOMAIN collect_windows : \A q \in Sources(s) :
                   /\ q \in collect_windows[s] => Says(q)
                   /\ Says(q) => q \in collect_windows[s] \/ q \in hit
             /\ resolve = "the host of the URL" =>
                   "hostname" \in hit \/ host["hostname"].exit = 1
  <2>1. WinRmTypeOK /\ \A q \in DOMAIN answers : Honest(q)
    BY <1>1 DEF SessionIInv, AllAnswered
  <2>2. ASSUME NEW q \in Query, Asked(q) PROVE q \in DOMAIN answers
    <3>1. PICK k \in 1..Len(Queries) : q = Queries[k]
      BY DEF Query
    <3>2. turn > Len(Queries) /\ turn \in 1..(Len(Queries) + 1) /\ Len(Queries) \in Nat
      BY <1>1, QueryFacts DEF SessionIInv, AllAnswered, WinRmTypeOK
    <3>3. k \in 1..(turn - 1)
      BY <3>2
    <3>4. QED
      BY <1>1, <2>2, <3>1, <3>3 DEF SessionIInv, AllAnswered
  <2>3. ASSUME NEW q \in DOMAIN answers
        PROVE  (Given(q) => Says(q)) /\ (Says(q) => Given(q) \/ q \in hit)
    <3>1. q \in Query /\ host[q].pieces \in Nat /\ Honest(q)
      BY <2>1, HostFacts DEF WinRmTypeOK
    <3>2. Output(q) = <<>> <=> host[q].pieces = 0
      BY <3>1, PiecesFacts DEF Output, Pieces
    <3>3. QED
      BY <3>1, <3>2 DEF Given, Says, Honest
  <2>4. ASSUME NEW s \in DOMAIN collect_windows, NEW q \in Sources(s)
        PROVE  /\ q \in collect_windows[s] => Says(q)
               /\ Says(q) => q \in collect_windows[s] \/ q \in hit
    <3>1. /\ s \in ((Query \ {"hostname", "appx"}) \cup {"hardware"}) \ Disabled
          /\ q \in collect_windows[s] <=> Given(q)
      BY <2>4 DEF collect_windows
    <3>2. q \in Query /\ Asked(q)
      <4>1. CASE s = "software"
        BY <2>4, <3>1, <4>1, QueryFacts DEF Sources, Asked
      <4>2. CASE s \in {"bios", "hardware"}
        BY <2>4, <3>1, <4>2, QueryFacts DEF Sources, Asked
      <4>3. CASE s \notin {"software", "bios", "hardware"}
        BY <2>4, <3>1, <4>3 DEF Sources, Asked
      <4>4. QED
        BY <4>1, <4>2, <4>3
    <3>3. QED
      BY <2>2, <2>3, <3>1, <3>2
  <2>5. resolve = "the host of the URL" => "hostname" \in hit \/ host["hostname"].exit = 1
    <3>1. "hostname" \in DOMAIN answers
      BY <2>2, QueryFacts DEF Asked
    <3>2. resolve = "the host of the URL" => ~answers["hostname"].ok
      BY DEF resolve
    <3>3. QED
      BY <2>1, <3>1, <3>2 DEF Honest
  <2>6. QED
    BY <2>1, <2>4, <2>5 DEF Honest
<1>2. SessionIInv => SectionsWhole
  BY <1>1 DEF SectionsWhole
<1>3. QED
  BY <1>2, SessionInvariance, PTL
=============================================================================

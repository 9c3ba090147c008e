--------------------------- MODULE MCNetDiscovery ---------------------------
(* Addresses of two bits, the last of them one octet: a block that holds a  *)
(* range of its own, the whole address space, and specifications that are   *)
(* refused.                                                                 *)
EXTENDS NetDiscovery, TLC

MCArguments ==
    {<<Cidr(3, 1), Bounds(2, 2)>>,      \* overlapping
     <<Cidr(2, 0)>>,                    \* every address there is
     <<LastOctet(2, 1), Cidr(1, 2)>>,
     <<LastOctet(1, 0)>>, <<Cidr(1, 3)>>, <<Bounds(3, 3), Bounds(2, 1)>>, <<>>}

MCCredentials == <<[version |-> "1", set |-> {}], v2c, v2c>>

MCNetworks ==
    {(2 :> [probes |-> {"tcp"}, snmp |-> {2}]) @@
     (3 :> [probes |-> {"icmp", "tcp", "netbios"}, snmp |-> {1, 2, 3}]),
     (1 :> [probes |-> {"netbios", "arp"}, snmp |-> {}]) @@
     (2 :> [probes |-> {"icmp", "arp"}, snmp |-> {1, 3}])}
=============================================================================

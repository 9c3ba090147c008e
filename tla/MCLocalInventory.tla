-------------------------- MODULE MCLocalInventory --------------------------
(* One machine with the things that are read in an unusual way, and what    *)
(* may change of it while it is read.                                       *)
EXTENDS LocalInventory

Cpu == [name |-> "epyc", cores |-> 1, threads |-> 2]
Dimm(caption, capacity, serial) == [caption |-> caption, capacity |-> capacity, serial |-> serial]
Nic(name, peer, mac, ips, up, speed) ==
    [name |-> name, peer |-> peer, mac |-> mac, ips |-> ips, up |-> up, media |-> TRUE,
     speed |-> speed]
Loopback == [Nic("lo", None, None, <<"127.0.0.1">>, TRUE, None) EXCEPT !.media = FALSE]
Disk(name, type, model, serial, firmware, nvme) ==
    [name |-> name, type |-> type, model |-> model, serial |-> serial,
     firmware |-> firmware, nvme |-> nvme, title |-> "Media", bsd |-> TRUE]
Supply(name, type, serial, energy) ==
    [name |-> name, type |-> type, serial |-> serial, energy |-> energy, old |-> TRUE]
Queue(name, status, uri, serial) ==
    [name |-> name, status |-> status, uri |-> uri, serial |-> serial]
Card(slot, type, name) == [slot |-> slot, type |-> type, name |-> name, vendor |-> "acme"]

Board1 == [vendor |-> "acme", serial |-> "s1", board |-> None, asset |-> None, uuid |-> "u1"]
Rom == Disk("sr0", "rom", "dvd", "r0", "f0", FALSE)

MCMachine ==
    [os |-> [name |-> "os1", kernel |-> "6.1", zone |-> "Europe", link |-> TRUE],
     host |-> "pc", board |-> Board1, virt |-> "none",
     cpu |-> <<Cpu, Cpu>>,
     memory |-> [dimms |-> {Dimm("A1", 8, "d1"), Dimm("A2", None, None)}, total |-> 8],
     software |-> [kind |-> "deb",
                   packages |-> {[name |-> "p", version |-> "1", store |-> FALSE],
                                 [name |-> "q", version |-> None, store |-> TRUE],
                                 [name |-> None, version |-> "3", store |-> FALSE]}],
     network |-> {Loopback, Nic("veth0", "if5", "m0", <<"10.0.0.1", "fe80::1">>, TRUE, 1000)},
     storage |-> {[Disk("sda", "disk", "ssd", "s0", "f1", TRUE) EXCEPT !.bsd = FALSE], Rom,
                  Disk("loop0", "loop", None, None, None, FALSE)},
     process |-> {[pid |-> "1", name |-> "init", hidden |-> TRUE]},
     cards |-> {Card("00:01", "VGA", "gpu"), Card("00:02", "Multimedia", "snd"),
                Card("00:03", "3D", None)},
     usb |-> {[name |-> "stick", vendorid |-> "1d6b", productid |-> "0002"],
              [name |-> "hub", vendorid |-> None, productid |-> None]},
     user |-> {[login |-> "ann", tty |-> "console"], [login |-> "ann", tty |-> "pts"]},
     battery |-> {Supply("BAT0", "Battery", "b0", 50), Supply("AC", "Mains", None, None)},
     environment |-> {[key |-> "PATH", val |-> "/bin"]},
     printer |-> {Queue("laser", "Idle", "usb://laser", "l1"),
                  Queue("ink", None, "usb://ink", None)},
     monitor |-> {[name |-> "panel", serial |-> "e1", whole |-> TRUE, coded |-> TRUE],
                  [name |-> None, serial |-> None, whole |-> FALSE, coded |-> FALSE]},
     antivirus |-> {[name |-> "ESET"], [name |-> "Home made"]}]

MCMachines == {MCMachine}

\* A disk is swapped for another under its name, one that does not say its model
\* among them, a battery is swapped or taken out, an address moves to another
\* interface, a queue to another device, all memory is soldered on.
MCVariants ==
    [host |-> {"laptop", None}, virt |-> {"kvm"},
     cpu |-> {<<Cpu>>},
     memory |-> {[dimms |-> {Dimm("A1", None, None)}, total |-> 16]},
     software |-> {[kind |-> "rpm",
                    packages |-> {[name |-> "p", version |-> "2", store |-> FALSE]}]},
     network |-> {{[Loopback EXCEPT !.ips = @ \o <<"10.0.0.1">>],
                   Nic("eth1", None, "m1", <<"fe80::1">>, FALSE, 100)}},
     storage |-> {{Disk("sda", "disk", "hdd", "s9", "f9", TRUE), Rom},
                  {Disk("sda", "disk", None, "s9", None, FALSE)}},
     battery |-> {{[Supply("BAT1", "Battery", "b1", None) EXCEPT !.old = FALSE]}, {}},
     printer |-> {{Queue("laser", "Disabled", "net://laser", None)}},
     cards |-> {{Card("00:01", "Audio", "snd2")}}]

Bare(cfg, dropins, env) == [cfg |-> cfg, dropins |-> dropins, env |-> env]
ServerLine == Pair("server", <<"s1", "s2">>)

\* A comment cuts a list short, a later layer takes the place of an earlier
\* one, a variable of the environment that of both, and a bad number fails all.
NoArgs == [servers |-> <<>>, no_category |-> <<>>, deviceid |-> None]

MCAgents ==
    {[source |-> Bare(<<BlankLine, ServerLine>>, <<>>, <<>>), args |-> NoArgs],
     [source |-> Bare(<<[Pair("no-category", <<"Printer", "usb">>) EXCEPT !.cut = 1],
                        ServerLine>>,
                      <<<<Pair("other", <<"x">>)>>, <<Pair("delaytime", <<"1">>)>>>>,
                      <<[key |-> "tag", words |-> <<"lab">>]>>),
      args |-> [NoArgs EXCEPT !.servers = <<"s2">>, !.no_category = <<"CPU", "bios">>,
                              !.deviceid = "desk"]],
     [source |-> Bare(<<Pair("server", <<"s1">>), Pair("no-category", <<"os">>)>>,
                      <<<<Pair("no-category", <<"hardware">>)>>>>,
                      <<[key |-> "server", words |-> <<"s2">>]>>), args |-> NoArgs],
     [source |-> Bare(<<ServerLine, Pair("delaytime", <<"soon">>)>>, <<>>, <<>>),
      args |-> NoArgs],
     [source |-> Bare(<<>>, <<>>, <<>>),
      args |-> [NoArgs EXCEPT !.no_category = <<"software", "network", "storage">>]]}

MCLower(word) ==
    IF word = "Printer" THEN "printer" ELSE IF word = "CPU" THEN "cpu" ELSE word
=============================================================================

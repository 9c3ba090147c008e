---------------------------- MODULE LocalMachine ----------------------------
(***************************************************************************)
(* The machine an inventory is taken of: its parts, what the files and      *)
(* commands of each platform say of them, and what a complete and correct   *)
(* section is.  None of this is code of the agent.                          *)
(***************************************************************************)
EXTENDS LocalCategories

Shown(v) == IF v = None THEN Blank ELSE v

\* Firmware does not leave a field empty.
Placed(v) == IF v = None THEN Filler ELSE v

Populated(m) == {d \in m.memory.dimms : d.capacity # None}
Drives(m) == {d \in m.storage : d.type = "disk"}

\* A block per thread; a machine with one socket need not number it.
Threads(cpus) ==
    FlattenSeq([k \in DOMAIN cpus |->
                   [t \in 1..cpus[k].threads |->
                       [socket |-> IF Len(cpus) = 1 THEN Blank ELSE k - 1,
                        name |-> Shown(cpus[k].name), cores |-> Shown(cpus[k].cores)]]])

Board(m, privileged) ==
    [f \in DOMAIN m.board |->
        IF f \in {"serial", "board", "uuid"} /\ ~privileged THEN Blank ELSE Placed(m.board[f])]

DmiLines(m) ==
    {[block |-> l[1], field |-> l[2], value |-> Placed(m.board[l[3]])] :
        l \in {<<"BIOS Information", "Vendor", "vendor">>,
               <<"System Information", "Serial Number", "serial">>,
               <<"Base Board Information", "Serial Number", "board">>,
               <<"Chassis Information", "Asset Tag", "asset">>,
               <<"System Information", "UUID", "uuid">>}}

Dimms(m, empty) ==
    {[caption |-> Shown(d.caption), size |-> Shown(d.capacity), serial |-> Or(d.serial, empty)] :
        d \in m.memory.dimms}

Packages(m, store) ==
    {[name |-> Shown(s.name), version |-> Shown(s.version)] :
        s \in {s \in m.software.packages : s.store \in store}}

Nics(m) ==
    {[name |-> n.name, mac |-> IF n.mac = None THEN ZeroMac ELSE n.mac, up |-> n.up,
      ips |-> n.ips, peer |-> Shown(n.peer)] : n \in m.network}

\* ifconfig has a status for what has a medium.
Blocks(m) ==
    {[name |-> n.name, mac |-> Shown(n.mac), ips |-> n.ips,
      status |-> IF ~n.media THEN Blank ELSE IF n.up THEN "active" ELSE "inactive"] :
        n \in m.network}

AddressLines(m) ==
    LET nics == SetToSeq(m.network)
    IN FlattenSeq([k \in DOMAIN nics |->
                      [a \in DOMAIN nics[k].ips |->
                          [name |-> nics[k].name, ip |-> nics[k].ips[a]]]])

DriveLines(drives) ==
    {[name |-> d.name, type |-> d.type, media |-> "fixed", model |-> Shown(d.model),
      serial |-> Shown(d.serial), firmware |-> Shown(d.firmware)] : d \in drives}

\* The controller is listed with its drives; a drive need not have a device nor
\* say its model.
MacDrives(drives) ==
    {("_name" :> "controller")}
    \cup {("_name" :> d.title) @@ ("device_serial" :> Shown(d.serial))
             @@ ("device_revision" :> Shown(d.firmware))
             @@ [k \in IF d.bsd THEN {"bsd_name"} ELSE {} |-> d.name]
             @@ [k \in IF d.model # None THEN {"device_model"} ELSE {} |-> d.model] :
             d \in drives}

\* The number of a battery is under one key or the other.
BatteryLines(batteries) ==
    LET list == SetToSeq(batteries)
        line(key, value) == [key |-> key, value |-> value]
    IN FlattenSeq([k \in DOMAIN list |->
          <<line("DeviceName", list[k].name),
            line(IF list[k].old THEN "BatterySerialNumber" ELSE "Serial", Shown(list[k].serial)),
            line("Voltage", 1000), line("DesignCapacity", Shown(list[k].energy))>>])

Cards(m, types) ==
    {[name |-> Shown(c.name), type |-> c.type, vendor |-> Shown(c.vendor), slot |-> c.slot] :
        c \in {c \in m.cards : c.type \in types}}

Display == {"VGA", "3D", "Display"}
Audio == {"Audio", "Multimedia"}
AnyCard(m) == {c.type : c \in m.cards}

\* What a file or command says; None where there is no such thing, or it
\* fails on this machine.
Says(source, p, m, privileged) ==
    CASE source = File("os-release") -> m.os.name
      [] source = File("osrelease") -> m.os.kernel
      [] source = File("timezone") -> IF m.os.link THEN None ELSE m.os.zone
      [] source = File("localtime") -> m.os.zone
      [] source = <<"sw_vers", "">> -> m.os.name
      [] source = <<"uname", "-r">> -> m.os.kernel
      [] source = Powershell("OperatingSystem") ->
            {[name |-> m.os.name, kernel |-> m.os.kernel, arch |-> "build"]}
      [] source = <<"dmidecode", "">> -> IF privileged THEN DmiLines(m) ELSE None
      [] source = File("dmi/id") -> Board(m, privileged)
      [] source = File("hostname") -> m.host
      [] source = <<"systemd-detect-virt", "">> -> m.virt
      [] source = <<"hostname", "">> -> m.host
      [] source = Profiler("Hardware") -> Board(m, TRUE)
      [] source = Powershell("Hardware") -> Board(m, TRUE) @@ [name |-> m.host]
      [] source = File("cpuinfo") -> Threads(m.cpu)
      [] source = Sysctl("brand") -> m.cpu[1].name
      [] source = Sysctl("physicalcpu") -> Len(m.cpu) * m.cpu[1].cores
      [] source = Sysctl("logicalcpu") -> Len(m.cpu) * m.cpu[1].threads
      [] source = Sysctl("packages") -> Len(m.cpu)
      [] source = Powershell("Processor") -> m.cpu
      [] source = <<"dmidecode", "-t 17">> -> IF privileged THEN Dimms(m, Filler) ELSE None
      [] source = Profiler("Memory") -> Dimms(m, Blank)
      [] source = Sysctl("memsize") -> m.memory.total
      [] source = Powershell("PhysicalMemory") ->
            {d \in Dimms(m, Blank) : d.size # Blank}
      [] source = <<"dpkg-query", "">> ->
            IF m.software.kind = "deb" THEN Packages(m, BOOLEAN) ELSE None
      [] source = <<"rpm", "">> ->
            IF m.software.kind = "rpm" THEN Packages(m, BOOLEAN) ELSE None
      [] source = Profiler("Applications") -> Packages(m, BOOLEAN)
      [] source = Powershell("Uninstall") -> Packages(m, {FALSE})
      [] source = Powershell("Appx") -> Packages(m, {TRUE})
      [] source = Links -> Nics(m)
      [] source = Addresses -> AddressLines(m)
      [] source \in {Speed(n.name) : n \in m.network} ->
            Shown((CHOOSE n \in m.network : source = Speed(n.name)).speed)
      [] source = <<"ifconfig", "">> -> Blocks(m)
      [] source = Powershell("NetworkAdapter") -> {n \in Nics(m) : n.mac # ZeroMac}
      [] source = Lsblk ->
            {[d EXCEPT !.firmware = Blank,
                       !.serial = IF d.type = "rom" THEN Blank ELSE d.serial] :
                d \in DriveLines(m.storage)}
      [] source \in {<<"smartctl", d.name>> : d \in m.storage} ->
            LET d == CHOOSE d \in DriveLines(m.storage) : source = <<"smartctl", d.name>>
            IN IF privileged THEN d ELSE [f \in DOMAIN d |-> Blank]
      [] source = Profiler("NVMe") -> MacDrives({d \in Drives(m) : d.nvme})
      [] source = Profiler("SerialATA") -> MacDrives({d \in Drives(m) : ~d.nvme})
      [] source = Powershell("DiskDrive") -> DriveLines(Drives(m))
      [] source = <<"ps", "aux">> ->
            {[user |-> "root", pid |-> q.pid, cmd |-> q.name] : q \in m.process}
                \cup {[user |-> "USER", pid |-> "PID", cmd |-> "COMMAND"]}
      [] source = Powershell("Process") ->
            {[pid |-> q.pid, cmd |-> IF q.hidden THEN Blank ELSE q.name, image |-> q.name] :
                q \in m.process}
      [] source = <<"lspci", "-mm">> -> Cards(m, AnyCard(m))
      [] source \in {Profiler("PCI"), Powershell("PnPEntity PCI")} -> Cards(m, AnyCard(m))
      [] source \in {Profiler("Displays"), Powershell("VideoController")} -> Cards(m, Display)
      [] source \in {Profiler("Audio"), Powershell("SoundDevice")} -> Cards(m, Audio)
      [] source \in {<<"lsusb", "">>, Powershell("PnPEntity USB")} ->
            {[name |-> u.name, vendorid |-> u.vendorid, productid |-> u.productid] :
                u \in {u \in m.usb : u.vendorid # None}}
      [] source = Profiler("USB") ->
            {[name |-> u.name, vendorid |-> Shown(u.vendorid),
              productid |-> Shown(u.productid)] : u \in m.usb}
      [] source = <<"who", "">> -> m.user
      [] source = Powershell("UserName") -> {s \in m.user : s.tty = "console"}
      [] source = File("power_supply") ->
            {[name |-> s.name, serial |-> Shown(s.serial), type |-> s.type,
              energy |-> Shown(s.energy)] : s \in m.battery}
      [] source = <<"ioreg", "AppleSmartBattery">> ->
            BatteryLines({s \in m.battery : s.type = "Battery"})
      [] source = Powershell("Battery") ->
            {[name |-> s.name, energy |-> Shown(s.energy)] :
                s \in {s \in m.battery : s.type = "Battery"}}
      [] source = <<"environment", "">> -> m.environment
      [] source = Queues -> {[name |-> q.name, status |-> Shown(q.status)] : q \in m.printer}
      [] source = Devices ->
            {[name |-> q.name, uri |-> q.uri, serial |-> Shown(q.serial)] : q \in m.printer}
      [] source = Powershell("Printer") ->
            {[name |-> q.name, uri |-> q.uri] : q \in m.printer}
      [] source \in {File("drm"), <<"ioreg", "IODisplayEDID">>, Powershell("EDID")} ->
            {[name |-> Shown(s.name), whole |-> s.whole,
              text |-> IF s.coded THEN Blank ELSE Shown(s.serial),
              number |-> IF s.coded THEN Shown(s.serial) ELSE Blank] : s \in m.monitor}
      [] source \in {File("/opt"), File("/Applications"), Powershell("AntiVirusProduct")} ->
            m.antivirus
      [] OTHER -> None    \* a disk or an interface that is gone
-----------------------------------------------------------------------------
\* Only root sees what identifies the machine.
Visible(p, privileged, v) == IF p # "linux" \/ privileged THEN v ELSE None

\* What a section should hold: every thing of its kind, with each of its
\* fields that the platform tells.
Truth(section, p, m, privileged) ==
    LET If(platforms, v) == IF p \in platforms THEN v ELSE None
        Seen(v) == Visible(p, privileged, v)
    IN
    CASE section = "os" ->
            {[name |-> m.os.name, kernel |-> m.os.kernel, zone |-> If({"linux"}, m.os.zone),
              arch |-> "build"]}
      [] section = "bios" ->
            Filled({[vendor |-> m.board.vendor, serial |-> Seen(m.board.serial),
                     board |-> If({"linux", "windows"}, Seen(m.board.board)),
                     asset |-> If({"linux"}, m.board.asset)]})
      [] section = "hardware" ->
            Filled({[name |-> m.host, uuid |-> Seen(m.board.uuid),
                     vm |-> If({"linux"}, IF m.virt = "none" THEN "Physical" ELSE m.virt)]})
      [] section = "cpu" -> m.cpu
      [] section = "memory" ->
            IF p = "macos" /\ Populated(m) = {}
            THEN {memory_from_total_bytes(m.memory.total)}
            ELSE {d \in Populated(m) : p # "linux" \/ privileged}
      [] section = "software" ->
            {[name |-> s.name, version |-> s.version] :
                s \in {s \in m.software.packages : s.name # None}}
      [] section = "network" ->
            {[name |-> n.name, mac |-> n.mac, ip |-> First(n.ips),
              status |-> IF p = "linux" \/ (p = "macos" /\ n.media)
                         THEN IF n.up THEN "up" ELSE "down" ELSE None,
              speed |-> If({"linux"}, n.speed)] :
                n \in {n \in m.network : p # "windows" \/ n.mac # None}}
      [] section = "storage" ->
            {[name |-> CASE p = "linux" -> d.name
                         [] p = "macos" -> IF d.bsd THEN d.name ELSE Or(d.model, d.title)
                         [] p = "windows" -> Or(d.model, "disk"),
              type |-> d.type, model |-> Or(d.model, If({"macos"}, d.title)), firmware |-> Seen(d.firmware),
              serial |-> IF d.type = "rom" THEN Seen(d.serial) ELSE d.serial] :
                d \in {d \in m.storage : d.type = "disk" \/ (p = "linux" /\ d.type = "rom")}}
      [] section = "process" -> {[name |-> q.name, pid |-> q.pid] : q \in m.process}
      [] section = "controller" ->
            {[name |-> c.name, type |-> c.type, vendor |-> c.vendor,
              slot |-> If({"linux", "macos"}, c.slot)] : c \in m.cards}
      [] section \in {"video", "sound"} ->
            {[name |-> c.name,
              vendor |-> If({"linux", "windows"} \cup
                               (IF section = "video" THEN {"macos"} ELSE {}), c.vendor)] :
                c \in {c \in m.cards : /\ c.name # None
                                       /\ c.type \in IF section = "video" THEN Display
                                                     ELSE Audio}}
      [] section = "usb" -> {u \in m.usb : u.vendorid # None}
      [] section = "user" ->
            {[login |-> s.login] : s \in {s \in m.user : p # "windows" \/ s.tty = "console"}}
      [] section = "battery" ->
            {[name |-> s.name, serial |-> If({"linux", "macos"}, s.serial),
              capacity |-> s.energy] : s \in {s \in m.battery : s.type = "Battery"}}
      [] section = "environment" -> m.environment
      [] section = "printer" ->
            {[name |-> q.name, status |-> If({"linux", "macos"}, q.status), port |-> q.uri,
              serial |-> If({"linux", "macos"}, q.serial)] : q \in m.printer}
      [] section = "monitor" ->
            {[name |-> s.name, serial |-> s.serial] : s \in {s \in m.monitor : s.whole}}
      [] section = "antivirus" ->
            {[name |-> a.name] : a \in {a \in m.antivirus : p = "windows" \/ a.name \in KNOWN(p)}}
=============================================================================

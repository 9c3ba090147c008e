-------------------------- MODULE LocalCategories --------------------------
(***************************************************************************)
(* The categories of the local inventory (glpi-inventory-local): which     *)
(* files and commands a collector reads on each platform, in which order,  *)
(* and what it makes of the answers.                                       *)
(*                                                                         *)
(* Data: what a source says is a set of lines (records) with the fields    *)
(* the parsers look at; a source without an answer (no such program or     *)
(* file, a failed status, output that is no JSON) gave None.  Blank is a   *)
(* value that is empty or not there, Filler one of the placeholders of     *)
(* firmware makers.  Sizes, speeds, dates and captions are left out where  *)
(* they are read like the fields that stay.                                *)
(***************************************************************************)
EXTENDS Naturals, Sequences, FiniteSets, SequencesExt

CONSTANTS None, Blank, Filler

ZeroMac == "00:00:00:00:00:00"

\* non_empty, str_field
Field(v) == IF v = Blank THEN None ELSE v

clean(v) == IF v \in {Blank, Filler} THEN None ELSE v

Or(a, b) == IF a # None THEN a ELSE b

Lines(text) == IF text = None THEN {} ELSE text

\* The records that say anything at all.
Filled(entries) == {e \in entries : \E f \in DOMAIN e : e[f] # None}

File(path) == <<"read", path>>
Profiler(type) == <<"system_profiler", type>>
Powershell(class) == <<"powershell", class>>
-----------------------------------------------------------------------------
(* Operating system *)

os_reads(p, r) ==
    CASE p = "linux" ->
            <<File("os-release"), File("osrelease"), File("timezone")>>
            \o (IF File("timezone") \in DOMAIN r /\ r[File("timezone")] = None
                THEN <<File("localtime")>> ELSE <<>>)
      [] p = "macos" -> <<<<"sw_vers", "">>, <<"uname", "-r">>>>
      [] p = "windows" -> <<Powershell("OperatingSystem")>>

\* The architecture is that of the build: the section is never empty but on
\* Windows, where everything comes from one answer.
os_section(p, r) ==
    CASE p = "linux" ->
            {[name |-> r[File("os-release")], kernel |-> r[File("osrelease")],
              zone |-> Or(r[File("timezone")],
                          IF File("localtime") \in DOMAIN r
                          THEN r[File("localtime")] ELSE None),
              arch |-> "build"]}
      [] p = "macos" ->
            {[name |-> r[<<"sw_vers", "">>], kernel |-> r[<<"uname", "-r">>],
              zone |-> None, arch |-> "build"]}
      [] p = "windows" ->
            {[name |-> Field(l.name), kernel |-> Field(l.kernel), zone |-> None,
              arch |-> l.arch] : l \in Lines(r[Powershell("OperatingSystem")])}
-----------------------------------------------------------------------------
(* Firmware and hardware.  `serial` stands for the fields of Bios that only *)
(* root can read in sysfs, `vendor` for those anyone can; dmidecode prints  *)
(* a field of a structure on a line.                                        *)

Structure(text, name, field) ==
    LET found == {l \in text : l.block = name /\ l.field = field}
    IN IF found = {} THEN None ELSE clean((CHOOSE l \in found : TRUE).value)

parse_dmidecode_hardware(text) ==
    [vendor |-> Structure(text, "BIOS Information", "Vendor"),
     serial |-> Structure(text, "System Information", "Serial Number"),
     board  |-> Structure(text, "Base Board Information", "Serial Number"),
     asset  |-> Structure(text, "Chassis Information", "Asset Tag"),
     uuid   |-> Structure(text, "System Information", "UUID")]

parse_dmi_sysfs(files) ==
    [f \in {"vendor", "serial", "board", "asset", "uuid"} |->
        IF files = None THEN None ELSE clean(files[f])]

\* fill_from
fill_from(first, fallback) == [f \in DOMAIN first |-> Or(first[f], fallback[f])]

\* detect_vm_system: only a program that cannot be started gives no answer.
map_vm_system(token) == IF token \in {"", "none"} THEN "Physical" ELSE token

hardware_reads(p) ==
    CASE p = "linux" -> <<<<"dmidecode", "">>, File("dmi/id"), File("hostname"),
                          <<"systemd-detect-virt", "">>>>
      [] p = "macos" -> <<Profiler("Hardware"), <<"hostname", "">>>>
      [] p = "windows" -> <<Powershell("Hardware")>>

\* What the three platforms' readers make of the firmware, and the name and
\* the virtualisation that go with it.
Firmware(p, r) ==
    LET From(text) == [f \in {"vendor", "serial", "board", "asset", "uuid"} |->
                          IF text = None THEN None ELSE clean(text[f])]
    IN CASE p = "linux" -> fill_from(parse_dmidecode_hardware(Lines(r[<<"dmidecode", "">>])),
                                     parse_dmi_sysfs(r[File("dmi/id")]))
         [] p = "macos" -> [From(r[Profiler("Hardware")]) EXCEPT !.board = None, !.asset = None]
         [] p = "windows" -> [From(r[Powershell("Hardware")]) EXCEPT !.asset = None]

bios_section(p, r) ==
    LET b == Firmware(p, r)
    IN Filled({[vendor |-> b.vendor, serial |-> b.serial, board |-> b.board,
                asset |-> b.asset]})

hardware_section(p, r) ==
    Filled({[name |-> CASE p = "linux" -> r[File("hostname")]
                        [] p = "macos" -> r[<<"hostname", "">>]
                        [] p = "windows" -> IF r[Powershell("Hardware")] = None THEN None
                                            ELSE clean(r[Powershell("Hardware")].name),
             uuid |-> Firmware(p, r).uuid,
             vm |-> IF p = "linux" /\ r[<<"systemd-detect-virt", "">>] # None
                    THEN map_vm_system(r[<<"systemd-detect-virt", "">>]) ELSE None]})
-----------------------------------------------------------------------------
(* Processors: a sequence, as two of them may be alike. *)

\* A block without a "physical id" is one of socket 0; the first block of a
\* socket speaks for it.
parse_cpuinfo(blocks) ==
    LET socket(b) == IF b.socket = Blank THEN 0 ELSE b.socket
        sockets == SetToSortSeq({socket(blocks[k]) : k \in DOMAIN blocks}, <)
        of(s) == SelectSeq(blocks, LAMBDA b : socket(b) = s)
    IN [k \in DOMAIN sockets |->
           [name |-> Field(of(sockets[k])[1].name), cores |-> Field(of(sockets[k])[1].cores),
            threads |-> Len(of(sockets[k]))]]

\* Cores and threads are of the machine, to be shared out.
build_macos_cpus(brand, physical, logical, packages) ==
    LET sockets == IF packages \in {None, 0} THEN 1 ELSE packages
        share(n) == IF n = None THEN None
                    ELSE IF n \div sockets = 0 THEN 1 ELSE n \div sockets
    IN IF brand = None /\ physical = None /\ logical = None THEN <<>>
       ELSE [k \in 1..sockets |->
                [name |-> brand, cores |-> share(physical), threads |-> share(logical)]]

parse_win_cpus(lines) ==
    SelectSeq([k \in DOMAIN lines |->
                  [name |-> Field(lines[k].name), cores |-> Field(lines[k].cores),
                   threads |-> Field(lines[k].threads)]],
              LAMBDA c : \E f \in DOMAIN c : c[f] # None)

Sysctl(name) == <<"sysctl", name>>

cpu_reads(p) ==
    CASE p = "linux" -> <<File("cpuinfo")>>
      [] p = "macos" -> <<Sysctl("brand"), Sysctl("physicalcpu"), Sysctl("logicalcpu"),
                          Sysctl("packages")>>
      [] p = "windows" -> <<Powershell("Processor")>>

cpu_section(p, r) ==
    LET Blocks(text) == IF text = None THEN <<>> ELSE text
    IN CASE p = "linux" -> parse_cpuinfo(Blocks(r[File("cpuinfo")]))
         [] p = "macos" -> build_macos_cpus(r[Sysctl("brand")], r[Sysctl("physicalcpu")],
                                            r[Sysctl("logicalcpu")], r[Sysctl("packages")])
         [] p = "windows" -> parse_win_cpus(Blocks(r[Powershell("Processor")]))
-----------------------------------------------------------------------------
(* Memory *)

parse_dmidecode_memory(blocks) ==
    {[caption |-> clean(b.caption), capacity |-> b.size, serial |-> clean(b.serial)] :
        b \in {b \in blocks : b.size # Blank}}

parse_macos_memory(dimms) ==
    {[caption |-> Field(d.caption), capacity |-> d.size, serial |-> Field(d.serial)] :
        d \in {d \in dimms : d.size # Blank}}

memory_from_total_bytes(total) ==
    [caption |-> "System Memory", capacity |-> total, serial |-> None]

\* A placeholder is taken as it is.
parse_win_memory(items) ==
    Filled({[caption |-> Field(d.caption), capacity |-> Field(d.size),
             serial |-> Field(d.serial)] : d \in items})

memory_reads(p, r) ==
    CASE p = "linux" -> <<<<"dmidecode", "-t 17">>>>
      [] p = "macos" ->
            <<Profiler("Memory")>>
            \o (IF Profiler("Memory") \in DOMAIN r
                   /\ parse_macos_memory(Lines(r[Profiler("Memory")])) = {}
                THEN <<Sysctl("memsize")>> ELSE <<>>)
      [] p = "windows" -> <<Powershell("PhysicalMemory")>>

memory_section(p, r) ==
    CASE p = "linux" -> parse_dmidecode_memory(Lines(r[<<"dmidecode", "-t 17">>]))
      [] p = "macos" /\ Sysctl("memsize") \notin DOMAIN r ->
            parse_macos_memory(Lines(r[Profiler("Memory")]))
      [] p = "macos" /\ Sysctl("memsize") \in DOMAIN r ->
            {memory_from_total_bytes(n) : n \in {r[Sysctl("memsize")]} \ {None}}
      [] p = "windows" -> parse_win_memory(Lines(r[Powershell("PhysicalMemory")]))
-----------------------------------------------------------------------------
(* Software *)

\* parse_packages, parse_win_software, parse_win_appx and parse_macos_software
\* agree on what they drop.
parse_packages(lines) ==
    {[name |-> l.name, version |-> Field(l.version)] : l \in {l \in lines : l.name # Blank}}

software_reads(p, r) ==
    CASE p = "linux" ->
            <<<<"dpkg-query", "">>>>
            \o (IF <<"dpkg-query", "">> \in DOMAIN r /\ r[<<"dpkg-query", "">>] = None
                THEN <<<<"rpm", "">>>> ELSE <<>>)
      [] p = "macos" -> <<Profiler("Applications")>>
      [] p = "windows" -> <<Powershell("Uninstall"), Powershell("Appx")>>

software_section(p, r) ==
    UNION {parse_packages(Lines(r[s])) : s \in DOMAIN r}
-----------------------------------------------------------------------------
(* Network.  A link names the other end of a virtual pair after an "@"; the *)
(* inventory shows the first address only.                                  *)

Mac(mac) == IF mac \in {Blank, ZeroMac} THEN None ELSE mac

First(ips) == IF ips = <<>> THEN None ELSE ips[1]

parse_link_line(line) ==
    [name |-> line.name, mac |-> Mac(line.mac), status |-> IF line.up THEN "up" ELSE "down",
     ip |-> None, speed |-> None]

\* Wrong: the addresses are not looked up by name.
parse_interfaces_AnyAddress(links, addresses) ==
    {[parse_link_line(l) EXCEPT !.ip = First([k \in DOMAIN addresses |-> addresses[k].ip])] :
        l \in links}

parse_interfaces(links, addresses) ==
    {LET i == parse_link_line(l)
         own == SelectSeq(addresses, LAMBDA a : a.name = i.name)
     IN [i EXCEPT !.ip = First([k \in DOMAIN own |-> own[k].ip])] : l \in links}

\* An interface without a medium, as the loopback, has no status.
ifconfig_status(status) ==
    IF status = Blank THEN None ELSE IF status = "active" THEN "up" ELSE "down"

parse_ifconfig(blocks) ==
    {[name |-> b.name, mac |-> Mac(b.mac), ip |-> First(b.ips), speed |-> None,
      status |-> ifconfig_status(b.status)] : b \in blocks}

parse_win_network(adapters) ==
    {[name |-> a.name, mac |-> Mac(a.mac), ip |-> First(a.ips), speed |-> None,
      status |-> None] : a \in {a \in adapters : a.name # Blank}}

Links == <<"ip", "link">>
Addresses == <<"ip", "addr">>
Speed(name) == File("speed of " \o name)

\* Both answers of ip or no section.
Interfaces(r) ==
    IF r[Links] = None \/ r[Addresses] = None THEN {}
    ELSE parse_interfaces(r[Links], r[Addresses])

network_reads(p, r) ==
    CASE p = "linux" ->
            <<Links, Addresses>>
            \o (IF {Links, Addresses} \subseteq DOMAIN r
                THEN LET names == SetToSeq({i.name : i \in Interfaces(r)})
                     IN [k \in DOMAIN names |-> Speed(names[k])]
                ELSE <<>>)
      [] p = "macos" -> <<<<"ifconfig", "">>>>
      [] p = "windows" -> <<Powershell("NetworkAdapter")>>

network_section(p, r) ==
    CASE p = "linux" -> {[i EXCEPT !.speed = Field(r[Speed(i.name)])] : i \in Interfaces(r)}
      [] p = "macos" -> parse_ifconfig(Lines(r[<<"ifconfig", "">>]))
      [] p = "windows" -> parse_win_network(Lines(r[Powershell("NetworkAdapter")]))
-----------------------------------------------------------------------------
(* Storage *)

parse_lsblk(lines) ==
    {[name |-> l.name, type |-> l.type, model |-> Field(l.model), serial |-> Field(l.serial),
      firmware |-> None] :
        l \in {l \in lines : l.type \in {"disk", "rom"} /\ l.name # Blank}}

\* What smartctl adds: nothing that lsblk has said is replaced.
parse_smartctl_info(text) ==
    [f \in {"model", "serial", "firmware"} |-> IF text = None THEN None ELSE Field(text[f])]

Enriched(disk, info) ==
    [disk EXCEPT !.firmware = info.firmware, !.serial = Or(@, info.serial),
                 !.model = Or(@, info.model)]

parse_win_storage(items) ==
    {[name |-> IF d.model = Blank THEN "disk" ELSE d.model,
      type |-> IF d.media = "removable" THEN "removable" ELSE "disk",
      model |-> Field(d.model), serial |-> Field(d.serial), firmware |-> Field(d.firmware)] :
        d \in items}

\* An item is a function of the keys it has.
macos_disk(item) ==
    LET str_field(key) == IF key \in DOMAIN item THEN Field(item[key]) ELSE None
        model == Or(str_field("device_model"), str_field("_name"))
    IN [name |-> Or(Or(str_field("bsd_name"), model), "disk"), type |-> "disk",
        model |-> model, serial |-> str_field("device_serial"),
        firmware |-> str_field("device_revision")]

\* An item with neither key is a controller.
parse_macos_storage(items) ==
    {macos_disk(i) : i \in {i \in items : {"bsd_name", "device_model"} \cap DOMAIN i # {}}}

Lsblk == <<"lsblk", "">>

storage_reads(p, r) ==
    CASE p = "linux" ->
            <<Lsblk>>
            \o (IF Lsblk \in DOMAIN r
                THEN LET names == SetToSeq({d.name : d \in parse_lsblk(Lines(r[Lsblk]))})
                     IN [k \in DOMAIN names |-> <<"smartctl", names[k]>>]
                ELSE <<>>)
      [] p = "macos" -> <<Profiler("NVMe"), Profiler("SerialATA")>>
      [] p = "windows" -> <<Powershell("DiskDrive")>>

storage_section(p, r) ==
    CASE p = "linux" -> {Enriched(d, parse_smartctl_info(r[<<"smartctl", d.name>>])) :
                            d \in parse_lsblk(Lines(r[Lsblk]))}
      [] p = "macos" -> UNION {parse_macos_storage(Lines(r[s])) : s \in DOMAIN r}
      [] p = "windows" -> parse_win_storage(Lines(r[Powershell("DiskDrive")]))
-----------------------------------------------------------------------------
(* Processes, controllers, displays, sound *)

parse_ps(lines) ==
    {[name |-> Field(l.cmd), pid |-> l.pid] : l \in {l \in lines : l.user # "USER"}}

parse_win_processes(items) ==
    {[name |-> Or(Field(i.cmd), Field(i.image)), pid |-> i.pid] :
        i \in {i \in items : i.pid # Blank}}

process_section(p, text) ==
    IF p = "windows" THEN parse_win_processes(Lines(text)) ELSE parse_ps(Lines(text))

parse_lspci(lines) ==
    {[name |-> Field(l.name), type |-> Field(l.type), vendor |-> Field(l.vendor),
      slot |-> l.slot] : l \in {l \in lines : l.slot # Blank}}

parse_macos_controllers(items) ==
    Filled({[name |-> Field(i.name), type |-> Field(i.type), vendor |-> Field(i.vendor),
             slot |-> Field(i.slot)] : i \in items})

parse_win_controllers(items) ==
    Filled({[name |-> Field(i.name), type |-> Field(i.type), vendor |-> Field(i.vendor),
             slot |-> None] : i \in items})

controller_section(p, text) ==
    CASE p = "linux" -> parse_lspci(Lines(text))
      [] p = "macos" -> parse_macos_controllers(Lines(text))
      [] p = "windows" -> parse_win_controllers(Lines(text))

is_display(controller) == controller.type \in {"VGA", "3D", "Display"}
is_audio(controller) == controller.type \in {"Audio", "Multimedia"}

Named(controllers) ==
    {[name |-> c.name, vendor |-> c.vendor] : c \in {c \in controllers : c.name # None}}

parse_lspci_video(lines) == Named({c \in parse_lspci(lines) : is_display(c)})
parse_lspci_sound(lines) == Named({c \in parse_lspci(lines) : is_audio(c)})

\* parse_win_video, parse_macos_video
parse_video(items) ==
    {[name |-> i.name, vendor |-> Field(i.vendor)] : i \in {i \in items : i.name # Blank}}

\* parse_win_sound, parse_macos_sound: macOS does not say who made it.
parse_sound(p, items) ==
    {[name |-> i.name, vendor |-> IF p = "macos" THEN None ELSE Field(i.vendor)] :
        i \in {i \in items : i.name # Blank}}

video_section(p, text) ==
    IF p = "linux" THEN parse_lspci_video(Lines(text)) ELSE parse_video(Lines(text))

sound_section(p, text) ==
    IF p = "linux" THEN parse_lspci_sound(Lines(text)) ELSE parse_sound(p, Lines(text))
-----------------------------------------------------------------------------
(* USB, users, batteries, environment *)

\* The tree of macOS is walked to its leaves: `items` are all its nodes.
usb_section(p, text) ==
    {[name |-> Field(i.name), vendorid |-> i.vendorid, productid |-> i.productid] :
        i \in {i \in Lines(text) : i.vendorid # Blank /\ i.productid # Blank}}

\* parse_who; Windows names the user at the console, with a domain in front.
user_section(p, text) == {[login |-> l.login] : l \in Lines(text)}

\* parse_power_supply_uevent; a supply that is no battery is left out.
parse_power_supply_uevent(supplies) ==
    {[name |-> Field(s.name), serial |-> Field(s.serial), capacity |-> Field(s.energy)] :
        s \in {s \in supplies : s.type = "Battery"}}

\* One battery, of the first line with each key.  Capacity is charge by voltage,
\* with both or not at all.
parse_ioreg_battery(lines) ==
    LET first(key) ==
            LET own == SelectSeq(lines, LAMBDA l : l.key = key)
            IN IF own = <<>> THEN Blank ELSE own[1].value
        charge == first("DesignCapacity")
        voltage == first("Voltage")
        battery == [name |-> Field(first("DeviceName")),
                    serial |-> Or(Field(first("Serial")), Field(first("BatterySerialNumber"))),
                    capacity |-> IF Blank \in {charge, voltage} THEN None
                                 ELSE (charge * voltage) \div 1000]
    IN IF voltage = Blank THEN Filled({battery}) ELSE {battery}

parse_win_batteries(items) ==
    Filled({[name |-> Field(s.name), serial |-> None, capacity |-> Field(s.energy)] :
               s \in items})

battery_section(p, text) ==
    CASE p = "linux" -> parse_power_supply_uevent(Lines(text))
      [] p = "macos" -> parse_ioreg_battery(IF text = None THEN <<>> ELSE text)
      [] p = "windows" -> parse_win_batteries(Lines(text))

environment_section(p, text) == text
-----------------------------------------------------------------------------
(* Printers, monitors, antivirus *)

\* parse_lpstat_devices and serial_from_device_uri are in `devices`: the
\* serial number is an argument of the address of a queue.
parse_printers(queues, devices) ==
    {LET own == {d \in devices : d.name = q.name /\ d.uri # Blank}
         device == CHOOSE d \in own : TRUE
     IN [name |-> q.name, status |-> Field(q.status),
         port |-> IF own = {} THEN None ELSE device.uri,
         serial |-> IF own = {} THEN None ELSE Field(device.serial)] : q \in queues}

parse_win_printers(items) ==
    {[name |-> i.name, status |-> None, port |-> Field(i.uri), serial |-> None] :
        i \in {i \in items : i.name # Blank}}

Queues == <<"lpstat", "-l -p">>
Devices == <<"lpstat", "-v">>

printer_reads(p) ==
    IF p = "windows" THEN <<Powershell("Printer")>> ELSE <<Queues, Devices>>

\* Without an answer to the second question the queues are listed without it.
printer_section(p, r) ==
    IF p = "windows" THEN parse_win_printers(Lines(r[Powershell("Printer")]))
    ELSE parse_printers(Lines(r[Queues]), Lines(r[Devices]))

\* parse_edid: a block that is short or has another header is no monitor; a
\* serial number in text goes before one in binary.
parse_edid(edids) ==
    {[name |-> Field(e.name), serial |-> Or(Field(e.text), Field(e.number))] :
        e \in {e \in edids : e.whole}}

monitor_section(p, text) == parse_edid(Lines(text))

KNOWN(p) ==
    IF p = "macos" THEN {"CrowdStrike Falcon", "SentinelOne", "WithSecure", "ESET", "Sophos",
                         "Microsoft Defender"}
    ELSE {"CrowdStrike Falcon", "SentinelOne", "ESET", "Sophos", "Cortex XDR", "Dr.Web",
          "Kaspersky", "Trellix"}

\* detect: by the markers that exist; Windows keeps a list.
antivirus_section(p, text) ==
    {[name |-> i.name] :
        i \in {i \in Lines(text) : i.name # Blank /\ (p = "windows" \/ i.name \in KNOWN(p))}}
=============================================================================

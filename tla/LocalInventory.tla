--------------------------- MODULE LocalInventory ---------------------------
(***************************************************************************)
(* The inventory of the local machine (run_inventory of glpi-cli main.rs    *)
(* and LocalInventory of glpi-inventory-local): the configuration is read,  *)
(* the categories that are not disabled are collected one after the other,  *)
(* and the whole content is submitted to one server after the other.        *)
(*                                                                         *)
(* A category asks several programs, and the machine may change between two *)
(* of their answers; a program may fail, or never end; a server may refuse. *)
(* The run is started again and again from outside.                         *)
(***************************************************************************)
EXTENDS LocalMachine, ConfigLayers

CONSTANTS
    Machines,   \* machines to begin with
    Variants,   \* [part -> what it may be changed to]
    Agents,     \* configured agents: [source, args], with the lines of a
                \* configuration [cfg, dropins, env] and a command line
                \* [servers, no_category, deviceid]
    Servers,    \* servers, by the words that name them
    Lower(_),   \* a word in lower case
    Platforms,  \* of "linux", "macos", "windows"
    MaxTroubles \* bound on failures and changes of the machine, together

ASSUME LocalAssumption ==
    /\ Platforms \subseteq {"linux", "macos", "windows"}
    /\ MaxTroubles \in Nat

\* The collectors in their order; "smbios" fills two sections.
Category ==
    <<"os", "smbios", "cpu", "memory", "software", "network", "storage", "process",
      "controller", "usb", "user", "battery", "environment", "video", "sound", "printer",
      "monitor", "antivirus">>

SectionsOf(category) == IF category = "smbios" THEN {"bios", "hardware"} ELSE {category}

Sections == UNION {SectionsOf(Category[k]) : k \in DOMAIN Category}

\* The parts of the machine a category looks at.
PartsOf(category) ==
    CASE category = "smbios" -> {"host", "board", "virt"}
      [] category \in {"controller", "video", "sound"} -> {"cards"}
      [] OTHER -> {category}

\* The one source of the categories that have one.
OnlySource(category, p) ==
    LET On(linux, macos, windows) ==
            CASE p = "linux" -> linux [] p = "macos" -> macos [] p = "windows" -> windows
    IN
    CASE category = "process" -> On(<<"ps", "aux">>, <<"ps", "aux">>, Powershell("Process"))
      [] category = "controller" ->
            On(<<"lspci", "-mm">>, Profiler("PCI"), Powershell("PnPEntity PCI"))
      [] category = "usb" -> On(<<"lsusb", "">>, Profiler("USB"), Powershell("PnPEntity USB"))
      [] category = "user" -> On(<<"who", "">>, <<"who", "">>, Powershell("UserName"))
      [] category = "battery" ->
            On(File("power_supply"), <<"ioreg", "AppleSmartBattery">>, Powershell("Battery"))
      [] category = "environment" -> <<"environment", "">>
      [] category = "video" ->
            On(<<"lspci", "-mm">>, Profiler("Displays"), Powershell("VideoController"))
      [] category = "sound" ->
            On(<<"lspci", "-mm">>, Profiler("Audio"), Powershell("SoundDevice"))
      [] category = "monitor" ->
            On(File("drm"), <<"ioreg", "IODisplayEDID">>, Powershell("EDID"))
      [] category = "antivirus" ->
            On(File("/opt"), File("/Applications"), Powershell("AntiVirusProduct"))

\* What a collector reads, as far as its readings so far tell.
Reads(category, p, r) ==
    CASE category = "os" -> os_reads(p, r)
      [] category = "smbios" -> hardware_reads(p)
      [] category = "cpu" -> cpu_reads(p)
      [] category = "memory" -> memory_reads(p, r)
      [] category = "software" -> software_reads(p, r)
      [] category = "network" -> network_reads(p, r)
      [] category = "storage" -> storage_reads(p, r)
      [] category = "printer" -> printer_reads(p)
      [] OTHER -> <<OnlySource(category, p)>>

\* What it makes of them.
Section(section, p, r) ==
    LET text == r[OnlySource(section, p)]
    IN CASE section = "os" -> os_section(p, r)
         [] section = "bios" -> bios_section(p, r)
         [] section = "hardware" -> hardware_section(p, r)
         [] section = "cpu" -> cpu_section(p, r)
         [] section = "memory" -> memory_section(p, r)
         [] section = "software" -> software_section(p, r)
         [] section = "network" -> network_section(p, r)
         [] section = "storage" -> storage_section(p, r)
         [] section = "printer" -> printer_section(p, r)
         [] section = "process" -> process_section(p, text)
         [] section = "controller" -> controller_section(p, text)
         [] section = "usb" -> usb_section(p, text)
         [] section = "user" -> user_section(p, text)
         [] section = "battery" -> battery_section(p, text)
         [] section = "environment" -> environment_section(p, text)
         [] section = "video" -> video_section(p, text)
         [] section = "sound" -> sound_section(p, text)
         [] section = "monitor" -> monitor_section(p, text)
         [] section = "antivirus" -> antivirus_section(p, text)
-----------------------------------------------------------------------------
VARIABLES
    platform,
    privileged, \* whether the agent runs as root
    source,     \* the lines of its configuration
    args,       \* its command line
    machine,
    troubles,
    phase,      \* "idle", "collect", "submit", "hung"
    disabled,   \* sections this run leaves out
    servers,    \* where this run submits to
    next,       \* index of the category being collected
    readings,   \* [sources asked in this category -> what they said]
    content,    \* [sections collected -> entries]
    queue,      \* servers the content is still for
    held,       \* [Server -> [device -> content]], what each server has
    \* not in the program:
    began,      \* the machine when the category began
    failed      \* whether a source failed in the category

setup == <<platform, privileged, source, args>>
loaded == <<disabled, servers>>
vars == <<setup, machine, troubles, phase, loaded, next, readings, content,
          queue, held, began, failed>>

Empty == [x \in {} |-> None]

Init ==
    /\ platform \in Platforms
    /\ privileged \in BOOLEAN
    /\ platform # "linux" => privileged
    /\ \E agent \in Agents : source = agent.source /\ args = agent.args
    /\ machine \in Machines
    /\ troubles = 0
    /\ phase = "idle" /\ disabled = {} /\ servers = <<>> /\ next = 1 /\ readings = Empty /\ content = Empty
    /\ queue = <<>> /\ held = [s \in Servers |-> Empty]
    /\ began = machine /\ failed = FALSE

is_enabled(section) == section \notin disabled

\* Without a name the device is called after the agent.
deviceid(c) ==
    LET named == "hardware" \in DOMAIN c /\ \E h \in c["hardware"] : h.name # None
    IN IF args.deviceid # None THEN args.deviceid
       ELSE IF named THEN (CHOOSE h \in c["hardware"] : TRUE).name ELSE "glpi-agent"
-----------------------------------------------------------------------------
\* with_disabled_categories of the option and the command line together, and
\* the servers of the one unless the other has any.
LoadsOptions ==
    LET options == resolve(layers(source))
        words == options["no-category"] \o args.no_category
    IN /\ Resolves(source)
       /\ disabled' = {Lower(words[k]) : k \in DOMAIN words}
       /\ servers' = IF args.servers = <<>> THEN options["server"] ELSE args.servers

BeginsWith(k) ==
    /\ next' = k
    /\ readings' = Empty
    /\ began' = machine /\ failed' = FALSE

\* A configuration that does not load ends the run before it begins.
StartRun ==
    /\ phase = "idle"
    /\ LoadsOptions
    /\ phase' = "collect"
    /\ content' = Empty
    /\ BeginsWith(1)
    /\ UNCHANGED <<setup, machine, troubles, queue, held>>

Collecting == phase = "collect" /\ next <= Len(Category)

Enabled(category) == \E s \in SectionsOf(category) : is_enabled(s)

Skip ==
    /\ Collecting
    /\ ~Enabled(Category[next])
    /\ BeginsWith(next + 1)
    /\ UNCHANGED <<setup, loaded, machine, troubles, phase, content, queue, held>>

\* The sources of the category that were not asked yet.
Unread ==
    SelectSeq(Reads(Category[next], platform, readings), LAMBDA s : s \notin DOMAIN readings)

Asks == Collecting /\ Enabled(Category[next]) /\ Unread # <<>>

Answers(text) == readings' = readings @@ (Unread[1] :> text)

Read ==
    /\ Asks
    /\ Answers(Says(Unread[1], platform, machine, privileged))
    /\ UNCHANGED <<setup, loaded, machine, troubles, phase, next, content, queue,
                   held, began, failed>>

\* The program is not there, fails or prints what is not read.  The one that
\* tells the kind of virtual machine is believed when it fails without a word.
\* The agent's own environment is always there.
ReadFails ==
    /\ Asks
    /\ troubles < MaxTroubles
    /\ Category[next] # "environment"
    /\ Answers(IF Unread[1] = <<"systemd-detect-virt", "">> THEN "" ELSE None)
    /\ troubles' = troubles + 1
    /\ failed' = TRUE
    /\ UNCHANGED <<setup, loaded, machine, phase, next, content, queue, held, began>>

\* All is read: the sections that are enabled get what was found.
Collected ==
    /\ Collecting
    /\ Enabled(Category[next])
    /\ Unread = <<>>
    /\ LET got == {s \in SectionsOf(Category[next]) : is_enabled(s)}
       IN content' = [s \in got |-> Section(s, platform, readings)] @@ content
    /\ BeginsWith(next + 1)
    /\ UNCHANGED <<setup, loaded, machine, troubles, phase, queue, held>>

\* With no server the inventory is printed.
Submitting ==
    /\ phase = "collect" /\ next > Len(Category)
    /\ phase' = IF servers = <<>> THEN "idle" ELSE "submit"
    /\ queue' = servers
    /\ BeginsWith(1)
    /\ UNCHANGED <<setup, loaded, machine, troubles, content, held>>

\* Wrong: the first server that takes it is enough.
Submit_FirstOnly ==
    /\ phase = "submit"
    /\ held' = [held EXCEPT ![queue[1]] = (deviceid(content) :> content) @@ @]
    /\ queue' = <<>>
    /\ phase' = "idle"
    /\ UNCHANGED <<setup, loaded, machine, troubles, next, readings, content, began,
                   failed>>

Submit ==
    /\ phase = "submit"
    /\ held' = [held EXCEPT ![queue[1]] = (deviceid(content) :> content) @@ @]
    /\ queue' = Tail(queue)
    /\ phase' = IF queue' = <<>> THEN "idle" ELSE "submit"
    /\ UNCHANGED <<setup, loaded, machine, troubles, next, readings, content, began,
                   failed>>

\* The first server that does not take it ends the run.
SubmitFails ==
    /\ phase = "submit"
    /\ troubles < MaxTroubles
    /\ troubles' = troubles + 1
    /\ queue' = <<>>
    /\ phase' = "idle"
    /\ UNCHANGED <<setup, loaded, machine, next, readings, content, held, began,
                   failed>>

\* No time bounds a program; someone has to end the run.
Hang ==
    /\ Asks
    /\ Unread[1][1] # "read"
    /\ troubles < MaxTroubles
    /\ troubles' = troubles + 1
    /\ phase' = "hung"
    /\ UNCHANGED <<setup, loaded, machine, next, readings, content, queue, held,
                   began, failed>>

Kill ==
    /\ phase = "hung"
    /\ phase' = "idle"
    /\ UNCHANGED <<setup, loaded, machine, troubles, next, readings, content, queue,
                   held, began, failed>>

\* The machine changes where it is being looked at: anywhere else is the same
\* as before or after.
Change(part) ==
    /\ troubles < MaxTroubles
    /\ Collecting /\ part \in PartsOf(Category[next])
    /\ \E v \in Variants[part] \ {machine[part]} : machine' = [machine EXCEPT ![part] = v]
    /\ troubles' = troubles + 1
    /\ UNCHANGED <<setup, loaded, phase, next, readings, content, queue, held, began,
                   failed>>

Next ==
    \/ StartRun \/ Skip \/ Read \/ ReadFails \/ Collected
    \/ Submitting \/ Submit \/ SubmitFails
    \/ Hang \/ Kill
    \/ \E part \in DOMAIN Variants : Change(part)

Spec == Init /\ [][Next]_vars

\* The run is scheduled again, its own steps are taken, a run that hangs is
\* ended by somebody; failures and changes need not happen.
FairSpec ==
    /\ Spec
    /\ WF_vars(StartRun) /\ WF_vars(Skip) /\ WF_vars(Read) /\ WF_vars(Collected)
    /\ WF_vars(Submitting) /\ WF_vars(Submit) /\ WF_vars(Kill)
-----------------------------------------------------------------------------
\* The setting of the highest layer that has it.
Setting(key) ==
    LET all == layers(source)
        set == {k \in DOMAIN all : key \in DOMAIN all[k]}
    IN IF set = {} THEN <<>> ELSE all[CHOOSE k \in set : \A j \in set : j <= k][key]

Off(section) ==
    \E words \in {Setting("no-category"), args.no_category} :
        \E k \in DOMAIN words : Lower(words[k]) = section

Ends(section) == \E k \in {next} : /\ phase = "collect" /\ k <= Len(Category)
                                   /\ section \in SectionsOf(Category[k])
                                   /\ next' = k + 1

\* A category whose sources all answered about one and the same machine yields
\* everything there is of its kind, with every field the platform tells, and
\* yields nothing exactly if the highest layer that disables categories,
\* or the command line, disables it (collect of each category, task.rs
\* collect, the configuration layers).
Complete ==
    [][\A section \in Sections :
          Ends(section) =>
             IF Off(section) THEN section \notin DOMAIN content'
             ELSE (~failed /\ began = machine) =>
                      content'[section] = Truth(section, platform, machine, privileged)]_vars

Entries(section, c) == IF section = "cpu" THEN ToSet(c[section]) ELSE c[section]

Things(section) ==
    UNION {LET t == Truth(section, platform, m, privileged)
           IN IF section = "cpu" THEN ToSet(t)
              ELSE IF section = "memory" THEN t \cup {memory_from_total_bytes(m.memory.total)}
              ELSE t : m \in {began, machine}}

\* The field that tells the things of a section apart.
Telling(section) ==
    CASE section = "memory" -> "caption"
      [] section = "process" -> "pid"
      [] section = "usb" -> "productid"
      [] section = "user" -> "login"
      [] section = "environment" -> "key"
      [] section \in {"os", "bios", "hardware"} -> "none"
      [] OTHER -> "name"

\* Fields that a source makes up: the processors of macOS are computed from
\* counts asked for one by one, with one socket where hw.packages gives none,
\* and no word of systemd-detect-virt is "Physical".
MadeUp(section, f) ==
    \/ section = "cpu" /\ platform = "macos" /\ (failed \/ began # machine)
    \/ section = "hardware" /\ f = "vm" /\ failed

\* Whatever failed and whatever changed between two answers: a field that is
\* reported was true, when the category began or when it ended, of the thing
\* it is reported of, be it joined from two commands, filled in by a third or
\* taken from a fallback (parse_interfaces, parse_printers, smartctl, sysfs).
NothingInvented ==
    [][\A section \in Sections :
          (Ends(section) /\ section \in DOMAIN content') =>
             \A e \in Entries(section, content') : \A f \in DOMAIN e :
                \/ e[f] = None
                \/ MadeUp(section, f)
                \/ \E t \in Things(section) :
                      /\ Telling(section) = "none" \/ t[Telling(section)] = e[Telling(section)]
                      /\ t[f] = e[f]]_vars

TrueContent ==
    [s \in {s \in Sections : ~Off(s)} |-> Truth(s, platform, machine, privileged)]

TrueDevice ==
    IF args.deviceid # None THEN args.deviceid
    ELSE IF Off("hardware") \/ machine.host = None THEN "glpi-agent" ELSE machine.host

\* When nothing fails and changes any more, every server ends up with the
\* inventory of the machine as it is, under its own name, and keeps it
\* (run_inventory, submit_inventory, main.rs).
ServersCatchUp ==
    Resolves(source) =>
       <>[](\A s \in ToSet(IF args.servers = <<>> THEN Setting("server") ELSE args.servers) :
               TrueDevice \in DOMAIN held[s] /\ held[s][TrueDevice] = TrueContent)
=============================================================================

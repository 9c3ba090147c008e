----------------------------- MODULE MibModules -----------------------------
(***************************************************************************)
(* The MIB modules of the network inventory (glpi-discovery snmp/mib): what *)
(* each of them reads, in which order, and what it makes of the answers.    *)
(*                                                                         *)
(* Columns that are read and stored in the same way stand for each other:   *)
(* two of the ten of ifTable, three of the nine of entPhysicalTable, one of *)
(* the five of prtMarkerSuppliesTable, one each for the remote tables of    *)
(* LLDP and CDP, two strings and the object id of the system group.         *)
(***************************************************************************)
EXTENDS VendorMibs

CONSTANTS
    SysObjectIds    \* sysobject.ids: [sysObjectID -> manufacturer, type and model]

SystemReads == <<
    Get("system", "sysDescr"), Get("system", "sysName"), Get("system", "sysObjectID")>>

IfReads == <<Walk("if", "ifDescr"), Walk("if", "ifPhysAddress")>>

EntityReads == <<
    Walk("entity", "entPhysicalClass"), Walk("entity", "entPhysicalSerialNum"),
    Walk("entity", "entPhysicalModelName")>>

PrinterReads == <<
    Walk("printer", "prtMarkerLifeCount"), Walk("printer", "prtMarkerSupplies"),
    WalkFor("serial", "printer", "prtGeneralSerialNumber")>>

BridgeReads == <<
    Walk("bridge", "dot1dBasePortIfIndex"), Walk("bridge", "dot1dTpFdbStatus"),
    Walk("bridge", "dot1dTpFdbPort")>>

NeighborReads == <<Walk("lldp", "lldpRem"), Walk("cdp", "cdpCache")>>

IpReads == <<Walk("ip", "ipAdEntIfIndex")>>

\* Wrong: the interface table is read after the tables that refer to it.
StandardReads_InterfacesLast ==
    SystemReads \o EntityReads \o PrinterReads \o BridgeReads \o NeighborReads \o IpReads
    \o IfReads

StandardReads ==
    SystemReads \o IfReads \o EntityReads \o PrinterReads \o BridgeReads \o NeighborReads
    \o IpReads

\* The requests of the registered modules, in the order they are made.
Reads == StandardReads \o VendorReads

Columns == {Reads[k].column : k \in 1..Len(Reads)}

NothingRead == [c \in Columns |-> <<>>]

\* Modules run on their devices, ask for a field while it is missing, and take
\* the first answer they get for it.
Needed(k, d, r) ==
    LET request == Reads[k]
        same == {j \in 1..(k - 1) :
                    Reads[j].module = request.module /\ Reads[j].fills = request.fills}
    IN /\ applies_to(request.module, d)
       /\ Prompted(request, r)
       /\ request.fills # None =>
             d[request.fills] = None /\ \A j \in same : FirstText(r, Reads[j].column) = None
-----------------------------------------------------------------------------
SystemMib(d, r) ==
    [d EXCEPT !.description = TextOf(r, "sysDescr"), !.name = TextOf(r, "sysName"),
              !.sys_object_id = ValueAt(r, "sysObjectID", 0)]

IfMib(d, r) ==
    [d EXCEPT !.ports = [i \in DOMAIN r["ifDescr"] \cup DOMAIN r["ifPhysAddress"] |->
        [Port EXCEPT !.descr = ValueAt(r, "ifDescr", i), !.mac = ValueAt(r, "ifPhysAddress", i)]]]

\* The chassis lends the device its identity where it has none, empty or not.
promote_chassis(d, r) ==
    LET chassis == {i \in d.components : ValueAt(r, "entPhysicalClass", i) = "chassis"}
    IN IF chassis = {} THEN d
       ELSE [d EXCEPT !.serial = Fill(@, ValueAt(r, "entPhysicalSerialNum", Min(chassis))),
                      !.model = Fill(@, ValueAt(r, "entPhysicalModelName", Min(chassis)))]

EntityMib(d, r) ==
    promote_chassis(
        [d EXCEPT !.components =
            UNION {DOMAIN r[EntityReads[k].column] : k \in 1..Len(EntityReads)}], r)

\* What a page count or a supply shows to be a printer is one anew: without the
\* page counters of vendors.
PrinterMib(d, r) ==
    LET asked == FillFrom(PrinterReads, {"serial"}, d, r)
        counts == {r["prtMarkerLifeCount"][i] : i \in DOMAIN r["prtMarkerLifeCount"]}
        supplies == DOMAIN r["prtMarkerSupplies"]
    IN IF counts = {} /\ supplies = {} THEN asked
       ELSE [asked EXCEPT !.total_pages = IF counts = {} THEN {} ELSE {Max(counts)},
                          !.supplies = supplies, !.counters = <<>>]

\* The addresses learned on a port; those the agent gives no status for count.
learned_macs(r, i) ==
    {m \in DOMAIN r["dot1dTpFdbPort"] :
        /\ ValueAt(r, "dot1dTpFdbStatus", m) \in {None, "learned"}
        /\ r["dot1dTpFdbPort"][m] \in DOMAIN r["dot1dBasePortIfIndex"]
        /\ r["dot1dBasePortIfIndex"][r["dot1dTpFdbPort"][m]] = i}

IfIndices(r, column) == {r[column][k] : k \in DOMAIN r[column]}

BridgeMib(d, r) ==
    LET learned == {i \in IfIndices(r, "dot1dBasePortIfIndex") : learned_macs(r, i) # {}}
        with(i) == [port_mut(d.ports, i) EXCEPT !.macs = learned_macs(r, i)]
    IN [d EXCEPT !.ports = Or([i \in learned |-> with(i)], @)]

\* A row is a neighbor, if only one of an empty name.
Neighbors(d, r, column) ==
    LET push(p, i) == [p EXCEPT !.neighbors = @ \cup {<<column, r[column][i]>>}]
    IN [d EXCEPT !.ports = Or([i \in DOMAIN r[column] |-> push(port_mut(d.ports, i), i)], @)]

LldpMib(d, r) == Neighbors(d, r, "lldpRem")

CdpMib(d, r) == Neighbors(d, r, "cdpCache")

\* Rows of a loopback address or of none: an interface is not made for these.
Skipped == {127}

IpMib(d, r) ==
    LET index == r["ipAdEntIfIndex"]
        kept == DOMAIN index \ Skipped
        with(i) == [port_mut(d.ports, i) EXCEPT !.ips = {a \in kept : index[a] = i}]
    IN [d EXCEPT !.ports = Or([i \in {index[a] : a \in kept} |-> with(i)], @)]

run(module, d, r) ==
    CASE module = "system" -> SystemMib(d, r)
      [] module = "if" -> IfMib(d, r)
      [] module = "entity" -> EntityMib(d, r)
      [] module = "printer" -> PrinterMib(d, r)
      [] module = "bridge" -> BridgeMib(d, r)
      [] module = "lldp" -> LldpMib(d, r)
      [] module = "cdp" -> CdpMib(d, r)
      [] module = "ip" -> IpMib(d, r)
      [] module = "cisco" -> CiscoMib(d, r)
      [] module = "dell" -> DellMib(d, r)
      [] module = "raritan" -> RaritanMib(d, r)
      [] module = "hp_printer" -> HpPrinterMib(d, r)
      [] module = "brother" -> BrotherMib(d, r)
      [] module = "ricoh" -> RicohMib(d, r)
      [] module = "konica" -> KonicaMib(d, r)
      [] module = "lexmark" -> LexmarkMib(d, r)
      [] module = "dlink" -> DlinkMib(d, r)
      [] module = "foxgate" -> FoxGateMib(d, r)
      [] module = "watchguard" -> WatchGuardMib(d, r)
      [] module = "emc" -> EmcMib(d, r)
      [] module = "hitachi" -> HitachiMib(d, r)
      [] module = "radware" -> RadwareMib(d, r)
      [] module = "rnx" -> RnxMib(d, r)
      [] module = "kyocera" -> KyoceraMib(d, r)
      [] module = "toshiba" -> ToshibaMib(d, r)
      [] module = "zebra" -> ZebraMib(d, r)
      [] module = "hp_citizen" -> HpCitizenMib(d, r)
      [] module = "avaya" -> AvayaMib(d, r)
      [] module = "cisco_ucs" -> CiscoUcsMib(d, r)
      [] module = "akcp" -> AkcpMib(d, r)
      [] module = "ups" -> UpsMib(d, r)
      [] module = "siemens" -> SiemensMib(d, r)
      [] module = "checkpoint" -> CheckPointMib(d, r)
      [] module = "idrac" -> IdracMib(d, r)

\* sysobject.ids classifies what no module has.
classify(d) ==
    IF d.sys_object_id \notin DOMAIN SysObjectIds THEN d
    ELSE [f \in DOMAIN d |->
             IF f \in {"manufacturer", "type", "model"}
             THEN Fill(d[f], SysObjectIds[d.sys_object_id][f]) ELSE d[f]]

IsLast(k) == k = Len(Reads) \/ Reads[k + 1].module # Reads[k].module

\* A module stores its answers into the device once it has made all its requests.
After(k, d, r) ==
    IF IsLast(k) /\ applies_to(Reads[k].module, d) THEN run(Reads[k].module, d, r) ELSE d
-----------------------------------------------------------------------------
\* Nothing a device already has is lost in another one: a field keeps its
\* value, a port keeps its attributes and what has been attached to it.  Of a
\* model only the maker's name may go.
Keeps(d, e) ==
    /\ \A f \in InfoFields :
          \/ d[f] = None
          \/ e[f] = d[f]
          \/ f = "model" /\ e[f] # None /\ e[f] = Unbranded(d[f])
    /\ \A c \in DOMAIN d.counters : c \in DOMAIN e.counters /\ e.counters[c] = d.counters[c]
    /\ \A i \in DOMAIN d.ports :
          /\ i \in DOMAIN e.ports
          /\ \A f \in {"descr", "mac"} :
                d.ports[i][f] # None => e.ports[i][f] = d.ports[i][f]
          /\ \A f \in {"macs", "ips", "neighbors"} : d.ports[i][f] \subseteq e.ports[i][f]
    /\ \A f \in {"components", "total_pages", "supplies", "firmwares", "plugs"} : d[f] \subseteq e[f]
=============================================================================

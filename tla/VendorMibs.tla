----------------------------- MODULE VendorMibs -----------------------------
(***************************************************************************)
(* Vendor MIB modules (glpi-discovery snmp/mib/vendor), in the order they   *)
(* are registered: for each, the requests it makes and what it adds to the  *)
(* device.  Those chosen meet in one device (Cisco and its UCS boards, Dell *)
(* and EMC and iDRAC) or do more than ask for what is missing (printers,    *)
(* power distribution units and supplies, storage, firewalls, phones); the  *)
(* others are one or two requests of the same kind.                         *)
(*                                                                         *)
(* Counters that are read alike stand for each other: Konica's total and    *)
(* prints for its seven, Hewlett-Packard's total and duplex for its three.  *)
(***************************************************************************)
EXTENDS MibDevice

CONSTANTS
    GlpiMajor,      \* major version of the GLPI server, 0 when not known
    StatusIds,      \* the <<key, value>> tokens of each gdStatusId
    Tags            \* the <<tag, value>> pairs in a description or a tagged version

\* sysobjectid_matches: the identifiers in the subtree of each module.
Subtree ==
    [cisco |-> {"cisco"}, dell |-> {"dell.powerconnect"}, raritan |-> {"raritan"},
     hp_printer |-> {"hp.peripheral"}, ricoh |-> {"ricoh"}, konica |-> {"konica"},
     lexmark |-> {"lexmark"}, dlink |-> {"dlink"}, watchguard |-> {"watchguard"},
     emc |-> {"emc", "dell.powerconnect", "dell.idrac"}, hitachi |-> {"hitachi.vsl"},
     kyocera |-> {"kyocera"}, toshiba |-> {"toshiba"}, zebra |-> {"esi", "zebra.general"},
     hp_citizen |-> {"hp.citizen"}, avaya |-> {"avaya.sip"}, cisco_ucs |-> {"cisco"},
     ups |-> {"apc", "ups", "riello"}, checkpoint |-> {"checkpoint"},
     brother |-> {"brother"}, foxgate |-> {"foxgate"}, radware |-> {"alteon"},
     rnx |-> {"rnx"}, akcp |-> {"akcp"}, siemens |-> {"siemens.ad"},
     idrac |-> {"dell.idrac"}]

\* The standard modules apply to every device.
applies_to(module, d) == module \in DOMAIN Subtree => d.sys_object_id \in Subtree[module]

\* The versions among these, each under a name of its own.
Versions(columns, r) ==
    {<<c, TextOf(r, c)>> : c \in {x \in columns : TextOf(r, x) # None}}

\* What a text of keys and values says of a key: an empty value says nothing.
ValueOf(texts, text, key) ==
    LET said == IF text \in DOMAIN texts
                THEN {t \in texts[text] : t[1] = key /\ t[2] # ""} ELSE {}
    IN IF said = {} THEN None ELSE (CHOOSE t \in said : TRUE)[2]
-----------------------------------------------------------------------------
CiscoReads == <<GetFor("serial", "cisco", "chassisId")>>

CiscoMib(d, r) == FillFrom(CiscoReads, {"serial"}, d, r)

DellReads == <<
    GetFor("manufacturer", "dell", "productVendor"),
    GetFor("model", "dell", "productDisplayName"),
    GetFor("firmware", "dell", "productVersion"),
    GetFor("serial", "dell", "productSerialNumber"),
    GetFor("serial", "dell", "os10ChassisPPID")>>

DellMib(d, r) ==
    LET asked == FillFrom(DellReads, {"manufacturer", "model", "firmware", "serial"}, d, r)
    IN [asked EXCEPT !.type = Fill(@, "NETWORKING"), !.manufacturer = Fill(@, "Dell")]

RaritanReads == <<
    GetFor("manufacturer", "raritan", "pduManufacturer"), GetFor("model", "raritan", "pduModel"),
    GetFor("serial", "raritan", "pduSerialNumber"), GetFor("name", "raritan", "pduName"),
    Walk("raritan", "outletLabel"), Walk("raritan", "outletName"),
    Walk("raritan", "outletDescriptor"), Get("raritan", "pduRatedCurrent")>>

\* A server that does not know power distribution units has no type for them.
pdu_type == IF GlpiMajor >= 12 THEN "PDU" ELSE "NETWORKING"

\* walk_column drops empty texts; an outlet without a name has its label's.
\* The label is its number, and where it is none, the row.
outlets(r) ==
    {[label |-> r["outletLabel"][i], row |-> i,
      type |-> Text(ValueAt(r, "outletDescriptor", i)),
      name |-> Fill(Text(ValueAt(r, "outletName", i)), r["outletLabel"][i])] :
        i \in {j \in DOMAIN r["outletLabel"] : r["outletLabel"][j] # ""}}

RaritanMib(d, r) ==
    LET asked == FillFrom(RaritanReads, {"manufacturer", "model", "serial", "name"}, d, r)
        typed == [asked EXCEPT !.type = Fill(@, pdu_type), !.manufacturer = Fill(@, "Raritan")]
    IN IF pdu_type # "PDU" THEN typed
       ELSE [typed EXCEPT !.plugs = IF outlets(r) = {} THEN @ ELSE outlets(r),
                          !.pdu_model = Fill(TextOf(r, "pduRatedCurrent"), @)]
-----------------------------------------------------------------------------
HpPrinterReads == <<
    Get("hp_printer", "gdStatusId"), GetFor("model", "hp_printer", "modelName"),
    GetFor("serial", "hp_printer", "serialNumber"), GetFor("firmware", "hp_printer", "fwRom"),
    Get("hp_printer", "totalEnginePageCount"), Get("hp_printer", "duplexPageCount")>>

StatusKey == [model |-> "MODEL", serial |-> "SN", firmware |-> "FW"]

\* What the status summary says of a field.
parse_status_id(field, r) ==
    ValueOf(StatusIds, TextOf(r, "gdStatusId"), StatusKey[field])

\* What the summary says is preferred to what the device answers elsewhere.
HpPrinterMib(d, r) ==
    LET fields == DOMAIN StatusKey
        summary == [f \in DOMAIN d |->
                       IF f \in fields THEN Fill(d[f], parse_status_id(f, r)) ELSE d[f]]
        counted == Numbers([total |-> "totalEnginePageCount",
                            rectoverso |-> "duplexPageCount"], r)
    IN [FillFrom(HpPrinterReads, fields, summary, r) EXCEPT
            !.type = Fill(@, "PRINTER"), !.manufacturer = Fill(@, "Hewlett-Packard"),
            !.counters = Or(@, counted)]

BrotherReads == <<
    GetFor("serial", "brother", "brInfoSerialNumber"),
    GetFor("firmware", "brother", "brpsMainRevision"), Get("brother", "brpsServerDescription"),
    Get("brother", "brScanCountCounter")>>

\* What follows the maker's name in front of a text; None if it is not there.
Unbranded(text) == ValueOf(Tags, text, "Brother")

\* Without a description of its own, it takes the maker's name off a model.
BrotherMib(d, r) ==
    LET described == Unbranded(TextOf(r, "brpsServerDescription"))
    IN [FillFrom(BrotherReads, {"serial", "firmware"}, d, r) EXCEPT
            !.manufacturer = Fill(@, IF described = None THEN None ELSE "Brother"),
            !.model = IF described = None THEN Fill(Unbranded(@), @) ELSE Fill(@, described),
            !.counters = Or(@, Numbers([scanned |-> "brScanCountCounter"], r))]

RicohReads == <<
    GetFor("model", "ricoh", "prtGeneralPrinterName"), Walk("ricoh", "ricohEngCounterType"),
    Walk("ricoh", "ricohEngCounterValue")>>

counter_for(code) ==
    CASE code = 10 -> "total"
      [] code = 200 -> "copy_total"
      [] code = 201 -> "copy_black"
      [] code \in {202, 203} -> "copy_color"
      [] code = 300 -> "fax_total"
      [] code = 400 -> "print_total"
      [] code = 401 -> "print_black"
      [] code \in {402, 403} -> "print_color"
      [] code \in {870, 871} -> "scanned"
      [] OTHER -> None

\* Counters that several types are added up in; of another, the last row counts.
Accumulated == {"copy_color", "print_color", "scanned"}

RicohMib(d, r) ==
    LET types == r["ricohEngCounterType"]
        values == r["ricohEngCounterValue"]
        counted == {i \in DOMAIN types \cap DOMAIN values : counter_for(types[i]) # None}
        rows(c) == {i \in counted : counter_for(types[i]) = c}
        before(c) == IF c \in DOMAIN d.counters THEN d.counters[c] ELSE 0
        total(c) == IF c \in Accumulated
                    THEN before(c) + MapThenSumSet(LAMBDA i : values[i], rows(c))
                    ELSE values[Max(rows(c))]
    IN [FillFrom(RicohReads, {"model"}, d, r) EXCEPT
            !.counters = Or([c \in {counter_for(types[i]) : i \in counted} |-> total(c)], @)]

KonicaReads == <<
    GetFor("model", "konica", "konicaModel"), Get("konica", "konicaTotal"),
    Get("konica", "konicaBlackPrint"), Get("konica", "konicaColorPrint"),
    Walk("konica", "konicaFirmwareName"), Walk("konica", "konicaFirmwareVersion")>>

\* Slots without a name or a version, and those with a placeholder, are left out.
read_firmwares(r) ==
    LET names == r["konicaFirmwareName"]
        versions == r["konicaFirmwareVersion"]
    IN {<<names[i], versions[i]>> :
            i \in {j \in DOMAIN names \cap DOMAIN versions :
                      names[j] # "" /\ versions[j] \notin {"", "-", "Registered"}}}

\* The total of the prints is derived from what this module has read of them.
KonicaMib(d, r) ==
    LET read == Numbers([total |-> "konicaTotal", print_black |-> "konicaBlackPrint",
                         print_color |-> "konicaColorPrint"], r)
        prints == DOMAIN read \cap {"print_black", "print_color"}
        derived == [c \in IF prints = {} THEN {} ELSE {"print_total"} |->
                       MapThenSumSet(LAMBDA p : read[p], prints)]
    IN [FillFrom(KonicaReads, {"model"}, d, r) EXCEPT
            !.counters = Or(Or(@, read), derived),
            !.firmwares = @ \cup read_firmwares(r)]

LexmarkReads == <<
    GetFor("model", "lexmark", "deviceModel"), GetFor("model", "lexmark", "prtgenPrinterName"),
    GetFor("model", "lexmark", "hrDeviceDescr"),
    GetFor("firmware", "lexmark", "swInventoryRevision"),
    GetFor("firmware", "lexmark", "prtgenCodeRevision"),
    GetFor("serial", "lexmark", "prtGeneralSerialNumber.1"),
    GetFor("serial", "lexmark", "deviceSerial"), GetFor("serial", "lexmark", "prtgenSerialNo")>>

\* A description that does not begin with the name of the vendor.
Foreign == "another description"

\* lexmark_from_descr: only a description of the vendor's has the model in it.
LexmarkMib(d, r) ==
    LET named == IF TextOf(r, "hrDeviceDescr") = Foreign
                 THEN [r EXCEPT !["hrDeviceDescr"] = <<>>] ELSE r
    IN FillFrom(LexmarkReads, {"model", "firmware", "serial"}, d, named)
-----------------------------------------------------------------------------
DlinkReads == <<
    GetFor("firmware", "dlink", "dlinkFirmware"), GetFor("serial", "dlink", "dlinkSerial"),
    GetFor("name", "dlink", "dlinkHostname"), Get("dlink", "dlinkHardware")>>

DlinkMib(d, r) ==
    [FillFrom(DlinkReads, {"firmware", "serial", "name"}, d, r) EXCEPT
        !.type = Fill(@, "NETWORKING"), !.manufacturer = Fill(@, "D-Link"),
        !.firmwares = @ \cup Versions({"dlinkHardware"}, r)]

FoxGateReads == <<
    GetFor("firmware", "foxgate", "sysSoftwareVersion"), Get("foxgate", "ntpEntSoftwareName")>>

\* Its description has a line for each of the rest (field_after).
FoxGateMib(d, r) ==
    LET line(label) == ValueOf(Tags, d.description, label)
        boards == {<<label, line(label)>> : label \in {"BootRom Version", "HardWare Version"}}
    IN [FillFrom(FoxGateReads, {"firmware"}, d, r) EXCEPT
            !.manufacturer = Fill(@, "FoxGate"),
            !.serial = Fill(@, line("Device serial number")),
            !.model = Fill(@, Fill(TextOf(r, "ntpEntSoftwareName"), line("Device"))),
            !.firmwares = @ \cup {b \in boards : b[2] # None}]

WatchGuardReads == <<
    Get("watchguard", "wgSoftwareVersion"), Get("watchguard", "wgInfoGavService"),
    Get("watchguard", "wgInfoIpsService")>>

extract_tag(column, tag, r) == ValueOf(Tags, TextOf(r, column), tag)

\* Two systems have their versions in one text: the first is the device's.
WatchGuardMib(d, r) ==
    LET found == {<<p[2], extract_tag(p[1], p[2], r)>> :
                     p \in {<<"wgSoftwareVersion", "sysb">>,
                            <<"wgInfoGavService", "gav_version">>,
                            <<"wgInfoIpsService", "ips_version">>}}
    IN [d EXCEPT !.manufacturer = Fill(@, "WatchGuard"),
                 !.firmware = Fill(@, extract_tag("wgSoftwareVersion", "sysa", r)),
                 !.firmwares = @ \cup {f \in found : f[2] # None}]

EmcReads == <<Walk("emc", "connUnitId"), GetFor("serial", "emc", "connUnitSn"),
              GetFor("model", "emc", "connUnitProduct")>>

\* EMC does not pass its serial through get_string.
EmcMib(d, r) ==
    IF r["connUnitId"] = <<>> THEN d
    ELSE [FillFrom(EmcReads, {"model"}, d, r) EXCEPT
             !.type = Fill(@, "NETWORKING"), !.serial = Fill(@, ValueAt(r, "connUnitSn", 0))]

\* The row walked to is asked for again: raidSerial is the first of raidListSerial.
HitachiReads == <<
    Walk("hitachi", "raidListSerial"), GetFor("serial", "hitachi", "raidSerial"),
    GetFor("firmware", "hitachi", "raidFirmware"), Get("hitachi", "raidModel")>>

\* Models that begin with VSP, which are storage.
VspModels == {"VSP"}

HitachiMib(d, r) ==
    IF r["raidListSerial"] = <<>> THEN d
    ELSE LET model == TextOf(r, "raidModel")
         IN [FillFrom(HitachiReads, {"serial", "firmware"}, d, r) EXCEPT
                !.manufacturer = Fill(@, "Hitachi Vantara"), !.model = Fill(@, model),
                !.type = Fill(@, IF model \in VspModels THEN "STORAGE" ELSE "NETWORKING")]

RadwareReads == <<
    GetFor("firmware", "radware", "hwPLDFirmwareVersion"),
    GetFor("model", "radware", "agPlatformIdentifier"),
    GetFor("serial", "radware", "hwSerialNumber"), Get("radware", "hwMainBoardNumber"),
    Get("radware", "hwMainBoardRevision"), Get("radware", "hwVersion")>>

\* A main board is recorded when both its number and its revision are known.
RadwareMib(d, r) ==
    LET platform == first_of(RadwareReads, "model", r)
        board == <<TextOf(r, "hwMainBoardNumber"), TextOf(r, "hwMainBoardRevision")>>
    IN [FillFrom(RadwareReads, {"firmware", "serial"}, d, r) EXCEPT
            !.manufacturer = Fill(@, "Radware"),
            !.model = Fill(@, IF platform = None THEN None ELSE "Alteon " \o platform),
            !.firmwares = @ \cup {b \in {board} : b[1] # None /\ b[2] # None}
                            \cup Versions({"hwVersion"}, r)]

RnxReads == <<
    GetFor("serial", "rnx", "upduSerialNumber"), GetFor("firmware", "rnx", "upduIcmFirmware"),
    Walk("rnx", "upduSystemName"), Walk("rnx", "upduCustomName"), Walk("rnx", "upduRating"),
    Get("rnx", "upduPartNumber")>>

connector_type(rating) ==
    CASE rating = "10 A" -> "C13" [] rating = "16 A" -> "C19" [] OTHER -> "unknown"

\* An outlet is one that has a system name; the custom name is preferred.
rnx_outlets(r) ==
    {[row |-> i, name |-> Fill(Text(ValueAt(r, "upduCustomName", i)), r["upduSystemName"][i]),
      type |-> connector_type(ValueAt(r, "upduRating", i))] :
        i \in {j \in DOMAIN r["upduSystemName"] : r["upduSystemName"][j] # ""}}

RnxMib(d, r) ==
    LET typed == [FillFrom(RnxReads, {"serial", "firmware"}, d, r) EXCEPT
                     !.type = Fill(@, pdu_type), !.manufacturer = Fill(@, "RNX"),
                     !.model = Fill(@, ValueOf(Tags, d.description, "RNX"))]
    IN IF pdu_type # "PDU" THEN typed
       ELSE [typed EXCEPT !.plugs = IF rnx_outlets(r) = {} THEN @ ELSE rnx_outlets(r),
                          !.pdu_model = Fill(TextOf(r, "upduPartNumber"), @)]

KyoceraReads == <<GetFor("name", "kyocera", "kyoceraSysName")>>

KyoceraMib(d, r) == FillFrom(KyoceraReads, {"name"}, d, r)

ToshibaReads == <<
    GetFor("serial", "toshiba", "bcpProductNumber"), GetFor("model", "toshiba", "bcpDeviceModel"),
    Get("toshiba", "bcpProductVersion"), Get("toshiba", "bcpDeviceBootVersion")>>

ToshibaMib(d, r) ==
    [FillFrom(ToshibaReads, {"serial", "model"}, d, r) EXCEPT
        !.firmwares = @ \cup Versions({"bcpProductVersion", "bcpDeviceBootVersion"}, r)]

ZebraReads == <<
    Get("zebra", "zbrCompanyName"), GetFor("name", "zebra", "zbrName"),
    GetFor("serial", "zebra", "zbrUniqueId"), GetFor("serial", "zebra", "serial3"),
    GetFor("serial", "zebra", "esiSerial"), GetFor("model", "zebra", "model1"),
    GetFor("model", "zebra", "model2"), GetFor("model", "zebra", "model3"),
    GetFor("firmware", "zebra", "zbrFirmwareVersion"), GetFor("firmware", "zebra", "esiFw2"),
    Get("zebra", "zbrLinkosVersion")>>

ZebraMib(d, r) ==
    [FillFrom(ZebraReads, {"name", "serial", "model", "firmware"}, d, r) EXCEPT
        !.manufacturer = Fill(@, Fill(TextOf(r, "zbrCompanyName"), "Zebra Technologies")),
        !.firmwares = @ \cup Versions({"zbrLinkosVersion"}, r)]

HpCitizenReads == <<
    Get("hp_citizen", "hpManufacturer"), GetFor("firmware", "hp_citizen", "hpVersion"),
    GetFor("serial", "hp_citizen", "hpSerialNumber"), Get("hp_citizen", "hpProduct"),
    Get("hp_citizen", "hpHWVersion"), Get("hp_citizen", "hpROMVersion")>>

\* The versions are recorded under the product, which has to be known.
HpCitizenMib(d, r) ==
    LET made == Fill(TextOf(r, "hpManufacturer"), "HP")
        versions == Versions({"hpHWVersion", "hpROMVersion"}, r) \ {<<"hpROMVersion", "null">>}
    IN [FillFrom(HpCitizenReads, {"firmware", "serial"}, d, r) EXCEPT
            !.type = Fill(@, "STORAGE"),
            !.manufacturer = Fill(@, IF made = "HP" THEN "Hewlett-Packard" ELSE made),
            !.model = Fill(@, TextOf(r, "hpProduct")),
            !.firmwares = @ \cup IF TextOf(r, "hpProduct") = None THEN {} ELSE versions]

AvayaReads == <<
    GetFor("firmware", "avaya", "endptAppInUse"), GetFor("model", "avaya", "endptModel"),
    GetFor("serial", "avaya", "endptPhoneSn"), Get("avaya", "endptDspVersion"),
    Get("avaya", "endptHwVer"), Get("avaya", "endptOpensslVersion"),
    Get("avaya", "endptOpensshVersion")>>

AvayaMib(d, r) ==
    [FillFrom(AvayaReads, {"firmware", "model", "serial"}, d, r) EXCEPT
        !.type = Fill(@, "NETWORKING"),
        !.firmwares = @ \cup Versions({"endptDspVersion", "endptHwVer", "endptOpensslVersion",
                                       "endptOpensshVersion"}, r)]
-----------------------------------------------------------------------------
CiscoUcsReads == <<
    Get("cisco_ucs", "cucsBoardDn"), GetFor("model", "cisco_ucs", "cucsBoardModel"),
    GetFor("serial", "cisco_ucs", "cucsBoardSerial")>>

CiscoUcsMib(d, r) == FillFrom(CiscoUcsReads, {"model", "serial"}, d, r)

AkcpReads == <<
    GetFor("name", "akcp", "cfgSystemName"), GetFor("serial", "akcp", "sensorProbeMAC"),
    Get("akcp", "cfgSystemDescription")>>

\* The serial is a MAC address, if it is one (mac_dashes).
AkcpMib(d, r) ==
    LET word(tag) == ValueOf(Tags, TextOf(r, "cfgSystemDescription"), tag)
    IN [FillFrom(AkcpReads, {"name"}, d, r) EXCEPT
            !.type = Fill(@, "NETWORKING"), !.manufacturer = Fill(@, "AKCP"),
            !.serial = Fill(@, ValueOf(Tags, TextOf(r, "sensorProbeMAC"), "MAC")),
            !.model = Fill(@, word("model")), !.firmware = Fill(@, word("version"))]

UpsReads == <<
    GetFor("manufacturer", "ups", "rupsIdentManufacturer"),
    GetFor("manufacturer", "ups", "upsIdentManufacturer"),
    GetFor("model", "ups", "rupsIdentModel"), GetFor("model", "ups", "upsIdentModel"),
    GetFor("model", "ups", "spduIdentModel"), GetFor("serial", "ups", "upsAdvIdentSerial"),
    GetFor("serial", "ups", "spduIdentSerial"), GetFor("firmware", "ups", "rupsIdentSoftware"),
    GetFor("firmware", "ups", "upsIdentSoftware"), GetFor("firmware", "ups", "spduIdentFirmware")>>

UpsMib(d, r) ==
    LET asked == FillFrom(UpsReads, {"manufacturer", "model", "serial", "firmware"}, d, r)
    IN [asked EXCEPT !.type = Fill(@, "NETWORKING")]

SiemensReads == <<
    GetFor("model", "siemens", "snInfoMLFBNr"), GetFor("model", "siemens", "moduleMLFB"),
    Get("siemens", "snInfoSerialNr"), Get("siemens", "moduleSerial"),
    GetFor("firmware", "siemens", "snSwVersion"), GetFor("firmware", "siemens", "moduleFirmware"),
    GetFor("name", "siemens", "snAsiLinkPnioDeviceName")>>

model_for_mlfb(mlfb) ==
    CASE mlfb = None -> None
      [] mlfb = "6GK1 411-2AB10" -> "IE/AS-i LINK PN IO"
      [] mlfb = "6GK7 343-1CX10-0XE0" -> "CP 343-1 Lean"
      [] mlfb = "6ES7 318-3EL01-0AB0" -> "CPU319-3 PN/DP"
      [] OTHER -> "Siemens module " \o mlfb

\* A serial that is "not set" is none, and the other column is not asked for it.
\* A module without a name is named by its serial.
SiemensMib(d, r) ==
    LET read == Fill(TextOf(r, "snInfoSerialNr"), TextOf(r, "moduleSerial"))
        serial == IF read = "not set" THEN None ELSE read
        model == model_for_mlfb(first_of(SiemensReads, "model", r))
        asked == FillFrom(SiemensReads, {"firmware", "name"}, d, r)
    IN [asked EXCEPT !.manufacturer = Fill(@, "Siemens"), !.model = Fill(@, model),
                     !.name = Fill(@, serial), !.serial = Fill(@, serial)]

CheckPointReads == <<
    Get("checkpoint", "svnApplianceManufacturer"),
    GetFor("serial", "checkpoint", "svnApplianceSerial"),
    GetFor("model", "checkpoint", "svnApplianceModel"),
    GetFor("firmware", "checkpoint", "svnVersion"), Get("checkpoint", "svnBuild"),
    Get("checkpoint", "svnProdVerMajor"), Get("checkpoint", "svnProdVerMinor"),
    Get("checkpoint", "svnProdName"), Get("checkpoint", "osMajorVer"),
    Get("checkpoint", "osMinorVer"), Get("checkpoint", "osName")>>

\* The second half of a version may be missing, but not the first.  A build
\* follows its version likewise, with other words between them.
version_pair(major, minor, r) ==
    IF TextOf(r, major) = None THEN None
    ELSE TextOf(r, major) \o "." \o IF TextOf(r, minor) = None THEN "" ELSE TextOf(r, minor)

CheckPointMib(d, r) ==
    LET product == version_pair("svnProdVerMajor", "svnProdVerMinor", r)
        system == version_pair("osMajorVer", "osMinorVer", r)
        found == {<<TextOf(r, "svnProdName"), product>>, <<TextOf(r, "osName"), system>>}
    IN [FillFrom(CheckPointReads, {"serial", "model"}, d, r) EXCEPT
            !.manufacturer = Fill(@, TextOf(r, "svnApplianceManufacturer")),
            !.firmware = Fill(@, version_pair("svnVersion", "svnBuild", r)),
            !.firmwares = @ \cup {f \in found : f[2] # None}]

IdracReads == <<GetFor("serial", "idrac", "idracSerial")>>

IdracMib(d, r) == FillFrom(IdracReads, {"serial"}, d, r)
-----------------------------------------------------------------------------
VendorReads ==
    CiscoReads \o DellReads \o RaritanReads \o HpPrinterReads \o BrotherReads \o RicohReads
    \o KonicaReads \o LexmarkReads \o DlinkReads \o FoxGateReads \o WatchGuardReads
    \o EmcReads \o HitachiReads \o RadwareReads \o RnxReads \o KyoceraReads \o ToshibaReads
    \o ZebraReads \o HpCitizenReads \o AvayaReads \o CiscoUcsReads \o AkcpReads \o UpsReads
    \o SiemensReads \o CheckPointReads \o IdracReads

\* Requests that depend on what the same module has read before.
Prompted(request, r) ==
    LET column == request.column IN
    CASE column \in {"modelName", "serialNumber", "fwRom"} ->
            parse_status_id(request.fills, r) = None
      [] column = "ricohEngCounterValue" -> r["ricohEngCounterType"] # <<>>
      [] column \in {"connUnitSn", "connUnitProduct"} -> r["connUnitId"] # <<>>
      [] column \in {"raidSerial", "raidFirmware", "raidModel"} -> r["raidListSerial"] # <<>>
      [] column \in {"rupsIdentManufacturer", "rupsIdentModel", "rupsIdentSoftware"} ->
            ValueAt(r, "sysObjectID", 0) = "riello"
      [] column = "svnBuild" -> TextOf(r, "svnVersion") # None
      [] column \in {"svnProdVerMinor", "svnProdName"} -> TextOf(r, "svnProdVerMajor") # None
      [] column \in {"osMinorVer", "osName"} -> TextOf(r, "osMajorVer") # None
      [] column \in {"hpHWVersion", "hpROMVersion"} -> TextOf(r, "hpProduct") # None
      [] column \in {"cucsBoardModel", "cucsBoardSerial"} -> TextOf(r, "cucsBoardDn") # None
      [] column = "moduleSerial" -> TextOf(r, "snInfoSerialNr") = None
      [] column \in {"outletLabel", "outletName", "outletDescriptor", "pduRatedCurrent",
                     "upduSystemName", "upduCustomName", "upduRating", "upduPartNumber"} -> pdu_type = "PDU"
      [] OTHER -> TRUE
=============================================================================

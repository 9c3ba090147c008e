-------------------------- MODULE MCSnmpInventory --------------------------
(* Devices that several modules meet in, or whose answers fall short: a      *)
(* switch that Dell and EMC both know, servers with an empty chassis serial  *)
(* number or description, a Cisco board, printers with and without a status  *)
(* summary, power distribution units and supplies, storage, firewalls whose  *)
(* versions come in pairs or under tags, a phone, and devices that describe  *)
(* themselves in a text that is taken apart.                                *)
EXTENDS SnmpInventory, TLC

\* Encryption without authentication is refused; an algorithm without its
\* passphrase makes a session without authentication.
MCCredentials ==
    <<[version |-> "3", set |-> {"username", "priv_protocol", "priv_password"}],
      [version |-> "3", set |-> {"username", "auth_protocol"}],
      [version |-> "3", set |-> {"username", "auth_protocol", "auth_password"}],
      v2c>>

Empty == [c \in Columns |-> <<>>]

Described(id) == [Empty EXCEPT !["sysDescr"] = (0 :> "device"), !["sysObjectID"] = (0 :> id)]

\* The first slot of the Konica's firmware table is not populated.
printer == [Described("hp.peripheral") EXCEPT
    !["ifDescr"] = (1 :> "eth0"), !["entPhysicalClass"] = (1 :> "module"),
    !["prtMarkerLifeCount"] = (1 :> 6) @@ (2 :> 8),
    !["prtMarkerSupplies"] = (1 :> "toner") @@ (2 :> "toner"),
    !["prtGeneralSerialNumber"] = (1 :> "P1"), !["gdStatusId"] = (0 :> "model and serial"),
    !["modelName"] = (0 :> "L"), !["fwRom"] = (0 :> "F1"),
    !["totalEnginePageCount"] = (0 :> 7)]

copier == [Described("ricoh") EXCEPT
    !["prtGeneralPrinterName"] = (0 :> "R"),
    !["ricohEngCounterType"] = (1 :> 10) @@ (2 :> 402) @@ (3 :> 403) @@ (4 :> 870) @@ (5 :> 99),
    !["ricohEngCounterValue"] = (1 :> 9) @@ (2 :> 2) @@ (3 :> 3) @@ (5 :> 1)]

multifunction == [Described("konica") EXCEPT
    !["konicaModel"] = (0 :> "K"), !["konicaBlackPrint"] = (0 :> 4),
    !["konicaColorPrint"] = (0 :> 4),
    !["konicaFirmwareName"] = (1 :> "engine") @@ (2 :> "panel") @@ (3 :> "fax"),
    !["konicaFirmwareVersion"] = (1 :> "-") @@ (2 :> "1.0")]

laser == [Described("lexmark") EXCEPT
    !["hrDeviceDescr"] = (0 :> Foreign), !["swInventoryRevision"] = (0 :> ""),
    !["prtgenCodeRevision"] = (0 :> "F2"), !["deviceSerial"] = (0 :> "X1")]

switch == [Described("dell.powerconnect") EXCEPT
    !["ifDescr"] = (1 :> "port 1"), !["ifPhysAddress"] = (1 :> "mac 1") @@ (2 :> "mac 2"),
    !["entPhysicalClass"] = (1 :> "module") @@ (2 :> "chassis"),
    !["entPhysicalSerialNum"] = (1 :> "M1") @@ (2 :> "C2"),
    !["dot1dBasePortIfIndex"] = (1 :> 2), !["dot1dTpFdbStatus"] = (7 :> "self"),
    !["dot1dTpFdbPort"] = (7 :> 1) @@ (8 :> 1),
    !["lldpRem"] = (1 :> "router") @@ (2 :> ""), !["cdpCache"] = (1 :> "router"),
    !["ipAdEntIfIndex"] = (10 :> 3) @@ (127 :> 4), !["productVersion"] = (0 :> "F3"),
    !["connUnitId"] = (1 :> "unit"), !["connUnitSn"] = (0 :> "E1"),
    !["connUnitProduct"] = (0 :> "E")]

server == [Described("dell.idrac") EXCEPT
    !["entPhysicalClass"] = (1 :> "chassis"), !["entPhysicalSerialNum"] = (1 :> ""),
    !["idracSerial"] = (0 :> "I1")]

controller == [Described("dell.idrac") EXCEPT
    !["sysDescr"] = (0 :> ""), !["connUnitId"] = (1 :> "unit"), !["idracSerial"] = (0 :> "I2")]

board == [Described("cisco") EXCEPT
    !["chassisId"] = (0 :> ""), !["cucsBoardDn"] = (0 :> "board"),
    !["cucsBoardModel"] = (0 :> "U"), !["cucsBoardSerial"] = (0 :> "U1")]

pdu == [Described("raritan") EXCEPT
    !["pduModel"] = (0 :> "PX"), !["outletLabel"] = (1 :> "1") @@ (2 :> "2") @@ (3 :> ""),
    !["outletName"] = (1 :> "rack"), !["outletDescriptor"] = (1 :> "C13"), !["pduRatedCurrent"] = (0 :> "16 A")]

storage == [Described("hp.citizen") EXCEPT
    !["hpManufacturer"] = (0 :> "HP"), !["hpProduct"] = (0 :> "S"),
    !["hpSerialNumber"] = (0 :> "S1"), !["hpHWVersion"] = (0 :> "2"),
    !["hpROMVersion"] = (0 :> "null")]

scanner == [Described("toshiba") EXCEPT
    !["bcpProductNumber"] = (0 :> "T1"), !["bcpProductVersion"] = (0 :> "V1")]

\* It has a name of its own besides the one of its system group.
duplicator == [Described("kyocera") EXCEPT
    !["sysName"] = (0 :> "N"), !["kyoceraSysName"] = (0 :> "KM")]

\* Its name is its own where the system group has none.
desk_switch == [Described("dlink") EXCEPT
    !["sysName"] = (0 :> ""), !["dlinkHostname"] = (0 :> "D"), !["dlinkHardware"] = (0 :> "B1")]

firewall == [Described("watchguard") EXCEPT
    !["wgSoftwareVersion"] = (0 :> "a and b"), !["wgInfoGavService"] = (0 :> "gav")]

array == [Described("hitachi.vsl") EXCEPT
    !["raidListSerial"] = (1 :> "H1"), !["raidSerial"] = (0 :> "H1"), !["raidModel"] = (0 :> "VSP")]

label_printer == [Described("esi") EXCEPT
    !["prtGeneralSerialNumber"] = (1 :> ""), !["serial3"] = (0 :> "Z3"),
    !["esiSerial"] = (0 :> "Z1"), !["model2"] = (0 :> "ZT"), !["zbrLinkosVersion"] = (0 :> "6")]

phone == [Described("avaya.sip") EXCEPT
    !["endptModel"] = (0 :> "J169"), !["endptHwVer"] = (0 :> "4")]

\* It answers for the standard's columns what it does not answer for its own.
power_supply == [Described("riello") EXCEPT
    !["rupsIdentModel"] = (0 :> ""), !["upsIdentModel"] = (0 :> "R"),
    !["rupsIdentSoftware"] = (0 :> "F4"), !["upsIdentSoftware"] = (0 :> "F5")]

gateway == [Described("checkpoint") EXCEPT
    !["svnVersion"] = (0 :> "R81"), !["svnBuild"] = (0 :> "392"), !["osMajorVer"] = (0 :> "3")]

\* The chassis has a model, with the maker's name in front.
fax == [Described("brother") EXCEPT
    !["entPhysicalClass"] = (1 :> "chassis"), !["entPhysicalModelName"] = (1 :> "Brother MFC"),
    !["brScanCountCounter"] = (0 :> 3)]

edge_switch == [Described("foxgate") EXCEPT
    !["sysDescr"] = (0 :> "S6424"), !["sysSoftwareVersion"] = (0 :> "7.0")]

balancer == [Described("alteon") EXCEPT
    !["agPlatformIdentifier"] = (0 :> "5208"), !["hwMainBoardNumber"] = (0 :> "M2"),
    !["hwVersion"] = (0 :> "1.1")]

\* Its second outlet has a custom name and no system name.
outlet_strip == [Described("rnx") EXCEPT
    !["sysDescr"] = (0 :> "RNX UPDU"), !["upduSystemName"] = (1 :> "outlet 1") @@ (3 :> "outlet 3"),
    !["upduCustomName"] = (1 :> "router") @@ (2 :> "disk"), !["upduRating"] = (1 :> "10 A")]

probe == [Described("akcp") EXCEPT
    !["sensorProbeMAC"] = (0 :> "not a MAC"), !["cfgSystemDescription"] = (0 :> "probe 5")]

controller_module == [Described("siemens.ad") EXCEPT
    !["snInfoMLFBNr"] = (0 :> ""), !["moduleMLFB"] = (0 :> "6ZZ1"),
    !["moduleSerial"] = (0 :> "S2")]

MCContents == {printer, copier, multifunction, laser, switch, server, controller, board, pdu,
               storage, scanner, duplicator, desk_switch, firewall, array, label_printer, phone,
               power_supply, gateway, fax, edge_switch, balancer, outlet_strip, probe,
               controller_module}

MCSysObjectIds ==
    LET entry(maker, type) == [manufacturer |-> maker, type |-> type, model |-> None]
    IN ("hp.peripheral" :> entry("HP", "PRINTER")) @@ ("ricoh" :> entry("Ricoh", "PRINTER"))
       @@ ("dell.idrac" :> entry("Dell", "STORAGE"))

MCTags ==
    ("a and b" :> {<<"sysa", "12.5.2">>, <<"sysb", "12.5.1">>})
    @@ ("gav" :> {<<"gav_version", "">>}) @@ ("Brother MFC" :> {<<"Brother", "MFC">>})
    @@ ("S6424" :> {<<"Device", "S6424">>, <<"BootRom Version", "1.1">>})
    @@ ("RNX UPDU" :> {<<"RNX", "UPDU">>}) @@ ("probe 5" :> {<<"model", "probe 5">>})

MCStatusIds == "model and serial" :> {<<"MODEL", "LaserJet">>, <<"SN", "P2">>, <<"FW", "">>}
=============================================================================

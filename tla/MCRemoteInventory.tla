------------------------- MODULE MCRemoteInventory -------------------------
(* Three targets over two permits: a Debian machine, named twice and reached *)
(* by an address that is not its short name, and an RPM one that is asked    *)
(* for its full name, in perl mode, and may be reinstalled.                  *)
EXTENDS RemoteInventory, TLC

CONSTANTS deb, rpm, gone

MCHostOf == <<deb, rpm, deb>>

MCInstalled ==
    (deb :> {"hostname", "dpkg", "ip link", "ip addr"}) @@
    (rpm :> {"hostname -f", "hostfqdn", "hostname", "can_run", "rpm", "ip link", "ip addr"})
MCPerl == (deb :> FALSE) @@ (rpm :> TRUE)
MCAssetname == (deb :> "short") @@ (rpm :> "fqdn")
MCFqdnName == (deb :> "deb.corp") @@ (rpm :> "rpm.corp")
MCHostName == (deb :> "srv-deb") @@ (rpm :> "srv-rpm")
MCUrlHost == (deb :> "10.0.0.1") @@ (rpm :> "srv-rpm")
MCDevice == {"", "srv-deb", "deb.corp", "srv-rpm", "rpm.corp", "10.0.0.1"}
MCFileOf == [d \in MCDevice |-> d]
MCChecksum == [v \in Value |-> v]
=============================================================================

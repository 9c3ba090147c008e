--------------------------- MODULE MCEsxInventory ---------------------------
(* A host with its name next to one that reports no number of packages, and *)
(* two without any name, with one machine each way to move.                 *)
EXTENDS EsxInventory

MCHypervisor == {"host-1", "host-2"}
MCVm == {"vm-1"}
MCDevice == {"esx1", "uuid2", EsxHost}

Props(name, uuid, model, packages, cores) ==
    [name |-> name, uuid |-> uuid, model |-> model, packages |-> packages, cores |-> cores]

MCIdentities ==
    {[h \in MCHypervisor |-> IF h = "host-1" THEN Props("esx1", "uuid2", "known", 2, 5)
                             ELSE Props(None, "uuid2", "known", 0, 4)],
     [h \in MCHypervisor |-> Props(None, None, None, 0, 1)]}

MCVersion == <<10, 0, 17>>
=============================================================================

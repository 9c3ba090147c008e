-------------------------- MODULE MCDeltaInventory --------------------------
(* Two sections, two values, two servers: small instances of DeltaInventory. *)
EXTENDS DeltaInventory, TLC

CONSTANTS cpus, softwares, v1, v2, d1, d2, gone

MCChecksum == (v1 :> d1) @@ (v2 :> d2)

Inventory(c, s) == (cpus :> c) @@ (softwares :> s)

\* A base inventory, a change of each section, and a section that vanishes.
MCContents ==
    {Inventory(v1, v1), Inventory(v2, v1), Inventory(v1, v2), Inventory(v1, gone)}
=============================================================================

----------------------------- MODULE MibDevice -----------------------------
(***************************************************************************)
(* The requests of a MIB module and the device it fills (glpi-discovery    *)
(* snmp/mib/device.rs and the helpers of snmp/mib/mod.rs).                  *)
(*                                                                         *)
(* An answer to a GET is row 0 of its column, a walk fills the rows it met. *)
(***************************************************************************)
EXTENDS Naturals, Sequences, FiniteSetsExt, TLC

None == "none"

Get(module, column) == [module |-> module, op |-> "get", column |-> column, fills |-> None]
Walk(module, column) == [module |-> module, op |-> "walk", column |-> column, fills |-> None]

\* Requests that are only made for a field the device does not have.
GetFor(field, module, column) == [Get(module, column) EXCEPT !.fills = field]
WalkFor(field, module, column) == [Walk(module, column) EXCEPT !.fills = field]

Port == [descr |-> None, mac |-> None, macs |-> {}, ips |-> {}, neighbors |-> {}]

NetworkDevice ==
    [description |-> None, name |-> None, sys_object_id |-> None, type |-> None,
     manufacturer |-> None, model |-> None, serial |-> None, firmware |-> None,
     ports |-> <<>>, components |-> {}, total_pages |-> {}, supplies |-> {},
     counters |-> <<>>, firmwares |-> {}, plugs |-> {}, pdu_model |-> None]

InfoFields == {"description", "name", "sys_object_id", "type", "manufacturer", "model",
               "serial", "firmware"}

ValueAt(r, column, row) == IF row \in DOMAIN r[column] THEN r[column][row] ELSE None

\* get_string: an empty string is no value.
Text(value) == IF value = "" THEN None ELSE value
TextOf(r, column) == Text(ValueAt(r, column, 0))

Fill(field, value) == IF field = None THEN value ELSE field

\* The row that comes first in a column: the only one of a GET.
FirstText(r, column) ==
    IF r[column] = <<>> THEN None ELSE Text(r[column][Min(DOMAIN r[column])])

\* The first text that these requests for the field have brought.
first_of(requests, field, r) ==
    LET texts == {k \in 1..Len(requests) :
                    requests[k].fills = field /\ FirstText(r, requests[k].column) # None}
    IN IF texts = {} THEN None ELSE FirstText(r, requests[Min(texts)].column)

\* The fields these requests were made for.
FillFrom(requests, fields, d, r) ==
    [f \in DOMAIN d |-> IF f \in fields THEN Fill(d[f], first_of(requests, f, r)) ELSE d[f]]

\* Of what two collections have under one name or index, that of the first.
Or(found, others) ==
    [c \in DOMAIN found \cup DOMAIN others |->
        IF c \in DOMAIN found THEN found[c] ELSE others[c]]

\* get_number of the columns of these counters.
Numbers(columns, r) ==
    [c \in {n \in DOMAIN columns : r[columns[n]] # <<>>} |-> r[columns[c]][0]]

\* The port at an index, created where there is none.
port_mut(ports, i) == IF i \in DOMAIN ports THEN ports[i] ELSE Port
=============================================================================

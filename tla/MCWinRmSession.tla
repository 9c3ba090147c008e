--------------------------- MODULE MCWinRmSession ---------------------------
(* A host that answers every query, one where some commands print nothing,  *)
(* fail or end without a code.                                              *)
EXTENDS WinRmSession

Ends1 == [pieces |-> 1, exit |-> 0]
Ends2 == [pieces |-> 2, exit |-> 0]

Plain == [q \in Query |-> IF q \in {"software", "hostname"} THEN Ends2 ELSE Ends1]

Odd ==
    [q \in Query |->
        CASE q = "hostname" -> [pieces |-> 0, exit |-> 0]
          [] q = "battery" -> [pieces |-> 0, exit |-> 1]
          [] q = "appx" -> [pieces |-> 1, exit |-> 1]
          [] q = "monitor" -> [pieces |-> 2, exit |-> NoCode]
          [] OTHER -> Ends1]

MCHosts == {Plain, Odd}
=============================================================================

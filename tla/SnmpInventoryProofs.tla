------------------------- MODULE SnmpInventoryProofs -------------------------
(***************************************************************************)
(* Theorems about the inventory of one device: what is reported is what    *)
(* the device contains, a device that answers is reported, and no MIB      *)
(* module undoes what another has determined.                              *)
(***************************************************************************)
EXTENDS SnmpInventory, DataLemmas, SequenceTheorems

Under == phase \in {"send", "wait"}

\* What has been read of a column by a walk that has come to this row of it.
Part(f, g, row) ==
    /\ f = [i \in DOMAIN f |-> g[i]] /\ DOMAIN f \subseteq DOMAIN g
    /\ \A i \in DOMAIN g : i <= row => i \in DOMAIN f

IsList(s) == s \in Seq({s[k] : k \in 1..Len(s)})

\* Between two requests the device is what the requests before have made of it;
\* in a walk, a part of its column has been read as well.
UpTo(before, r) ==
    /\ at \in 1..(Len(Reads) + 1) /\ current \in Nat
    /\ device = before.device
    /\ current = 0 => r = before.read
    /\ current > 0 =>
          /\ at <= Len(Reads) /\ Reads[at].op # "get" /\ Needed(at, device, before.read)
          /\ r = [before.read EXCEPT ![Reads[at].column] = r[Reads[at].column]]
          /\ Part(r[Reads[at].column], mib[Reads[at].column], current)

\* A request the client has made or may still get an answer to, and one it is
\* to make.
Pending ==
    \/ phase = "wait"
    \/ \E q \in net : q.open
    \/ \E k \in 1..Len(inbox) : inbox[k].open

Due == at <= Len(Reads) /\ (current > 0 \/ Needed(at, device, read))

\* What comes under the number of the request is its answer.
Matched ==
    /\ IsList(inbox)
    /\ \A q \in net : "open" \in DOMAIN q
    /\ \A k \in 1..Len(inbox) : "open" \in DOMAIN inbox[k]
    /\ \A q \in net : q.open =>
          q.column = Reads[at].column /\ q.op = Reads[at].op /\ q.after = current
    /\ \A k \in 1..Len(inbox) : inbox[k].open => inbox[k].varbind = Answer(Request)
    /\ Pending => Due

\* What the requests before this one have made of the device.
Before == done(mib)[at - 1]

Faithful ==
    /\ Under => UpTo(Before, read) /\ Matched
    /\ result # NoDevice => result = Inventoried

\* While every answer comes in time there is one on its way, or none is needed.
Expected ==
    IF phase = "wait" /\ cred \in Accepted
    THEN \/ net = {Request} /\ inbox = <<>>
         \/ net = {} /\ inbox = <<[open |-> TRUE, varbind |-> Answer(Request)]>>
    ELSE net = {} /\ inbox = <<>>

Looking ==
    /\ \A c \in Accepted \ Malformed : cred <= c /\ phase # "done"
    /\ Under => Expected

IInv ==
    /\ mib \in Contents /\ late \in Nat /\ errors \in Nat /\ cred \in Nat \ {0}
    /\ errors = 0 => Faithful
    /\ errors = 0 /\ late = 0 /\ result = NoDevice /\ Text(ValueAt(mib, "sysDescr", 0)) # None
       => Looking
-----------------------------------------------------------------------------
(* The requests of the modules. *)

\* The order in which the modules are registered.
Place ==
    [system |-> 1, if |-> 2, entity |-> 3, printer |-> 4, bridge |-> 5, lldp |-> 6,
     cdp |-> 7, ip |-> 8, cisco |-> 9, dell |-> 10, raritan |-> 11, hp_printer |-> 12,
     brother |-> 13, ricoh |-> 14, konica |-> 15, lexmark |-> 16, dlink |-> 17,
     foxgate |-> 18, watchguard |-> 19, emc |-> 20, hitachi |-> 21, radware |-> 22,
     rnx |-> 23, kyocera |-> 24, toshiba |-> 25, zebra |-> 26, hp_citizen |-> 27,
     avaya |-> 28, cisco_ucs |-> 29, akcp |-> 30, ups |-> 31, siemens |-> 32,
     checkpoint |-> 33, idrac |-> 34]

Modules == DOMAIN Place

\* Requests of one module.
OfModule(s, m) == IsList(s) /\ \A k \in 1..Len(s) : s[k].module = m

\* Requests of the modules from a first to a last one, in the order of these.
Program(s, first, last) ==
    /\ IsList(s) /\ first \in Modules /\ last \in Modules /\ Place[first] <= Place[last]
    /\ \A k \in 1..Len(s) :
          /\ s[k].module \in Modules
          /\ Place[first] <= Place[s[k].module] /\ Place[s[k].module] <= Place[last]
    /\ \A j, k \in 1..Len(s) : j <= k => Place[s[j].module] <= Place[s[k].module]

LEMMA Places ==
    /\ Place["system"] = 1
    /\ Place["if"] = 2
    /\ Place["entity"] = 3
    /\ Place["printer"] = 4
    /\ Place["bridge"] = 5
    /\ Place["lldp"] = 6
    /\ Place["cdp"] = 7
    /\ Place["ip"] = 8
    /\ Place["cisco"] = 9
    /\ Place["dell"] = 10
    /\ Place["raritan"] = 11
    /\ Place["hp_printer"] = 12
    /\ Place["brother"] = 13
    /\ Place["ricoh"] = 14
    /\ Place["konica"] = 15
    /\ Place["lexmark"] = 16
    /\ Place["dlink"] = 17
    /\ Place["foxgate"] = 18
    /\ Place["watchguard"] = 19
    /\ Place["emc"] = 20
    /\ Place["hitachi"] = 21
    /\ Place["radware"] = 22
    /\ Place["rnx"] = 23
    /\ Place["kyocera"] = 24
    /\ Place["toshiba"] = 25
    /\ Place["zebra"] = 26
    /\ Place["hp_citizen"] = 27
    /\ Place["avaya"] = 28
    /\ Place["cisco_ucs"] = 29
    /\ Place["akcp"] = 30
    /\ Place["ups"] = 31
    /\ Place["siemens"] = 32
    /\ Place["checkpoint"] = 33
    /\ Place["idrac"] = 34
    /\ Modules = {"system", "if", "entity", "printer", "bridge", "lldp", "cdp", "ip",
                  "cisco", "dell", "raritan", "hp_printer", "brother", "ricoh", "konica",
                  "lexmark", "dlink", "foxgate", "watchguard", "emc", "hitachi", "radware",
                  "rnx", "kyocera", "toshiba", "zebra", "hp_citizen", "avaya", "cisco_ucs",
                  "akcp", "ups", "siemens", "checkpoint", "idrac"}
  BY DEF Place, Modules

LEMMA PlaceType == \A m \in Modules : Place[m] \in Nat
  BY Places

LEMMA ListLength ==
    ASSUME NEW s, IsList(s)
    PROVE  Len(s) \in Nat
  BY DEF IsList

LEMMA SequenceIsList ==
    ASSUME NEW S, NEW s \in Seq(S)
    PROVE  IsList(s)
<1>1. Len(s) \in Nat /\ \A k \in 1..Len(s) : s[k] \in {s[j] : j \in 1..Len(s)}
  OBVIOUS
<1>2. s = [k \in 1..Len(s) |-> s[k]]
  OBVIOUS
<1> DEFINE R == {s[j] : j \in 1..Len(s)}
           n == Len(s)
           w == [k \in 1..n |-> s[k]]
<1>3. n \in Nat /\ \A k \in 1..n : s[k] \in R
  BY <1>1
<1> HIDE DEF R, n
<1>4. w \in Seq(R)
  BY <1>3
<1>5. QED
  BY <1>2, <1>4 DEF IsList, R, n

(* One sequence followed by another.                                        *)
LEMMA Joined ==
    ASSUME NEW s, NEW t, IsList(s), IsList(t)
    PROVE  /\ IsList(s \o t) /\ Len(s \o t) = Len(s) + Len(t)
           /\ \A k \in 1..Len(s) : (s \o t)[k] = s[k]
           /\ \A k \in 1..Len(s \o t) :
                 k <= Len(s) \/ (k - Len(s) \in 1..Len(t) /\ (s \o t)[k] = t[k - Len(s)])
<1> DEFINE w == s \o t
           S == {s[k] : k \in 1..Len(s)} \cup {t[k] : k \in 1..Len(t)}
<1>1. s \in Seq(S) /\ t \in Seq(S) /\ Len(s) \in Nat /\ Len(t) \in Nat
  BY DEF IsList
<1> HIDE DEF S
<1>2. /\ w \in Seq(S) /\ Len(w) = Len(s) + Len(t)
      /\ \A k \in 1..(Len(s) + Len(t)) : w[k] = IF k <= Len(s) THEN s[k] ELSE t[k - Len(s)]
  BY <1>1, ConcatProperties
<1> HIDE DEF w
<1>3. \A k \in 1..Len(s) : w[k] = s[k]
  BY <1>1, <1>2
<1>4. \A k \in 1..Len(w) :
         k <= Len(s) \/ (k - Len(s) \in 1..Len(t) /\ w[k] = t[k - Len(s)])
  BY <1>1, <1>2
<1>5. IsList(w)
  BY <1>2, SequenceIsList
<1>6. QED
  BY <1>2, <1>3, <1>4, <1>5 DEF w

LEMMA JoinedProgram ==
    ASSUME NEW s, NEW t, NEW a, NEW b, NEW c, NEW e, Program(s, a, b), Program(t, c, e),
           Place[b] < Place[c]
    PROVE  Program(s \o t, a, e)
<1> DEFINE w == s \o t
           P(k) == Place[w[k].module]
<1>1. /\ IsList(s) /\ IsList(t) /\ a \in Modules /\ b \in Modules /\ c \in Modules
      /\ e \in Modules
  BY DEF Program
<1>2. /\ IsList(w) /\ Len(w) = Len(s) + Len(t)
      /\ \A k \in 1..Len(s) : w[k] = s[k]
      /\ \A k \in 1..Len(w) :
            k <= Len(s) \/ (k - Len(s) \in 1..Len(t) /\ w[k] = t[k - Len(s)])
  BY <1>1, Joined
<1>3. Len(s) \in Nat /\ Len(t) \in Nat
  BY <1>1, ListLength
<1>4. /\ Place[a] \in Nat /\ Place[b] \in Nat /\ Place[c] \in Nat /\ Place[e] \in Nat
  BY <1>1, PlaceType
<1> HIDE DEF w
<1>5. ASSUME NEW k \in 1..Len(w), k <= Len(s)
      PROVE  k \in 1..Len(s) /\ w[k] = s[k]
  BY <1>2, <1>3, <1>5
<1>6. ASSUME NEW k \in 1..Len(w)
      PROVE  /\ w[k].module \in Modules
             /\ IF k <= Len(s) THEN Place[a] <= P(k) /\ P(k) <= Place[b]
                ELSE Place[c] <= P(k) /\ P(k) <= Place[e]
  BY <1>2, <1>5 DEF Program
<1>7. \A k \in 1..Len(w) :
         w[k].module \in Modules /\ Place[a] <= P(k) /\ P(k) <= Place[e]
  <2> SUFFICES ASSUME NEW k \in 1..Len(w)
               PROVE  w[k].module \in Modules /\ Place[a] <= P(k) /\ P(k) <= Place[e]
    OBVIOUS
  <2>1. w[k].module \in Modules /\ P(k) \in Nat
    BY <1>6, PlaceType
  <2>2. Place[a] <= Place[b] /\ Place[c] <= Place[e]
    BY DEF Program
  <2> HIDE DEF P
  <2>3. QED
    BY <1>4, <1>6, <2>1, <2>2
<1>8. \A j, k \in 1..Len(w) : j <= k => P(j) <= P(k)
  <2> SUFFICES ASSUME NEW j \in 1..Len(w), NEW k \in 1..Len(w), j <= k
               PROVE  P(j) <= P(k)
    OBVIOUS
  <2>1. j \in Nat /\ k \in Nat
    BY <1>2, <1>3
  <2>2. CASE k <= Len(s)
    <3>1. j <= Len(s)
      BY <1>3, <2>1, <2>2
    <3>2. QED
      BY <1>5, <2>2, <3>1 DEF Program
  <2>3. CASE j > Len(s)
    <3>1. /\ j - Len(s) \in 1..Len(t) /\ w[j] = t[j - Len(s)]
          /\ k - Len(s) \in 1..Len(t) /\ w[k] = t[k - Len(s)]
          /\ j - Len(s) <= k - Len(s)
      BY <1>2, <1>3, <2>1, <2>3
    <3>2. QED
      BY <3>1 DEF Program
  <2>4. CASE j <= Len(s) /\ k > Len(s)
    <3>1. P(j) \in Nat /\ P(k) \in Nat
      BY <1>6, PlaceType
    <3>2. P(j) <= Place[b] /\ Place[c] <= P(k)
      BY <1>3, <1>6, <2>1, <2>4
    <3> HIDE DEF P
    <3>3. QED
      BY <1>4, <3>1, <3>2
  <2>5. QED
    BY <1>3, <2>1, <2>2, <2>3, <2>4
<1>9. Place[a] <= Place[e]
  <2>1. Place[a] <= Place[b] /\ Place[c] <= Place[e]
    BY DEF Program
  <2>2. QED
    BY <1>4, <2>1
<1>10. QED
  BY <1>1, <1>2, <1>7, <1>8, <1>9 DEF Program, w

LEMMA AppendedList ==
    ASSUME NEW s, NEW e, IsList(s)
    PROVE  /\ IsList(Append(s, e)) /\ Len(Append(s, e)) = Len(s) + 1
           /\ Append(s, e)[Len(s) + 1] = e
           /\ \A k \in 1..Len(s) : Append(s, e)[k] = s[k]
<1> DEFINE S == {s[k] : k \in 1..Len(s)} \cup {e}
           w == Append(s, e)
<1>1. s \in Seq(S) /\ e \in S
  BY DEF IsList
<1> HIDE DEF S
<1>2. /\ w \in Seq(S) /\ Len(w) = Len(s) + 1 /\ Len(s) \in Nat
      /\ w[Len(s) + 1] = e
      /\ \A k \in 1..Len(s) : w[k] = s[k]
  BY <1>1
<1> HIDE DEF w
<1>3. IsList(w)
  BY <1>2, SequenceIsList
<1>4. QED
  BY <1>2, <1>3 DEF w

LEMMA RestOfList ==
    ASSUME NEW s, IsList(s), s # <<>>
    PROVE  IsList(Tail(s)) /\ Len(Tail(s)) = Len(s) - 1 /\ Len(s) \in Nat /\ Len(s) > 0
<1> DEFINE S == {s[k] : k \in 1..Len(s)}
           w == Tail(s)
<1>1. s \in Seq(S)
  BY DEF IsList
<1> HIDE DEF S
<1>2. w \in Seq(S) /\ Len(w) = Len(s) - 1 /\ Len(s) \in Nat /\ Len(s) > 0
  BY <1>1
<1> HIDE DEF w
<1>3. IsList(w)
  BY <1>2, SequenceIsList
<1>4. QED
  BY <1>2, <1>3 DEF w

LEMMA ModuleProgram ==
    ASSUME NEW s, NEW m \in Modules, OfModule(s, m)
    PROVE  Program(s, m, m)
<1>1. Place[m] \in Nat
  BY PlaceType
<1>2. QED
  BY <1>1 DEF Program, OfModule

(* The list of each module.                                                 *)
LEMMA EachProgram ==
    /\ Program(SystemReads, "system", "system")
    /\ Program(IfReads, "if", "if")
    /\ Program(EntityReads, "entity", "entity")
    /\ Program(PrinterReads, "printer", "printer")
    /\ Program(BridgeReads, "bridge", "bridge")
    /\ Program(NeighborReads, "lldp", "cdp")
    /\ Program(IpReads, "ip", "ip")
    /\ Program(CiscoReads, "cisco", "cisco")
    /\ Program(DellReads, "dell", "dell")
    /\ Program(RaritanReads, "raritan", "raritan")
    /\ Program(HpPrinterReads, "hp_printer", "hp_printer")
    /\ Program(BrotherReads, "brother", "brother")
    /\ Program(RicohReads, "ricoh", "ricoh")
    /\ Program(KonicaReads, "konica", "konica")
    /\ Program(LexmarkReads, "lexmark", "lexmark")
    /\ Program(DlinkReads, "dlink", "dlink")
    /\ Program(FoxGateReads, "foxgate", "foxgate")
    /\ Program(WatchGuardReads, "watchguard", "watchguard")
    /\ Program(EmcReads, "emc", "emc")
    /\ Program(HitachiReads, "hitachi", "hitachi")
    /\ Program(RadwareReads, "radware", "radware")
    /\ Program(RnxReads, "rnx", "rnx")
    /\ Program(KyoceraReads, "kyocera", "kyocera")
    /\ Program(ToshibaReads, "toshiba", "toshiba")
    /\ Program(ZebraReads, "zebra", "zebra")
    /\ Program(HpCitizenReads, "hp_citizen", "hp_citizen")
    /\ Program(AvayaReads, "avaya", "avaya")
    /\ Program(CiscoUcsReads, "cisco_ucs", "cisco_ucs")
    /\ Program(AkcpReads, "akcp", "akcp")
    /\ Program(UpsReads, "ups", "ups")
    /\ Program(SiemensReads, "siemens", "siemens")
    /\ Program(CheckPointReads, "checkpoint", "checkpoint")
    /\ Program(IdracReads, "idrac", "idrac")
<1>1. Program(SystemReads, "system", "system")
  <2>1. OfModule(SystemReads, "system")
    BY DEF OfModule, IsList, SystemReads, Get, GetFor, Walk, WalkFor
  <2>2. QED
    BY <2>1, Places, ModuleProgram
<1>2. Program(IfReads, "if", "if")
  <2>1. OfModule(IfReads, "if")
    BY DEF OfModule, IsList, IfReads, Get, GetFor, Walk, WalkFor
  <2>2. QED
    BY <2>1, Places, ModuleProgram
<1>3. Program(EntityReads, "entity", "entity")
  <2>1. OfModule(EntityReads, "entity")
    BY DEF OfModule, IsList, EntityReads, Get, GetFor, Walk, WalkFor
  <2>2. QED
    BY <2>1, Places, ModuleProgram
<1>4. Program(PrinterReads, "printer", "printer")
  <2>1. OfModule(PrinterReads, "printer")
    BY DEF OfModule, IsList, PrinterReads, Get, GetFor, Walk, WalkFor
  <2>2. QED
    BY <2>1, Places, ModuleProgram
<1>5. Program(BridgeReads, "bridge", "bridge")
  <2>1. OfModule(BridgeReads, "bridge")
    BY DEF OfModule, IsList, BridgeReads, Get, GetFor, Walk, WalkFor
  <2>2. QED
    BY <2>1, Places, ModuleProgram
<1>6. Program(NeighborReads, "lldp", "cdp")
  BY Places DEF Program, IsList, NeighborReads, Get, GetFor, Walk, WalkFor
<1>7. Program(IpReads, "ip", "ip")
  <2>1. OfModule(IpReads, "ip")
    BY DEF OfModule, IsList, IpReads, Get, GetFor, Walk, WalkFor
  <2>2. QED
    BY <2>1, Places, ModuleProgram
<1>8. Program(CiscoReads, "cisco", "cisco")
  <2>1. OfModule(CiscoReads, "cisco")
    BY DEF OfModule, IsList, CiscoReads, Get, GetFor, Walk, WalkFor
  <2>2. QED
    BY <2>1, Places, ModuleProgram
<1>9. Program(DellReads, "dell", "dell")
  <2>1. OfModule(DellReads, "dell")
    BY DEF OfModule, IsList, DellReads, Get, GetFor, Walk, WalkFor
  <2>2. QED
    BY <2>1, Places, ModuleProgram
<1>10. Program(RaritanReads, "raritan", "raritan")
  <2>1. OfModule(RaritanReads, "raritan")
    BY DEF OfModule, IsList, RaritanReads, Get, GetFor, Walk, WalkFor
  <2>2. QED
    BY <2>1, Places, ModuleProgram
<1>11. Program(HpPrinterReads, "hp_printer", "hp_printer")
  <2>1. OfModule(HpPrinterReads, "hp_printer")
    BY DEF OfModule, IsList, HpPrinterReads, Get, GetFor, Walk, WalkFor
  <2>2. QED
    BY <2>1, Places, ModuleProgram
<1>12. Program(BrotherReads, "brother", "brother")
  <2>1. OfModule(BrotherReads, "brother")
    BY DEF OfModule, IsList, BrotherReads, Get, GetFor, Walk, WalkFor
  <2>2. QED
    BY <2>1, Places, ModuleProgram
<1>13. Program(RicohReads, "ricoh", "ricoh")
  <2>1. OfModule(RicohReads, "ricoh")
    BY DEF OfModule, IsList, RicohReads, Get, GetFor, Walk, WalkFor
  <2>2. QED
    BY <2>1, Places, ModuleProgram
<1>14. Program(KonicaReads, "konica", "konica")
  <2>1. OfModule(KonicaReads, "konica")
    BY DEF OfModule, IsList, KonicaReads, Get, GetFor, Walk, WalkFor
  <2>2. QED
    BY <2>1, Places, ModuleProgram
<1>15. Program(LexmarkReads, "lexmark", "lexmark")
  <2>1. OfModule(LexmarkReads, "lexmark")
    BY DEF OfModule, IsList, LexmarkReads, Get, GetFor, Walk, WalkFor
  <2>2. QED
    BY <2>1, Places, ModuleProgram
<1>16. Program(DlinkReads, "dlink", "dlink")
  <2>1. OfModule(DlinkReads, "dlink")
    BY DEF OfModule, IsList, DlinkReads, Get, GetFor, Walk, WalkFor
  <2>2. QED
    BY <2>1, Places, ModuleProgram
<1>17. Program(FoxGateReads, "foxgate", "foxgate")
  <2>1. OfModule(FoxGateReads, "foxgate")
    BY DEF OfModule, IsList, FoxGateReads, Get, GetFor, Walk, WalkFor
  <2>2. QED
    BY <2>1, Places, ModuleProgram
<1>18. Program(WatchGuardReads, "watchguard", "watchguard")
  <2>1. OfModule(WatchGuardReads, "watchguard")
    BY DEF OfModule, IsList, WatchGuardReads, Get, GetFor, Walk, WalkFor
  <2>2. QED
    BY <2>1, Places, ModuleProgram
<1>19. Program(EmcReads, "emc", "emc")
  <2>1. OfModule(EmcReads, "emc")
    BY DEF OfModule, IsList, EmcReads, Get, GetFor, Walk, WalkFor
  <2>2. QED
    BY <2>1, Places, ModuleProgram
<1>20. Program(HitachiReads, "hitachi", "hitachi")
  <2>1. OfModule(HitachiReads, "hitachi")
    BY DEF OfModule, IsList, HitachiReads, Get, GetFor, Walk, WalkFor
  <2>2. QED
    BY <2>1, Places, ModuleProgram
<1>21. Program(RadwareReads, "radware", "radware")
  <2>1. OfModule(RadwareReads, "radware")
    BY DEF OfModule, IsList, RadwareReads, Get, GetFor, Walk, WalkFor
  <2>2. QED
    BY <2>1, Places, ModuleProgram
<1>22. Program(RnxReads, "rnx", "rnx")
  <2>1. OfModule(RnxReads, "rnx")
    BY DEF OfModule, IsList, RnxReads, Get, GetFor, Walk, WalkFor
  <2>2. QED
    BY <2>1, Places, ModuleProgram
<1>23. Program(KyoceraReads, "kyocera", "kyocera")
  <2>1. OfModule(KyoceraReads, "kyocera")
    BY DEF OfModule, IsList, KyoceraReads, Get, GetFor, Walk, WalkFor
  <2>2. QED
    BY <2>1, Places, ModuleProgram
<1>24. Program(ToshibaReads, "toshiba", "toshiba")
  <2>1. OfModule(ToshibaReads, "toshiba")
    BY DEF OfModule, IsList, ToshibaReads, Get, GetFor, Walk, WalkFor
  <2>2. QED
    BY <2>1, Places, ModuleProgram
<1>25. Program(ZebraReads, "zebra", "zebra")
  <2>1. OfModule(ZebraReads, "zebra")
    BY DEF OfModule, IsList, ZebraReads, Get, GetFor, Walk, WalkFor
  <2>2. QED
    BY <2>1, Places, ModuleProgram
<1>26. Program(HpCitizenReads, "hp_citizen", "hp_citizen")
  <2>1. OfModule(HpCitizenReads, "hp_citizen")
    BY DEF OfModule, IsList, HpCitizenReads, Get, GetFor, Walk, WalkFor
  <2>2. QED
    BY <2>1, Places, ModuleProgram
<1>27. Program(AvayaReads, "avaya", "avaya")
  <2>1. OfModule(AvayaReads, "avaya")
    BY DEF OfModule, IsList, AvayaReads, Get, GetFor, Walk, WalkFor
  <2>2. QED
    BY <2>1, Places, ModuleProgram
<1>28. Program(CiscoUcsReads, "cisco_ucs", "cisco_ucs")
  <2>1. OfModule(CiscoUcsReads, "cisco_ucs")
    BY DEF OfModule, IsList, CiscoUcsReads, Get, GetFor, Walk, WalkFor
  <2>2. QED
    BY <2>1, Places, ModuleProgram
<1>29. Program(AkcpReads, "akcp", "akcp")
  <2>1. OfModule(AkcpReads, "akcp")
    BY DEF OfModule, IsList, AkcpReads, Get, GetFor, Walk, WalkFor
  <2>2. QED
    BY <2>1, Places, ModuleProgram
<1>30. Program(UpsReads, "ups", "ups")
  <2>1. OfModule(UpsReads, "ups")
    BY DEF OfModule, IsList, UpsReads, Get, GetFor, Walk, WalkFor
  <2>2. QED
    BY <2>1, Places, ModuleProgram
<1>31. Program(SiemensReads, "siemens", "siemens")
  <2>1. OfModule(SiemensReads, "siemens")
    BY DEF OfModule, IsList, SiemensReads, Get, GetFor, Walk, WalkFor
  <2>2. QED
    BY <2>1, Places, ModuleProgram
<1>32. Program(CheckPointReads, "checkpoint", "checkpoint")
  <2>1. OfModule(CheckPointReads, "checkpoint")
    BY DEF OfModule, IsList, CheckPointReads, Get, GetFor, Walk, WalkFor
  <2>2. QED
    BY <2>1, Places, ModuleProgram
<1>33. Program(IdracReads, "idrac", "idrac")
  <2>1. OfModule(IdracReads, "idrac")
    BY DEF OfModule, IsList, IdracReads, Get, GetFor, Walk, WalkFor
  <2>2. QED
    BY <2>1, Places, ModuleProgram
<1>34. QED
  BY <1>1, <1>2, <1>3, <1>4, <1>5, <1>6, <1>7, <1>8, <1>9, <1>10, <1>11, <1>12, <1>13,
     <1>14, <1>15, <1>16, <1>17, <1>18, <1>19, <1>20, <1>21, <1>22, <1>23, <1>24, <1>25,
     <1>26, <1>27, <1>28, <1>29, <1>30, <1>31, <1>32, <1>33

LEMMA VendorProgram == Program(VendorReads, "cisco", "idrac")
<1> DEFINE s1 == CiscoReads \o DellReads
           s2 == s1 \o RaritanReads
           s3 == s2 \o HpPrinterReads
           s4 == s3 \o BrotherReads
           s5 == s4 \o RicohReads
           s6 == s5 \o KonicaReads
           s7 == s6 \o LexmarkReads
           s8 == s7 \o DlinkReads
           s9 == s8 \o FoxGateReads
           s10 == s9 \o WatchGuardReads
           s11 == s10 \o EmcReads
           s12 == s11 \o HitachiReads
           s13 == s12 \o RadwareReads
           s14 == s13 \o RnxReads
           s15 == s14 \o KyoceraReads
           s16 == s15 \o ToshibaReads
           s17 == s16 \o ZebraReads
           s18 == s17 \o HpCitizenReads
           s19 == s18 \o AvayaReads
           s20 == s19 \o CiscoUcsReads
           s21 == s20 \o AkcpReads
           s22 == s21 \o UpsReads
           s23 == s22 \o SiemensReads
           s24 == s23 \o CheckPointReads
           s25 == s24 \o IdracReads
<1> HIDE DEF s1, s2, s3, s4, s5, s6, s7, s8, s9, s10, s11, s12, s13, s14, s15, s16, s17,
             s18, s19, s20, s21, s22, s23, s24, s25
<1>1. Program(s1, "cisco", "dell")
  BY EachProgram, JoinedProgram, Places DEF s1
<1>2. Program(s2, "cisco", "raritan")
  BY <1>1, EachProgram, JoinedProgram, Places DEF s2
<1>3. Program(s3, "cisco", "hp_printer")
  BY <1>2, EachProgram, JoinedProgram, Places DEF s3
<1>4. Program(s4, "cisco", "brother")
  BY <1>3, EachProgram, JoinedProgram, Places DEF s4
<1>5. Program(s5, "cisco", "ricoh")
  BY <1>4, EachProgram, JoinedProgram, Places DEF s5
<1>6. Program(s6, "cisco", "konica")
  BY <1>5, EachProgram, JoinedProgram, Places DEF s6
<1>7. Program(s7, "cisco", "lexmark")
  BY <1>6, EachProgram, JoinedProgram, Places DEF s7
<1>8. Program(s8, "cisco", "dlink")
  BY <1>7, EachProgram, JoinedProgram, Places DEF s8
<1>9. Program(s9, "cisco", "foxgate")
  BY <1>8, EachProgram, JoinedProgram, Places DEF s9
<1>10. Program(s10, "cisco", "watchguard")
  BY <1>9, EachProgram, JoinedProgram, Places DEF s10
<1>11. Program(s11, "cisco", "emc")
  BY <1>10, EachProgram, JoinedProgram, Places DEF s11
<1>12. Program(s12, "cisco", "hitachi")
  BY <1>11, EachProgram, JoinedProgram, Places DEF s12
<1>13. Program(s13, "cisco", "radware")
  BY <1>12, EachProgram, JoinedProgram, Places DEF s13
<1>14. Program(s14, "cisco", "rnx")
  BY <1>13, EachProgram, JoinedProgram, Places DEF s14
<1>15. Program(s15, "cisco", "kyocera")
  BY <1>14, EachProgram, JoinedProgram, Places DEF s15
<1>16. Program(s16, "cisco", "toshiba")
  BY <1>15, EachProgram, JoinedProgram, Places DEF s16
<1>17. Program(s17, "cisco", "zebra")
  BY <1>16, EachProgram, JoinedProgram, Places DEF s17
<1>18. Program(s18, "cisco", "hp_citizen")
  BY <1>17, EachProgram, JoinedProgram, Places DEF s18
<1>19. Program(s19, "cisco", "avaya")
  BY <1>18, EachProgram, JoinedProgram, Places DEF s19
<1>20. Program(s20, "cisco", "cisco_ucs")
  BY <1>19, EachProgram, JoinedProgram, Places DEF s20
<1>21. Program(s21, "cisco", "akcp")
  BY <1>20, EachProgram, JoinedProgram, Places DEF s21
<1>22. Program(s22, "cisco", "ups")
  BY <1>21, EachProgram, JoinedProgram, Places DEF s22
<1>23. Program(s23, "cisco", "siemens")
  BY <1>22, EachProgram, JoinedProgram, Places DEF s23
<1>24. Program(s24, "cisco", "checkpoint")
  BY <1>23, EachProgram, JoinedProgram, Places DEF s24
<1>25. Program(s25, "cisco", "idrac")
  BY <1>24, EachProgram, JoinedProgram, Places DEF s25
<1>26. VendorReads = s25
  BY DEF VendorReads, s1, s2, s3, s4, s5, s6, s7, s8, s9, s10, s11, s12, s13, s14, s15, s16,
         s17, s18, s19, s20, s21, s22, s23, s24, s25
<1>27. QED
  BY <1>25, <1>26

\* The three requests of the system group come first.
Starts(s) ==
    /\ Len(s) > 3 /\ s[4].module = "if"
    /\ \A k \in 1..3 : s[k] = SystemReads[k]

LEMMA Started ==
    ASSUME NEW s, NEW t, IsList(s), IsList(t), Starts(s)
    PROVE  Starts(s \o t)
<1> DEFINE w == s \o t
<1>1. Len(w) = Len(s) + Len(t) /\ \A k \in 1..Len(s) : w[k] = s[k]
  BY Joined
<1>2. Len(s) \in Nat /\ Len(t) \in Nat
  BY ListLength
<1> HIDE DEF w
<1>3. Starts(w)
  BY <1>1, <1>2 DEF Starts
<1>4. QED
  BY <1>3 DEF w

LEMMA StandardProgram == Program(StandardReads, "system", "ip") /\ Starts(StandardReads)
<1> DEFINE s1 == SystemReads \o IfReads
           s2 == s1 \o EntityReads
           s3 == s2 \o PrinterReads
           s4 == s3 \o BridgeReads
           s5 == s4 \o NeighborReads
           s6 == s5 \o IpReads
<1>1. Program(s1, "system", "if") /\ Starts(s1)
  <2>1. Program(s1, "system", "if")
    BY EachProgram, JoinedProgram, Places
  <2>2. Len(SystemReads) = 3 /\ Len(IfReads) = 2 /\ IfReads[1].module = "if"
    BY DEF SystemReads, IfReads, Walk
  <2>3. IsList(SystemReads) /\ IsList(IfReads)
    BY EachProgram DEF Program
  <2>4. /\ Len(s1) = Len(SystemReads) + Len(IfReads)
        /\ \A k \in 1..Len(SystemReads) : s1[k] = SystemReads[k]
        /\ \A k \in 1..Len(s1) : \/ k <= Len(SystemReads)
                                 \/ /\ k - Len(SystemReads) \in 1..Len(IfReads)
                                    /\ s1[k] = IfReads[k - Len(SystemReads)]
    BY <2>3, Joined
  <2> HIDE DEF s1
  <2>5. s1[4] = IfReads[1]
    BY <2>2, <2>4
  <2>6. QED
    BY <2>1, <2>2, <2>4, <2>5 DEF Starts
<1> HIDE DEF s1, s2, s3, s4, s5, s6
<1>2. Program(s2, "system", "entity") /\ Starts(s2)
  <2>1. Program(s2, "system", "entity")
    BY <1>1, EachProgram, JoinedProgram, Places DEF s2
  <2>2. Starts(s2)
    BY <1>1, EachProgram, Started DEF s2, Program
  <2>3. QED
    BY <2>1, <2>2
<1>3. Program(s3, "system", "printer") /\ Starts(s3)
  <2>1. Program(s3, "system", "printer")
    BY <1>2, EachProgram, JoinedProgram, Places DEF s3
  <2>2. Starts(s3)
    BY <1>2, EachProgram, Started DEF s3, Program
  <2>3. QED
    BY <2>1, <2>2
<1>4. Program(s4, "system", "bridge") /\ Starts(s4)
  <2>1. Program(s4, "system", "bridge")
    BY <1>3, EachProgram, JoinedProgram, Places DEF s4
  <2>2. Starts(s4)
    BY <1>3, EachProgram, Started DEF s4, Program
  <2>3. QED
    BY <2>1, <2>2
<1>5. Program(s5, "system", "cdp") /\ Starts(s5)
  <2>1. Program(s5, "system", "cdp")
    BY <1>4, EachProgram, JoinedProgram, Places DEF s5
  <2>2. Starts(s5)
    BY <1>4, EachProgram, Started DEF s5, Program
  <2>3. QED
    BY <2>1, <2>2
<1>6. Program(s6, "system", "ip") /\ Starts(s6)
  <2>1. Program(s6, "system", "ip")
    BY <1>5, EachProgram, JoinedProgram, Places DEF s6
  <2>2. Starts(s6)
    BY <1>5, EachProgram, Started DEF s6, Program
  <2>3. QED
    BY <2>1, <2>2
<1>7. StandardReads = s6
  BY DEF StandardReads, s1, s2, s3, s4, s5, s6
<1>8. QED
  BY <1>6, <1>7

(* All of them together.                                                    *)
LEMMA ReadsProgram ==
    Program(Reads, "system", "idrac") /\ Starts(Reads) /\ Len(Reads) \in Nat
<1>1. Program(Reads, "system", "idrac")
  BY StandardProgram, VendorProgram, JoinedProgram, Places DEF Reads
<1>2. Starts(Reads)
  BY StandardProgram, VendorProgram, Started DEF Reads, Program
<1>3. QED
  BY <1>1, <1>2, ListLength DEF Program
-----------------------------------------------------------------------------
(* What the modules make of a device, one request after the other. *)

(* A set of numbers up to a bound has a greatest one.                       *)
LEMMA Greatest ==
    ASSUME NEW N \in Nat, NEW T \in SUBSET (0..N), T # {}
    PROVE  Max(T) \in T /\ \A n \in T : n <= Max(T)
<1> DEFINE U == {N - n : n \in T}
<1>1. U \subseteq Nat /\ U # {}
  <2>1. \A n \in T : n \in 0..N
    OBVIOUS
  <2>2. \A n \in T : N - n \in Nat
    BY <2>1
  <2>3. QED
    BY <2>2
<1>2. PICK u \in U : \A v \in U : u <= v
  <2> HIDE DEF U
  <2>1. QED
    BY <1>1, LeastNumber
<1>3. PICK n \in T : u = N - n
  OBVIOUS
<1>4. ASSUME NEW l \in T
      PROVE  n >= l
  <2>1. N - l \in U
    OBVIOUS
  <2>2. N - n <= N - l
    BY <1>2, <1>3, <2>1
  <2>3. QED
    BY <2>2
<1>5. \E x \in T : \A y \in T : x >= y
  BY <1>4
<1>6. Max(T) \in T /\ \A y \in T : Max(T) >= y
  BY <1>5, Zenon DEF Max
<1>7. QED
  BY <1>6

(* A module starts where the one before it has ended.                       *)
LEMMA BegunBefore ==
    ASSUME NEW k \in 1..Len(Reads)
    PROVE  /\ Begun(k) \in 0..(k - 1)
           /\ \A j \in 1..(k - 1) : IsLast(j) => j <= Begun(k)
<1> DEFINE T == {0} \cup {j \in 1..(k - 1) : IsLast(j)}
<1>1. k \in Nat /\ k - 1 \in Nat
  BY ReadsProgram
<1>2. T \in SUBSET (0..(k - 1)) /\ T # {}
  BY <1>1
<1>3. \A j \in 1..(k - 1) : IsLast(j) => j \in T
  OBVIOUS
<1>4. Begun(k) = Max(T)
  BY DEF Begun
<1> HIDE DEF T
<1>5. Max(T) \in T /\ \A n \in T : n <= Max(T)
  BY <1>1, <1>2, Greatest
<1>6. QED
  BY <1>2, <1>3, <1>4, <1>5

LEMMA BegunNext ==
    ASSUME NEW k \in 1..Len(Reads), k > 1
    PROVE  Begun(k) = IF IsLast(k - 1) THEN k - 1 ELSE Begun(k - 1)
<1>1. k \in Nat /\ k - 1 \in 1..(k - 1)
  BY ReadsProgram
<1>2. CASE IsLast(k - 1)
  BY <1>1, <1>2, BegunBefore
<1>3. CASE ~IsLast(k - 1)
  <2>1. {j \in 1..(k - 1) : IsLast(j)} = {j \in 1..((k - 1) - 1) : IsLast(j)}
    BY <1>1, <1>3
  <2>2. QED
    BY <1>3, <2>1 DEF Begun
<1>4. QED
  BY <1>2, <1>3

\* What a module reads that starts after the b-th request.
Reading(f, m, b, k, before) ==
    f = [j \in b..k |->
            IF j = b THEN before.read ELSE Learned(m, j, before.device, f[j - 1])]

LEMMA ReadingExists ==
    ASSUME NEW m, NEW before, NEW b \in Nat, NEW n \in Nat
    PROVE  \E f : Reading(f, m, b, b + n, before)
<1> DEFINE T == {i \in Nat : \E f : Reading(f, m, b, b + i, before)}
<1>1. 0 \in T
  <2>1. Reading([j \in b..(b + 0) |-> before.read], m, b, b + 0, before)
    BY DEF Reading
  <2>2. QED
    BY <2>1
<1>2. ASSUME NEW i \in Nat, i \in T
      PROVE  i + 1 \in T
  <2>1. PICK f : Reading(f, m, b, b + i, before)
    BY <1>2
  <2> DEFINE g == [j \in b..(b + (i + 1)) |->
                      IF j = b + (i + 1) THEN Learned(m, j, before.device, f[b + i]) ELSE f[j]]
  <2>2. \A j \in b..(b + i) : g[j] = f[j]
    OBVIOUS
  <2>3. ASSUME NEW j \in b..(b + (i + 1))
        PROVE  g[j] = IF j = b THEN before.read ELSE Learned(m, j, before.device, g[j - 1])
    <3>1. CASE j = b + (i + 1)
      <4>1. j # b /\ j - 1 = b + i /\ b + i \in b..(b + i)
        BY <3>1
      <4>2. g[j] = Learned(m, j, before.device, f[b + i])
        BY <3>1
      <4>3. g[j - 1] = f[b + i]
        BY <2>2, <4>1
      <4> HIDE DEF g
      <4>4. QED
        BY <4>1, <4>2, <4>3
    <3>2. CASE j \in b..(b + i)
      <4>1. g[j] = f[j]
        BY <2>2, <3>2
      <4>2. j # b => j - 1 \in b..(b + i)
        BY <3>2
      <4>3. j # b => g[j - 1] = f[j - 1]
        BY <2>2, <4>2
      <4> HIDE DEF g
      <4>4. f[j] = IF j = b THEN before.read ELSE Learned(m, j, before.device, f[j - 1])
        BY <2>1, <3>2 DEF Reading
      <4>5. QED
        BY <4>1, <4>3, <4>4
    <3>3. QED
      BY <3>1, <3>2
  <2>4. g = [j \in b..(b + (i + 1)) |-> g[j]]
    OBVIOUS
  <2> HIDE DEF g
  <2>5. Reading(g, m, b, b + (i + 1), before)
    BY <2>3, <2>4 DEF Reading
  <2>6. QED
    BY <2>5
<1> HIDE DEF T
<1>3. Nat \subseteq T
  BY <1>1, <1>2, Induction
<1>4. QED
  BY <1>3 DEF T

(* However far it has come, it has read the same.                           *)
LEMMA ReadingUnique ==
    ASSUME NEW m, NEW before, NEW b \in Nat, NEW k \in Nat, NEW l \in Nat, b <= k, k <= l,
           NEW f, NEW g, Reading(f, m, b, k, before), Reading(g, m, b, l, before)
    PROVE  f[k] = g[k]
<1> DEFINE T == {n \in 0..(k - b) : f[b + n] = g[b + n]}
<1>1. 0 \in T
  BY DEF Reading
<1>2. ASSUME NEW n \in 0..((k - b) - 1), n \in T
      PROVE  n + 1 \in T
  <2> DEFINE j == b + (n + 1)
  <2>1. j \in b..k /\ j \in b..l /\ j # b /\ j - 1 = b + n /\ n + 1 \in 0..(k - b)
    OBVIOUS
  <2>2. f[b + n] = g[b + n]
    BY <1>2
  <2> HIDE DEF j
  <2>3. f[j] = Learned(m, j, before.device, f[j - 1])
    BY <2>1 DEF Reading
  <2>4. g[j] = Learned(m, j, before.device, g[j - 1])
    BY <2>1 DEF Reading
  <2>5. f[j] = g[j]
    BY <2>1, <2>2, <2>3, <2>4
  <2>6. QED
    BY <2>1, <2>5 DEF j
<1> HIDE DEF T
<1>3. 0..(k - b) \subseteq T
  <2>1. k - b \in Nat
    OBVIOUS
  <2>2. QED
    BY <1>1, <1>2, <2>1, BoundedInduction
<1>4. k - b \in T
  BY <1>3
<1>5. QED
  BY <1>4 DEF T

LEMMA InventoryReads ==
    ASSUME NEW m, NEW before, NEW k \in 1..Len(Reads)
    PROVE  \E f : /\ Reading(f, m, Begun(k), k, before)
                  /\ Inventory(m, k, before) =
                         [device |-> After(k, before.device, f[k]), read |-> f[k]]
<1> DEFINE g == CHOOSE f : Reading(f, m, Begun(k), k, before)
<1>1. \E f : Reading(f, m, Begun(k), k, before)
  <2>1. Begun(k) \in Nat /\ k - Begun(k) \in Nat /\ Begun(k) + (k - Begun(k)) = k
    BY BegunBefore, ReadsProgram
  <2>2. \E f : Reading(f, m, Begun(k), Begun(k) + (k - Begun(k)), before)
    BY <2>1, ReadingExists
  <2>3. QED
    BY <2>1, <2>2
<1>2. Reading(g, m, Begun(k), k, before)
  BY <1>1, Zenon
<1>3. Inventory(m, k, before) = [device |-> After(k, before.device, g[k]), read |-> g[k]]
  BY DEF Inventory, Reading
<1> HIDE DEF g
<1>4. QED
  BY <1>2, <1>3

\* What the modules have made of the device up to the n-th request.
Making(f, m, n) ==
    f = [k \in 0..n |->
            IF k = 0 THEN [device |-> NetworkDevice, read |-> NothingRead]
            ELSE Inventory(m, k, f[Begun(k)])]

LEMMA MakingExists ==
    ASSUME NEW m
    PROVE  \E f : Making(f, m, Len(Reads))
<1> DEFINE T == {n \in 0..Len(Reads) : \E f : Making(f, m, n)}
           First == [device |-> NetworkDevice, read |-> NothingRead]
<1> HIDE DEF First
<1>1. 0 \in T
  <2>1. Making([k \in 0..0 |-> First], m, 0)
    BY DEF Making, First
  <2>2. QED
    BY <2>1, ReadsProgram
<1>2. ASSUME NEW n \in 0..(Len(Reads) - 1), n \in T
      PROVE  n + 1 \in T
  <2>1. PICK f : Making(f, m, n)
    BY <1>2
  <2>2. n \in Nat /\ n + 1 \in 1..Len(Reads) /\ n + 1 \in 0..Len(Reads)
    BY ReadsProgram
  <2> DEFINE last == Inventory(m, n + 1, f[Begun(n + 1)])
  <2> HIDE DEF last
  <2> DEFINE g == [k \in 0..(n + 1) |-> IF k = n + 1 THEN last ELSE f[k]]
  <2>3. \A k \in 0..n : g[k] = f[k]
    BY <2>2
  <2>4. g[n + 1] = last
    BY <2>2
  <2>5. g = [k \in 0..(n + 1) |-> g[k]]
    OBVIOUS
  <2> HIDE DEF g
  <2>6. ASSUME NEW k \in 0..(n + 1)
        PROVE  g[k] = IF k = 0 THEN First ELSE Inventory(m, k, g[Begun(k)])
    <3>1. CASE k = n + 1
      <4>1. Begun(n + 1) \in 0..n
        BY <2>2, BegunBefore
      <4>2. g[Begun(n + 1)] = f[Begun(n + 1)]
        BY <2>3, <4>1
      <4>3. QED
        BY <2>2, <2>4, <3>1, <4>2 DEF last
    <3>2. CASE k = 0
      BY <2>1, <2>2, <2>3, <3>2 DEF Making, First
    <3>3. CASE k \in 1..n
      <4>1. k \in 1..Len(Reads) /\ k \in 0..n /\ k # 0
        BY <2>2, <3>3
      <4>2. Begun(k) \in 0..n
        BY <2>2, <4>1, BegunBefore
      <4>3. g[Begun(k)] = f[Begun(k)] /\ g[k] = f[k]
        BY <2>3, <4>1, <4>2
      <4>4. f[k] = Inventory(m, k, f[Begun(k)])
        BY <2>1, <4>1 DEF Making
      <4>5. QED
        BY <4>1, <4>3, <4>4
    <3>4. QED
      BY <2>2, <3>1, <3>2, <3>3
  <2>7. Making(g, m, n + 1)
    BY <2>5, <2>6 DEF Making, First
  <2>8. QED
    BY <2>2, <2>7
<1> HIDE DEF T
<1>3. 0..Len(Reads) \subseteq T
  BY <1>1, <1>2, BoundedInduction, ReadsProgram
<1>4. Len(Reads) \in T
  BY <1>3, ReadsProgram
<1>5. QED
  BY <1>4 DEF T

LEMMA DoneMakes ==
    ASSUME NEW m
    PROVE  Making(done(m), m, Len(Reads))
<1> DEFINE g == CHOOSE f : Making(f, m, Len(Reads))
<1>1. Making(g, m, Len(Reads))
  BY MakingExists, Zenon
<1>2. done(m) = g
  BY DEF done, Making
<1>3. QED
  BY <1>1, <1>2

LEMMA DoneFirst ==
    ASSUME NEW m
    PROVE  done(m)[0] = [device |-> NetworkDevice, read |-> NothingRead]
<1>1. 0 \in 0..Len(Reads)
  BY ReadsProgram
<1>2. QED
  BY <1>1, DoneMakes DEF Making

\* What the k-th request makes of what the ones before it have made.
Adds(m, k, before) ==
    LET r == Learned(m, k, before.device, before.read)
    IN [device |-> After(k, before.device, r), read |-> r]

(* The modules add to the device one request at a time.                     *)
LEMMA DoneNext ==
    ASSUME NEW m, NEW k \in 1..Len(Reads)
    PROVE  done(m)[k] = Adds(m, k, done(m)[k - 1])
<1> DEFINE b == Begun(k)
           made == done(m)
<1>1. k \in Nat /\ k \in 0..Len(Reads) /\ k # 0
  BY ReadsProgram
<1>2. b \in Nat /\ b <= k - 1
  BY <1>1, BegunBefore
<1>3. made[k] = Inventory(m, k, made[b])
  BY <1>1, DoneMakes DEF Making
<1>4. PICK f : /\ Reading(f, m, b, k, made[b])
               /\ Inventory(m, k, made[b]) =
                     [device |-> After(k, made[b].device, f[k]), read |-> f[k]]
  BY InventoryReads
<1>5. f[k] = Learned(m, k, made[b].device, f[k - 1])
  BY <1>1, <1>2, <1>4 DEF Reading
<1>6. CASE b = k - 1
  <2>1. f[k - 1] = made[b].read
    BY <1>1, <1>2, <1>4, <1>6 DEF Reading
  <2>2. QED
    BY <1>3, <1>4, <1>5, <1>6, <2>1 DEF Adds
<1>7. CASE b # k - 1
  <2> DEFINE l == k - 1
  <2>1. l \in 1..Len(Reads) /\ l \in Nat /\ l # 0 /\ l \in 0..Len(Reads) /\ k > 1 /\ b <= l /\ l <= k
    BY <1>1, <1>2, <1>7
  <2>2. ~IsLast(l) /\ Begun(l) = b
    BY <1>7, <2>1, BegunNext
  <2>3. made[l] = Inventory(m, l, made[b])
    BY <2>1, <2>2, DoneMakes DEF Making
  <2>4. PICK g : /\ Reading(g, m, b, l, made[b])
                 /\ Inventory(m, l, made[b]) =
                       [device |-> After(l, made[b].device, g[l]), read |-> g[l]]
    <3> HIDE DEF l, made
    <3>1. \E g : /\ Reading(g, m, Begun(l), l, made[b])
                 /\ Inventory(m, l, made[b]) =
                       [device |-> After(l, made[b].device, g[l]), read |-> g[l]]
      BY <2>1, InventoryReads
    <3>2. QED
      BY <2>2, <3>1
  <2>5. After(l, made[b].device, g[l]) = made[b].device
    BY <2>2 DEF After
  <2>6. g[l] = f[l]
    BY <1>1, <1>2, <1>4, <2>1, <2>4, ReadingUnique
  <2>7. made[l].device = made[b].device /\ made[l].read = f[l]
    BY <2>3, <2>4, <2>5, <2>6
  <2> HIDE DEF made, b
  <2>8. made[k] = Adds(m, k, made[k - 1])
    BY <1>3, <1>4, <1>5, <2>7 DEF Adds
  <2>9. QED
    BY <2>8 DEF made
<1>8. QED
  BY <1>6, <1>7
-----------------------------------------------------------------------------
(* What has been read of one column. *)

\* Columns that have not been read are empty, the others are the device's.
ReadFrom(m, r) ==
    /\ r = [c \in Columns |-> r[c]]
    /\ \A c \in Columns : r[c] = <<>> \/ r[c] = m[c]

LEMMA ColumnOf ==
    ASSUME NEW k \in 1..Len(Reads)
    PROVE  Reads[k].column \in Columns
  BY DEF Columns

LEMMA LearnedFrom ==
    ASSUME NEW m, NEW k \in 1..Len(Reads), NEW d, NEW r, ReadFrom(m, r)
    PROVE  ReadFrom(m, Learned(m, k, d, r))
<1>1. Reads[k].column \in Columns
  BY ColumnOf
<1>2. QED
  BY <1>1 DEF ReadFrom, Learned

LEMMA DoneRead ==
    ASSUME NEW m, NEW n \in 0..Len(Reads)
    PROVE  ReadFrom(m, done(m)[n].read)
<1> DEFINE T == {k \in 0..Len(Reads) : ReadFrom(m, done(m)[k].read)}
<1>1. 0 \in T
  BY DoneFirst, ReadsProgram DEF ReadFrom, NothingRead
<1>2. ASSUME NEW k \in 0..(Len(Reads) - 1), k \in T
      PROVE  k + 1 \in T
  <2>1. k + 1 \in 1..Len(Reads) /\ (k + 1) - 1 = k /\ k + 1 \in 0..Len(Reads)
    BY ReadsProgram
  <2>2. ReadFrom(m, done(m)[k].read)
    BY <1>2
  <2>3. done(m)[k + 1] = Adds(m, k + 1, done(m)[k])
    BY <2>1, DoneNext
  <2>4. done(m)[k + 1].read = Learned(m, k + 1, done(m)[k].device, done(m)[k].read)
    BY <2>3 DEF Adds
  <2>5. ReadFrom(m, done(m)[k + 1].read)
    BY <2>1, <2>2, <2>4, LearnedFrom
  <2>6. QED
    BY <2>1, <2>5
<1> HIDE DEF T
<1>3. 0..Len(Reads) \subseteq T
  BY <1>1, <1>2, BoundedInduction, ReadsProgram
<1>4. QED
  BY <1>3 DEF T

LEMMA EmptyColumn ==
    ASSUME NEW f, f = [i \in DOMAIN f |-> f[i]], DOMAIN f = {}
    PROVE  f = <<>>
  OBVIOUS

LEMMA PartStarts ==
    ASSUME NEW f, NEW g, NEW op, IsColumn(g, op), op # "get", f = <<>> \/ f = g
    PROVE  Part(f, g, 0)
<1>1. DOMAIN g \subseteq Nat \ {0} /\ g = [i \in DOMAIN g |-> g[i]]
  BY DEF IsColumn
<1>2. CASE f = <<>>
  <2>1. DOMAIN f = {} /\ f = [i \in DOMAIN f |-> g[i]]
    BY <1>2
  <2>2. QED
    BY <1>1, <2>1 DEF Part
<1>3. CASE f = g
  BY <1>1, <1>3 DEF Part
<1>4. QED
  BY <1>2, <1>3

LEMMA PartEnds ==
    ASSUME NEW f, NEW g, NEW op, IsColumn(g, op), NEW n, Part(f, g, n),
           \A i \in DOMAIN g : i <= n
    PROVE  f = g
<1>1. g = [i \in DOMAIN g |-> g[i]]
  BY DEF IsColumn
<1>2. DOMAIN f = DOMAIN g /\ f = [i \in DOMAIN f |-> g[i]]
  BY DEF Part
<1>3. QED
  BY <1>1, <1>2

\* A column with one row more.
Stored(f, row, value) == [i \in DOMAIN f \cup {row} |-> IF i = row THEN value ELSE f[i]]

LEMMA PartGrows ==
    ASSUME NEW f, NEW g, NEW n \in Nat, Part(f, g, n), DOMAIN g \subseteq Nat,
           NEW row \in DOMAIN g,
           \A i \in DOMAIN g : i > n => i >= row
    PROVE  Part(Stored(f, row, g[row]), g, row)
<1> DEFINE h == Stored(f, row, g[row])
<1>1. /\ f = [i \in DOMAIN f |-> g[i]] /\ DOMAIN f \subseteq DOMAIN g
      /\ \A i \in DOMAIN g : i <= n => i \in DOMAIN f
  BY DEF Part
<1>2. DOMAIN h = DOMAIN f \cup {row}
  BY DEF Stored
<1>3. \A i \in DOMAIN f \cup {row} : (IF i = row THEN g[row] ELSE f[i]) = g[i]
  BY <1>1
<1>4. h = [i \in DOMAIN h |-> g[i]]
  BY <1>2, <1>3 DEF Stored
<1> HIDE DEF h
<1>5. \A i \in DOMAIN g : i <= row => i \in DOMAIN h
  BY <1>1, <1>2
<1>6. Part(h, g, row)
  BY <1>1, <1>2, <1>4, <1>5 DEF Part
<1>7. QED
  BY <1>6 DEF h

LEMMA StoredRow ==
    ASSUME NEW f, NEW g, IsColumn(g, "get"), DOMAIN g # {}, f = <<>> \/ f = g
    PROVE  Stored(f, 0, g[0]) = g
<1>1. DOMAIN g = {0} /\ g = [i \in DOMAIN g |-> g[i]]
  BY DEF IsColumn
<1>2. DOMAIN f \cup {0} = {0}
  BY <1>1
<1>3. Stored(f, 0, g[0]) = [i \in {0} |-> g[i]]
  BY <1>2 DEF Stored
<1>4. QED
  BY <1>1, <1>3
-----------------------------------------------------------------------------
(* What the agent answers to the request the client is making. *)

Column == Reads[at].column

LEMMA AnswerSame ==
    ASSUME mib' = mib, at' = at, current' = current
    PROVE  (Answer(Request))' = Answer(Request)
  BY DEF Answer, Candidates, Request

LEMMA AnswerAlike ==
    ASSUME NEW q, q.column = Reads[at].column, q.op = Reads[at].op, q.after = current
    PROVE  Answer(q) = Answer(Request)
  BY DEF Answer, Candidates, Request

LEMMA ColumnRows ==
    ASSUME mib \in Contents, at \in 1..Len(Reads)
    PROVE  IsColumn(mib[Column], Reads[at].op) /\ DOMAIN mib[Column] \subseteq Nat
<1>1. IsColumn(mib[Column], Reads[at].op)
  BY SnmpAssumption DEF Column
<1>2. QED
  BY <1>1 DEF IsColumn

\* The answer is of the row that is asked for.
GetAnswer(v, g) ==
    IF DOMAIN g = {} THEN v.row = -1 ELSE v.row = 0 /\ v.value = g[0]

LEMMA AnswerToGet ==
    ASSUME mib \in Contents, at \in 1..Len(Reads), Reads[at].op = "get"
    PROVE  GetAnswer(Answer(Request), mib[Column])
<1> DEFINE g == mib[Column]
<1>1. DOMAIN g \subseteq {0}
  BY ColumnRows DEF IsColumn
<1>2. Candidates(Request) = DOMAIN g \cap {0}
  BY DEF Candidates, Request, Column
<1> SUFFICES GetAnswer(Answer(Request), g)
  OBVIOUS
<1> HIDE DEF g
<1>3. CASE DOMAIN g = {}
  BY <1>2, <1>3 DEF Answer, NoVarbind, GetAnswer
<1>4. CASE DOMAIN g # {}
  <2>1. Candidates(Request) = {0} /\ Candidates(Request) # {}
    BY <1>1, <1>2, <1>4
  <2>2. Min({0}) = 0
    <3>1. \E x \in {0} : \A y \in {0} : x <= y
      OBVIOUS
    <3>2. Min({0}) \in {0}
      BY <3>1, Zenon DEF Min
    <3>3. QED
      BY <3>2
  <2>3. Answer(Request) = [row |-> 0, value |-> g[0]]
    BY <2>1, <2>2 DEF Answer, Request, Column, g
  <2>4. QED
    BY <1>4, <2>3 DEF GetAnswer
<1>5. QED
  BY <1>3, <1>4

\* The answer is of the next row, or there is none.
WalkAnswer(v, g, n) ==
    IF v.row <= n
    THEN \A i \in DOMAIN g : i <= n
    ELSE v.row \in DOMAIN g /\ v.value = g[v.row] /\ \A i \in DOMAIN g : i > n => i >= v.row

LEMMA Lowest ==
    ASSUME NEW T \in SUBSET Nat, T # {}
    PROVE  Min(T) \in T /\ \A n \in T : Min(T) <= n
<1>1. \E x \in T : \A y \in T : x <= y
  BY LeastNumber
<1>2. QED
  BY <1>1, Zenon DEF Min

LEMMA AnswerToWalk ==
    ASSUME mib \in Contents, at \in 1..Len(Reads), Reads[at].op # "get", current \in Nat
    PROVE  WalkAnswer(Answer(Request), mib[Column], current)
<1> DEFINE g == mib[Column]
           next == {i \in DOMAIN g : i > current}
           C == Candidates(Request)
<1>1. DOMAIN g \subseteq Nat
  BY ColumnRows
<1>2. C = IF next = {} /\ Column \in Looping THEN DOMAIN g ELSE next
  BY DEF Candidates, Request, Column
<1>3. C # {} => Answer(Request) = [row |-> Min(C), value |-> g[Min(C)]]
  BY DEF Answer, Request, Column
<1>4. C = {} => Answer(Request).row = -1
  BY DEF Answer, NoVarbind
<1> HIDE DEF g, C
<1>5. C # {} => Min(C) \in C /\ \A n \in C : Min(C) <= n
  BY <1>1, <1>2, Lowest
<1>6. CASE next = {}
  <2>1. \A i \in DOMAIN g : i <= current
    BY <1>1, <1>6
  <2>2. C = {} \/ Min(C) \in DOMAIN g
    BY <1>2, <1>5
  <2>3. Answer(Request).row <= current
    BY <1>3, <1>4, <2>1, <2>2
  <2>4. QED
    BY <2>1, <2>3 DEF WalkAnswer, g
<1>7. CASE next # {}
  <2>1. C # {} /\ C = next /\ Min(C) \in DOMAIN g /\ Min(C) > current
    BY <1>2, <1>5, <1>7
  <2>2. \A i \in DOMAIN g : i > current => i >= Min(C)
    BY <1>1, <1>5, <2>1
  <2>3. Answer(Request).row = Min(C) /\ Answer(Request).value = g[Min(C)]
    BY <1>3, <2>1
  <2>4. ~(Answer(Request).row <= current)
    BY <1>1, <2>1, <2>3
  <2>5. QED
    BY <2>1, <2>2, <2>3, <2>4 DEF WalkAnswer, g
<1>8. QED
  BY <1>6, <1>7
-----------------------------------------------------------------------------
(* What the steps of the client do to what it has read. *)

LEMMA SoFar ==
    ASSUME mib \in Contents, at \in 1..Len(Reads), UpTo(Before, read),
           current > 0 \/ Needed(at, device, read)
    PROVE  /\ Needed(at, device, Before.read) /\ device = Before.device
           /\ read = [Before.read EXCEPT ![Column] = read[Column]]
           /\ Reads[at].op = "get" => current = 0
           /\ current = 0 => read[Column] = <<>> \/ read[Column] = mib[Column]
           /\ Reads[at].op # "get" => Part(read[Column], mib[Column], current)
<1>1. current \in Nat /\ device = Before.device
  BY DEF UpTo
<1>2. CASE current = 0
  <2>1. read = Before.read /\ Needed(at, device, read)
    BY <1>2 DEF UpTo
  <2>2. at - 1 \in 0..Len(Reads)
    BY ReadsProgram
  <2>3. ReadFrom(mib, Before.read)
    BY <2>2, DoneRead DEF Before
  <2>4. Column \in Columns
    BY ColumnOf DEF Column
  <2>5. read = [read EXCEPT ![Column] = read[Column]]
    BY <2>1, <2>3 DEF ReadFrom
  <2>6. read[Column] = <<>> \/ read[Column] = mib[Column]
    BY <2>1, <2>3, <2>4 DEF ReadFrom
  <2>7. Reads[at].op # "get" => Part(read[Column], mib[Column], 0)
    BY <2>6, ColumnRows, PartStarts
  <2>8. QED
    BY <1>1, <1>2, <2>1, <2>5, <2>6, <2>7
<1>3. CASE current > 0
  BY <1>1, <1>3 DEF UpTo, Column
<1>4. QED
  BY <1>1, <1>2, <1>3

\* The request at hand is finished with this read.
Completes(r) == done(mib)[at] = [device |-> After(at, device, r), read |-> r]

LEMMA CompletesNeeded ==
    ASSUME at \in 1..Len(Reads), device = Before.device, Needed(at, device, Before.read),
           NEW r, r = [Before.read EXCEPT ![Column] = mib[Column]]
    PROVE  Completes(r)
<1>1. done(mib)[at] = Adds(mib, at, Before)
  BY DoneNext DEF Before
<1>2. Learned(mib, at, Before.device, Before.read) = r
  BY DEF Learned, Column
<1>3. QED
  BY <1>1, <1>2 DEF Adds, Completes

LEMMA CompletesSkipped ==
    ASSUME at \in 1..Len(Reads), UpTo(Before, read), current = 0, ~Needed(at, device, read)
    PROVE  Completes(read)
<1>1. done(mib)[at] = Adds(mib, at, Before)
  BY DoneNext DEF Before
<1>2. read = Before.read /\ device = Before.device
  BY DEF UpTo
<1>3. Learned(mib, at, Before.device, Before.read) = read
  BY <1>2 DEF Learned
<1>4. QED
  BY <1>1, <1>2, <1>3 DEF Adds, Completes

LEMMA AdvanceUpTo ==
    ASSUME at \in 1..Len(Reads), NEW r, Completes(r), Advance(r), mib' = mib
    PROVE  UpTo(Before, read)'
<1>1. at \in Nat /\ at' = at + 1 /\ current' = 0 /\ read' = r /\ device' = After(at, device, r)
  BY ReadsProgram DEF Advance
<1>2. at' \in 1..(Len(Reads) + 1) /\ at' - 1 = at
  BY <1>1, ReadsProgram
<1>3. Before' = done(mib)[at]
  BY <1>2 DEF Before
<1>4. Before'.device = device' /\ Before'.read = read'
  BY <1>1, <1>3 DEF Completes
<1>5. QED
  BY <1>1, <1>2, <1>4 DEF UpTo

LEMMA SameUpTo ==
    ASSUME UpTo(Before, read), mib' = mib, at' = at, current' = current, device' = device,
           read' = read
    PROVE  UpTo(Before, read)'
  BY DEF UpTo, Before

\* The answer to the request finishes it or brings the walk one row on.
LEMMA TakeUpTo ==
    ASSUME mib \in Contents, at \in 1..Len(Reads), UpTo(Before, read),
           current > 0 \/ Needed(at, device, read), Take(Answer(Request)), mib' = mib
    PROVE  UpTo(Before, read)' /\ phase' = "send"
<1> DEFINE v == Answer(Request)
           f == read[Column]
           g == mib[Column]
           stored == [read EXCEPT ![Column] = Stored(f, v.row, v.value)]
<1>1. /\ Needed(at, device, Before.read) /\ device = Before.device
      /\ read = [Before.read EXCEPT ![Column] = f]
      /\ Reads[at].op = "get" => current = 0
      /\ current = 0 => f = <<>> \/ f = g
      /\ Reads[at].op # "get" => Part(f, g, current)
  BY SoFar
<1>2. current \in Nat
  BY DEF UpTo
<1>3. IsColumn(g, Reads[at].op) /\ DOMAIN g \subseteq Nat
  BY ColumnRows
<1>4. IF Reads[at].op = "get"
      THEN Advance(IF v.row < 0 THEN read ELSE stored)
      ELSE IF walk_ends(v)
           THEN Advance(read)
           ELSE /\ read' = stored /\ current' = v.row /\ attempt' = 0 /\ phase' = "send"
                /\ UNCHANGED <<cred, at, device, result>>
  BY DEF Take, Stored, Column
<1>5. Reads[at].op = "get" => GetAnswer(v, g)
  BY AnswerToGet
<1>6. Reads[at].op # "get" => WalkAnswer(v, g, current)
  BY <1>2, AnswerToWalk
<1> DEFINE c == Column
<1>7. Column = c
  OBVIOUS
<1> HIDE DEF v, f, g, c
<1>8. ASSUME NEW h, read = [Before.read EXCEPT ![c] = h], h = g
      PROVE  Completes(read)
  BY <1>1, <1>7, <1>8, CompletesNeeded DEF g
<1>9. \A x : [read EXCEPT ![c] = x] = [Before.read EXCEPT ![c] = x]
  BY <1>1, <1>7
<1>10. CASE Reads[at].op = "get" /\ v.row < 0
  <2>1. DOMAIN g = {}
    BY <1>5, <1>10 DEF GetAnswer
  <2>2. f = g
    <3>1. g = <<>>
      BY <1>3, <2>1, EmptyColumn DEF IsColumn
    <3>2. QED
      BY <1>1, <1>10, <3>1
  <2>3. Completes(read)
    BY <1>1, <1>7, <1>8, <2>2
  <2>4. Advance(read)
    BY <1>4, <1>10
  <2>5. QED
    BY <2>3, <2>4, AdvanceUpTo DEF Advance
<1>11. CASE Reads[at].op = "get" /\ ~(v.row < 0)
  <2>1. DOMAIN g # {} /\ v.row = 0 /\ v.value = g[0]
    <3> HIDE DEF stored
    <3>1. IF DOMAIN g = {} THEN v.row = -1 ELSE v.row = 0 /\ v.value = g[0]
      BY <1>5, <1>11 DEF GetAnswer
    <3>2. v.row # -1
      BY <1>11
    <3>3. QED
      BY <3>1, <3>2
  <2>2. Stored(f, v.row, v.value) = g
    BY <1>1, <1>3, <1>11, <2>1, StoredRow
  <2>3. stored = [Before.read EXCEPT ![c] = g]
    BY <1>7, <1>9, <2>2
  <2>4. Completes(stored)
    BY <1>1, <1>7, <2>3, CompletesNeeded DEF g
  <2>5. Advance(stored)
    BY <1>4, <1>11
  <2> HIDE DEF stored
  <2>6. QED
    BY <2>4, <2>5, AdvanceUpTo DEF Advance
<1>12. CASE Reads[at].op # "get" /\ walk_ends(v)
  <2>1. \A i \in DOMAIN g : i <= current
    BY <1>6, <1>12 DEF walk_ends, WalkAnswer
  <2>2. f = g
    BY <1>1, <1>3, <1>12, <2>1, PartEnds
  <2>3. Completes(read)
    BY <1>1, <1>7, <1>8, <2>2
  <2>4. Advance(read)
    BY <1>4, <1>12
  <2>5. QED
    BY <2>3, <2>4, AdvanceUpTo DEF Advance
<1>13. CASE Reads[at].op # "get" /\ ~walk_ends(v)
  <2>1. /\ v.row \in DOMAIN g /\ v.value = g[v.row] /\ ~(v.row <= current)
        /\ \A i \in DOMAIN g : i > current => i >= v.row
    BY <1>6, <1>13 DEF walk_ends, WalkAnswer
  <2>2. v.row \in Nat /\ v.row > 0
    BY <1>2, <1>3, <2>1
  <2>3. Part(Stored(f, v.row, g[v.row]), g, v.row)
    BY <1>1, <1>2, <1>3, <1>13, <2>1, PartGrows
  <2>4. /\ read' = [Before.read EXCEPT ![c] = Stored(f, v.row, g[v.row])]
        /\ current' = v.row /\ phase' = "send" /\ at' = at /\ device' = device
    BY <1>4, <1>7, <1>9, <1>13, <2>1
  <2>5. c \in DOMAIN Before.read
    <3>1. at - 1 \in 0..Len(Reads) /\ c \in Columns
      BY <1>7, ReadsProgram, ColumnOf DEF Column
    <3>2. ReadFrom(mib, Before.read)
      BY <3>1, DoneRead DEF Before
    <3>3. QED
      BY <3>1, <3>2 DEF ReadFrom
  <2>6. read'[c] = Stored(f, v.row, g[v.row])
    BY <2>4, <2>5
  <2>7. Before' = Before /\ Reads[at'].column = c /\ mib'[c] = g
    BY <1>7, <2>4 DEF Before, g, Column
  <2>8. UpTo(Before, read)'
    <3>1. at \in 1..(Len(Reads) + 1) /\ at <= Len(Reads)
      BY ReadsProgram
    <3>2. read' = [Before'.read EXCEPT ![c] = read'[c]]
      BY <2>4, <2>6, <2>7
    <3>3. Part(read'[c], mib'[c], current')
      BY <2>3, <2>4, <2>6, <2>7
    <3>4. QED
      BY <1>1, <1>13, <2>2, <2>4, <2>7, <3>1, <3>2, <3>3 DEF UpTo
  <2>9. QED
    BY <2>4, <2>8
<1>14. QED
  BY <1>10, <1>11, <1>12, <1>13
-----------------------------------------------------------------------------
(* What the steps do to the requests and answers on their way. *)

LEMMA ClosedRequests ==
    ASSUME \A q \in net : "open" \in DOMAIN q
    PROVE  \A q \in ClosedNet : "open" \in DOMAIN q /\ ~q.open
<1>1. ASSUME NEW q \in net
      PROVE  "open" \in DOMAIN closed(q) /\ ~closed(q).open
  BY DEF closed
<1>2. QED
  BY <1>1 DEF ClosedNet

LEMMA ClosedAnswers ==
    ASSUME NEW s, IsList(s), \A k \in 1..Len(s) : "open" \in DOMAIN s[k]
    PROVE  /\ IsList(ClosedInbox(s)) /\ Len(ClosedInbox(s)) = Len(s)
           /\ \A k \in 1..Len(s) :
                 "open" \in DOMAIN ClosedInbox(s)[k] /\ ~ClosedInbox(s)[k].open
<1> DEFINE n == Len(s)
           w == [k \in 1..n |-> closed(s[k])]
           S == {closed(s[k]) : k \in 1..n}
<1>1. n \in Nat
  BY ListLength
<1>2. \A k \in 1..n : closed(s[k]) \in S
  OBVIOUS
<1>3. \A k \in 1..n : "open" \in DOMAIN closed(s[k]) /\ ~closed(s[k]).open
  BY DEF closed
<1>4. ClosedInbox(s) = w
  BY DEF ClosedInbox
<1>5. \A k \in 1..n : w[k] = closed(s[k])
  OBVIOUS
<1>6. w \in Seq(S) /\ Len(w) = n
  <2> HIDE DEF n, S
  <2>1. QED
    BY <1>1, <1>2
<1> HIDE DEF w, S
<1>7. IsList(w)
  BY <1>6, SequenceIsList
<1>8. QED
  BY <1>3, <1>4, <1>5, <1>6, <1>7

\* A client that has given a request up waits for nothing.
LEMMA QuietMatched ==
    ASSUME IsList(inbox'), phase' = "send",
           \A q \in net' : "open" \in DOMAIN q /\ ~q.open,
           \A k \in 1..Len(inbox') : "open" \in DOMAIN inbox'[k] /\ ~inbox'[k].open
    PROVE  Matched'
  BY DEF Matched, Pending

LEMMA FailUpTo ==
    ASSUME Fail, UpTo(Before, read), mib' = mib
    PROVE  /\ result' = result
           /\ Under' => /\ phase' = "send" /\ UNCHANGED <<at, current, device, read>>
                        /\ UpTo(Before, read)'
<1>1. CASE attempt >= Retries
  BY <1>1 DEF Fail, NextCredential, Under
<1>2. CASE ~(attempt >= Retries)
  <2>1. phase' = "send" /\ UNCHANGED <<at, current, device, read, result>>
    BY <1>2 DEF Fail
  <2>2. QED
    BY <2>1, SameUpTo
<1>3. QED
  BY <1>1, <1>2

LEMMA SendMatched ==
    ASSUME Under, Matched, Send
    PROVE  Matched'
<1>1. /\ phase = "send" /\ phase' = "wait"
      /\ net' = net \/ net' = net \cup {Request}
      /\ UNCHANGED <<mib, at, current, inbox, read, device>>
  BY DEF Send
<1>2. Due'
  BY <1>1 DEF Send, Due
<1>3. /\ "open" \in DOMAIN Request /\ Request.column = Reads[at].column
      /\ Request.op = Reads[at].op /\ Request.after = current
  BY DEF Request
<1>4. (Answer(Request))' = Answer(Request)
  BY <1>1, AnswerSame
<1>5. \A q \in net' :
         /\ "open" \in DOMAIN q
         /\ q.open => q.column = Reads[at].column /\ q.op = Reads[at].op /\ q.after = current
  BY <1>1, <1>3 DEF Matched
<1>6. QED
  BY <1>1, <1>2, <1>4, <1>5 DEF Matched

LEMMA SkipMatched ==
    ASSUME Under, Matched, Skip
    PROVE  Matched'
<1>1. ~Due /\ phase' = "send" /\ UNCHANGED <<net, inbox>>
  BY DEF Skip, Due, Advance
<1>2. ~Pending
  BY <1>1 DEF Matched
<1>3. /\ \A q \in net : "open" \in DOMAIN q /\ ~q.open
      /\ \A k \in 1..Len(inbox) : "open" \in DOMAIN inbox[k] /\ ~inbox[k].open
      /\ IsList(inbox)
  BY <1>2 DEF Matched, Pending
<1>4. QED
  BY <1>1, <1>3, QuietMatched

LEMMA TimeoutMatched ==
    ASSUME Matched, Timeout, phase' = "send", UNCHANGED <<at, current, device, read>>
    PROVE  Matched'
<1>1. Due' /\ (Answer(Request))' = Answer(Request)
  <2>1. Due /\ mib' = mib
    BY DEF Timeout, Matched, Pending
  <2>2. QED
    BY <2>1, AnswerSame DEF Due
<1>2. CASE net' = net
  BY <1>1, <1>2 DEF Timeout, Matched
<1>3. CASE net' = ClosedNet
  <2>1. \A q \in net' : "open" \in DOMAIN q /\ ~q.open
    BY <1>3, ClosedRequests DEF Matched
  <2>2. QED
    BY <1>1, <2>1 DEF Timeout, Matched
<1>4. QED
  BY <1>2, <1>3 DEF Timeout

LEMMA ReceiveMatched ==
    ASSUME Matched, Receive, phase' = "send"
    PROVE  Matched'
<1>1. /\ inbox # <<>> /\ inbox' = ClosedInbox(Tail(inbox)) /\ net' = ClosedNet
      /\ IsList(inbox)
  BY DEF Receive, Matched
<1>2. /\ IsList(Tail(inbox)) /\ Len(inbox) \in Nat /\ Len(Tail(inbox)) = Len(inbox) - 1
  BY <1>1, RestOfList
<1>3. \A k \in 1..Len(Tail(inbox)) : Tail(inbox)[k] = inbox[k + 1] /\ k + 1 \in 1..Len(inbox)
  BY <1>1, <1>2 DEF IsList
<1>4. \A k \in 1..Len(Tail(inbox)) : "open" \in DOMAIN Tail(inbox)[k]
  BY <1>3 DEF Matched
<1>5. /\ IsList(inbox') /\ Len(inbox') = Len(Tail(inbox))
      /\ \A k \in 1..Len(Tail(inbox)) : "open" \in DOMAIN inbox'[k] /\ ~inbox'[k].open
  BY <1>1, <1>2, <1>4, ClosedAnswers
<1>6. \A q \in net' : "open" \in DOMAIN q /\ ~q.open
  BY <1>1, ClosedRequests DEF Matched
<1>7. QED
  BY <1>5, <1>6, QuietMatched

LEMMA AnswersMatched ==
    ASSUME Matched, NEW q \in net, AgentAnswers(q)
    PROVE  Matched'
<1> DEFINE e == [open |-> q.open, varbind |-> Answer(q)]
           m == Len(inbox)
<1>1. /\ net' = net \ {q} /\ inbox' = Append(inbox, e)
      /\ UNCHANGED <<mib, at, current, device, read, phase>>
  BY DEF AgentAnswers, Deliver, client
<1>2. "open" \in DOMAIN e /\ e.open = q.open /\ e.varbind = Answer(q)
  OBVIOUS
<1> HIDE DEF e
<1>3. /\ IsList(inbox') /\ Len(inbox') = m + 1 /\ inbox'[m + 1] = e
      /\ \A k \in 1..m : inbox'[k] = inbox[k]
  BY <1>1, AppendedList DEF Matched
<1>4. m \in Nat
  BY ListLength DEF Matched
<1>5. (Answer(Request))' = Answer(Request)
  BY <1>1, AnswerSame
<1>6. e.open => e.varbind = Answer(Request)
  BY <1>2, AnswerAlike DEF Matched
<1> HIDE DEF m
<1>7. ASSUME NEW k \in 1..Len(inbox')
      PROVE  /\ "open" \in DOMAIN inbox'[k]
             /\ inbox'[k].open => inbox'[k].varbind = Answer(Request) /\ Pending
  <2>1. CASE k = m + 1
    BY <1>2, <1>3, <1>6, <2>1 DEF Pending
  <2>2. CASE k \in 1..m
    BY <1>3, <2>2 DEF Matched, Pending, m
  <2>3. QED
    BY <1>3, <1>4, <2>1, <2>2
<1>8. Pending' => Pending
  BY <1>1, <1>7 DEF Pending
<1>9. Due' <=> Due
  BY <1>1 DEF Due
<1>10. QED
  BY <1>1, <1>3, <1>5, <1>7, <1>8, <1>9 DEF Matched

(* While no answer is an error, the device is read as it is.                *)
LEMMA FaithfulStep ==
    ASSUME IInv, Next, errors' = 0
    PROVE  Faithful'
<1>1. errors = 0 /\ mib' = mib /\ mib \in Contents
  <2>1. errors \in Nat /\ mib \in Contents
    BY DEF IInv
  <2>2. errors' = errors \/ errors' = errors + 1
    BY DEF Next, Connect, ConnectFails, NoSocket, NoEngine, NoResponse, Send, Skip, Timeout, Receive, Finish,
           AgentAnswers, AgentFails, Terminated, vars
  <2>3. mib' = mib
    BY DEF Next, Connect, ConnectFails, NoSocket, NoEngine, NoResponse, Send, Skip, Timeout, Receive, Finish,
           AgentAnswers, AgentFails, Deliver, Terminated, vars
  <2>4. QED
    BY <2>1, <2>2, <2>3
<1>2. Faithful
  BY <1>1 DEF IInv
<1>3. Inventoried' = Inventoried
  BY <1>1 DEF Inventoried
<1>4. CASE Connect
  <2>1. /\ at' = 1 /\ current' = 0 /\ phase' = "send" /\ net' = {} /\ inbox' = <<>>
        /\ read' = NothingRead /\ device' = NetworkDevice /\ result' = result
    BY <1>4 DEF Connect
  <2>2. UpTo(Before, read)'
    <3>1. at' - 1 = 0 /\ at' \in 1..(Len(Reads) + 1)
      BY <2>1, ReadsProgram
    <3>2. Before' = [device |-> NetworkDevice, read |-> NothingRead]
      BY <1>1, <3>1, DoneFirst DEF Before
    <3>3. QED
      BY <2>1, <3>1, <3>2 DEF UpTo
  <2>3. Matched'
    <3>1. IsList(inbox') /\ Len(inbox') = 0
      BY <2>1 DEF IsList
    <3>2. QED
      BY <2>1, <3>1, QuietMatched
  <2>4. QED
    BY <1>2, <1>3, <2>1, <2>2, <2>3 DEF Faithful
<1>5. CASE ConnectFails
  BY <1>2, <1>3, <1>5 DEF ConnectFails, NoSocket, NoEngine, Faithful, Under
<1>6. CASE NoResponse
  BY <1>2, <1>3, <1>6 DEF NoResponse, Faithful, Under
<1>7. CASE Send
  <2>1. Under /\ result' = result /\ UNCHANGED <<mib, at, current, device, read>>
    BY <1>7 DEF Send, Under
  <2>2. UpTo(Before, read)'
    BY <1>2, <2>1, SameUpTo DEF Faithful
  <2>3. Matched'
    BY <1>2, <1>7, <2>1, SendMatched DEF Faithful
  <2>4. QED
    BY <1>2, <1>3, <2>1, <2>2, <2>3 DEF Faithful
<1>8. CASE Skip
  <2>1. /\ Under /\ result' = result /\ at <= Len(Reads) /\ current = 0
        /\ ~Needed(at, device, read) /\ Advance(read)
    BY <1>8 DEF Skip, Under, Advance
  <2>2. UpTo(Before, read) /\ Matched
    BY <1>2, <2>1 DEF Faithful
  <2>3. at \in 1..Len(Reads)
    BY <2>1, <2>2, ReadsProgram DEF UpTo
  <2>4. Completes(read)
    BY <2>1, <2>2, <2>3, CompletesSkipped
  <2>5. UpTo(Before, read)'
    BY <1>1, <2>1, <2>3, <2>4, AdvanceUpTo
  <2>6. Matched'
    BY <1>8, <2>1, <2>2, SkipMatched
  <2>7. QED
    BY <1>2, <1>3, <2>1, <2>5, <2>6 DEF Faithful
<1>9. CASE Timeout
  <2>1. Under /\ Fail
    BY <1>9 DEF Timeout, Under
  <2>2. UpTo(Before, read) /\ Matched
    BY <1>2, <2>1 DEF Faithful
  <2>3. /\ result' = result
        /\ Under' => /\ phase' = "send" /\ UNCHANGED <<at, current, device, read>>
                     /\ UpTo(Before, read)'
    BY <1>1, <2>1, <2>2, FailUpTo
  <2>4. Under' => Matched'
    BY <1>9, <2>2, <2>3, TimeoutMatched
  <2>5. QED
    BY <1>2, <1>3, <2>3, <2>4 DEF Faithful
<1>10. CASE Receive
  <2>1. /\ Under /\ Pending /\ inbox # <<>>
        /\ Take(Head(inbox).varbind) \/ Mismatch
    BY <1>10 DEF Receive, Under, Pending
  <2>2. UpTo(Before, read) /\ Matched
    BY <1>2, <2>1 DEF Faithful
  <2>3. at \in 1..Len(Reads) /\ (current > 0 \/ Needed(at, device, read))
    BY <2>1, <2>2, ReadsProgram DEF Matched, Due, UpTo
  <2>4. result' = result /\ (Under' => phase' = "send" /\ UpTo(Before, read)')
    <3>1. CASE Take(Head(inbox).varbind)
      <4>1. Head(inbox) = inbox[1] /\ 1 \in 1..Len(inbox)
        BY <2>1, <2>2, RestOfList DEF Matched, IsList
      <4>2. Head(inbox).varbind = Answer(Request)
        BY <2>2, <3>1, <4>1 DEF Take, Matched
      <4>3. UpTo(Before, read)' /\ phase' = "send"
        BY <1>1, <2>2, <2>3, <3>1, <4>2, TakeUpTo
      <4>4. result' = result
        BY <3>1 DEF Take, Advance
      <4>5. QED
        BY <4>3, <4>4
    <3>2. CASE Mismatch
      BY <1>1, <2>2, <3>2, FailUpTo DEF Mismatch
    <3>3. QED
      BY <2>1, <3>1, <3>2
  <2>5. Under' => Matched'
    BY <1>10, <2>2, <2>4, ReceiveMatched
  <2>6. QED
    BY <1>2, <1>3, <2>4, <2>5 DEF Faithful
<1>11. CASE Finish
  <2>1. Under /\ ~Under' /\ at > Len(Reads)
    BY <1>11 DEF Finish, NextCredential, Under
  <2>2. UpTo(Before, read)
    BY <1>2, <2>1 DEF Faithful
  <2>3. at - 1 = Len(Reads)
    BY <2>1, <2>2, ReadsProgram DEF UpTo
  <2>4. classify(device) = Inventoried
    BY <2>2, <2>3 DEF UpTo, Inventoried, Before
  <2>5. result' = classify(device) \/ result' = result
    BY <1>11 DEF Finish, NextCredential
  <2>6. QED
    BY <1>2, <1>3, <2>1, <2>4, <2>5 DEF Faithful
<1>12. ASSUME NEW q \in net, AgentAnswers(q)
       PROVE  Faithful'
  <2>1. UNCHANGED <<mib, at, current, device, read, phase, result>>
    BY <1>1, <1>12 DEF AgentAnswers, Deliver, client
  <2>2. CASE Under
    BY <1>2, <1>3, <1>12, <2>1, <2>2, SameUpTo, AnswersMatched DEF Faithful
  <2>3. CASE ~Under
    BY <1>2, <1>3, <2>1, <2>3 DEF Faithful, Under
  <2>4. QED
    BY <2>2, <2>3
<1>13. ASSUME NEW q \in net, AgentFails(q)
       PROVE  FALSE
  BY <1>1, <1>13 DEF AgentFails
<1>14. CASE Terminated
  <2>1. phase' = "done" /\ result' = result
    BY <1>14 DEF Terminated, vars, client
  <2>2. QED
    BY <1>2, <1>3, <2>1 DEF Faithful, Under
<1>15. QED
  BY <1>4, <1>5, <1>6, <1>7, <1>8, <1>9, <1>10, <1>11, <1>12, <1>13, <1>14 DEF Next
-----------------------------------------------------------------------------
(* What the modules make of a device: none takes anything away. *)

Fields == InfoFields \cup {"ports", "components", "total_pages", "supplies", "counters",
                           "firmwares", "plugs", "pdu_model"}

IsDevice(d) == d = [f \in Fields |-> d[f]]

\* A field that has a value keeps it; from a model the maker's name may go.
KeepsFields(d, e) ==
    /\ \A f \in InfoFields \ {"model"} : d[f] # None => e[f] = d[f]
    /\ \/ d.model = None
       \/ e.model = d.model
       \/ e.model # None /\ e.model = Unbranded(d.model)

\* All a module changes of a device but its fields and firmwares are these parts.
Grows(d, e, parts) ==
    /\ IsDevice(e)
    /\ e.description = d.description /\ e.sys_object_id = d.sys_object_id
    /\ KeepsFields(d, e)
    /\ d.firmwares \subseteq e.firmwares
    /\ \A f \in {"ports", "components", "total_pages", "supplies", "counters", "plugs"} \ parts :
          e[f] = d[f]

LEMMA Filled ==
    ASSUME NEW d, IsDevice(d), NEW r, NEW requests, NEW fields
    PROVE  LET e == FillFrom(requests, fields, d, r)
           IN /\ IsDevice(e)
              /\ \A f \in Fields : f \notin fields \/ d[f] # None => e[f] = d[f]
  BY DEF FillFrom, IsDevice, Fill

\* The same in one step: the fields a module asks for are filled.
LEMMA FilledGrows ==
    ASSUME NEW d, IsDevice(d), NEW r, NEW requests, NEW parts,
           NEW fields \in SUBSET (InfoFields \ {"description", "sys_object_id"})
    PROVE  Grows(d, FillFrom(requests, fields, d, r), parts)
<1> DEFINE e == FillFrom(requests, fields, d, r)
<1>1. IsDevice(e) /\ \A f \in Fields : f \notin fields \/ d[f] # None => e[f] = d[f]
  BY Filled
<1> HIDE DEF e
<1>2. KeepsFields(d, e)
  BY <1>1 DEF KeepsFields, Fields, InfoFields
<1>3. \A f \in Fields \ InfoFields : e[f] = d[f]
  BY <1>1
<1>4. e.description = d.description /\ e.sys_object_id = d.sys_object_id
  BY <1>1 DEF Fields, InfoFields
<1>5. Grows(d, e, parts)
  BY <1>1, <1>2, <1>3, <1>4 DEF Grows, Fields, InfoFields
<1>6. QED
  BY <1>5 DEF e

LEMMA Excepted ==
    ASSUME NEW c, IsDevice(c), NEW f \in Fields, NEW v
    PROVE  LET e == [c EXCEPT ![f] = v]
           IN IsDevice(e) /\ e[f] = v /\ \A g \in Fields \ {f} : e[g] = c[g]
  BY DEF IsDevice

LEMMA Filling ==
    ASSUME NEW d, NEW c, NEW parts, Grows(d, c, parts),
           NEW f \in InfoFields \ {"description", "sys_object_id"}, NEW v
    PROVE  Grows(d, [c EXCEPT ![f] = Fill(c[f], v)], parts)
<1> DEFINE e == [c EXCEPT ![f] = Fill(c[f], v)]
<1>1. f \in Fields
  BY DEF Fields
<1>2. IsDevice(e) /\ e[f] = Fill(c[f], v) /\ \A g \in Fields \ {f} : e[g] = c[g]
  BY <1>1, Excepted DEF Grows
<1> HIDE DEF e
<1>3. \A g \in Fields : g # f \/ c[g] # None => e[g] = c[g]
  BY <1>2 DEF Fill
<1>4. KeepsFields(d, e)
  BY <1>3 DEF Grows, KeepsFields, Fields, InfoFields
<1>5. \A g \in Fields \ InfoFields : e[g] = c[g]
  BY <1>3
<1>6. e.description = c.description /\ e.sys_object_id = c.sys_object_id
  BY <1>3 DEF Fields, InfoFields
<1>7. Grows(d, e, parts)
  BY <1>2, <1>4, <1>5, <1>6 DEF Grows, Fields, InfoFields
<1>8. QED
  BY <1>7 DEF e

\* A part that the module changes, or a set that it adds to.
LEMMA Changing ==
    ASSUME NEW d, NEW c, NEW parts, Grows(d, c, parts),
           NEW f \in Fields \ InfoFields, NEW v,
           f \in parts \ {"firmwares"} \/ f = "pdu_model"
           \/ (f = "firmwares" /\ c.firmwares \subseteq v)
    PROVE  Grows(d, [c EXCEPT ![f] = v], parts)
<1> DEFINE e == [c EXCEPT ![f] = v]
<1>1. IsDevice(e) /\ e[f] = v /\ \A g \in Fields \ {f} : e[g] = c[g]
  BY Excepted DEF Grows
<1> HIDE DEF e
<1>2. \A g \in InfoFields : e[g] = c[g]
  BY <1>1 DEF Fields
<1>3. KeepsFields(d, e) /\ e.description = c.description /\ e.sys_object_id = c.sys_object_id
  BY <1>2 DEF Grows, KeepsFields, InfoFields
<1>4. d.firmwares \subseteq e.firmwares
  <2>1. "firmwares" \in Fields /\ e.firmwares = (IF f = "firmwares" THEN v ELSE c.firmwares)
    BY <1>1 DEF Fields
  <2>2. QED
    BY <2>1 DEF Grows
<1>5. ASSUME NEW g \in {"ports", "components", "total_pages", "supplies", "counters", "plugs"}
                           \ parts
      PROVE  e[g] = d[g]
  <2>1. g \in Fields \ {f}
    BY DEF Fields
  <2>2. c[g] = d[g]
    BY DEF Grows
  <2>3. QED
    BY <1>1, <2>1, <2>2
<1>6. Grows(d, e, parts)
  BY <1>1, <1>3, <1>4, <1>5 DEF Grows
<1>7. QED
  BY <1>6 DEF e

LEMMA Unchanged ==
    ASSUME NEW d, IsDevice(d), NEW parts
    PROVE  Grows(d, d, parts)
  BY DEF Grows, KeepsFields

LEMMA RunGrows ==
    ASSUME NEW module \in Modules, module # "system", NEW d, IsDevice(d), NEW r
    PROVE  Grows(d, run(module, d, r),
               CASE module \in {"if", "bridge", "lldp", "cdp", "ip"} -> {"ports"}
                 [] module = "entity" -> {"components"}
                 [] module = "printer" -> {"total_pages", "supplies", "counters"}
                 [] module \in {"hp_printer", "brother", "ricoh", "konica"} -> {"counters"}
                 [] module \in {"raritan", "rnx"} -> {"plugs"}
                 [] OTHER -> {})
<1>1. Grows(d, IfMib(d, r), {"ports"})
  BY Unchanged, Changing DEF Fields, InfoFields, IfMib
<1>2. Grows(d, EntityMib(d, r), {"components"})
  <2> DEFINE P == {"components"}
             e0 == d
             e1 == [e0 EXCEPT !.components =
                       UNION {DOMAIN r[EntityReads[k].column] : k \in 1..Len(EntityReads)}]
             chassis == {i \in e1.components : ValueAt(r, "entPhysicalClass", i) = "chassis"}
             e2 == [e1 EXCEPT !.serial =
                       Fill(e1.serial, ValueAt(r, "entPhysicalSerialNum", Min(chassis)))]
             e3 == [e2 EXCEPT !.model =
                       Fill(e2.model, ValueAt(r, "entPhysicalModelName", Min(chassis)))]
  <2>1. EntityMib(d, r) = IF chassis = {} THEN e1 ELSE e3
    BY DEF EntityMib, promote_chassis
  <2>2. Grows(d, e0, P)
    BY Unchanged
  <2>3. Grows(d, e1, P)
    BY <2>2, Changing DEF Fields, InfoFields
  <2>4. Grows(d, e2, P)
    BY <2>3, Filling DEF InfoFields
  <2>5. Grows(d, e3, P)
    BY <2>4, Filling DEF InfoFields
  <2> HIDE DEF e0, e1, e2, e3
  <2>6. QED
    BY <2>1, <2>3, <2>5
<1>3. Grows(d, PrinterMib(d, r), {"total_pages", "supplies", "counters"})
  <2> DEFINE P == {"total_pages", "supplies", "counters"}
             C == {r["prtMarkerLifeCount"][i] : i \in DOMAIN r["prtMarkerLifeCount"]}
             S == DOMAIN r["prtMarkerSupplies"]
             e0 == FillFrom(PrinterReads, {"serial"}, d, r)
             e1 == [e0 EXCEPT !.total_pages = IF C = {} THEN {} ELSE {Max(C)}]
             e2 == [e1 EXCEPT !.supplies = S]
             e3 == [e2 EXCEPT !.counters = <<>>]
  <2>1. PrinterMib(d, r) = IF C = {} /\ S = {} THEN e0 ELSE e3
    BY DEF PrinterMib
  <2>2. Grows(d, e0, P)
    BY FilledGrows DEF InfoFields
  <2>3. Grows(d, e1, P)
    BY <2>2, Changing DEF Fields, InfoFields
  <2>4. Grows(d, e2, P)
    BY <2>3, Changing DEF Fields, InfoFields
  <2>5. Grows(d, e3, P)
    BY <2>4, Changing DEF Fields, InfoFields
  <2> HIDE DEF e0, e1, e2, e3
  <2>6. QED
    BY <2>1, <2>2, <2>5
<1>4. Grows(d, BridgeMib(d, r), {"ports"})
  BY Unchanged, Changing DEF Fields, InfoFields, BridgeMib
<1>5. Grows(d, LldpMib(d, r), {"ports"})
  BY Unchanged, Changing DEF Fields, InfoFields, LldpMib, Neighbors
<1>6. Grows(d, CdpMib(d, r), {"ports"})
  BY Unchanged, Changing DEF Fields, InfoFields, CdpMib, Neighbors
<1>7. Grows(d, IpMib(d, r), {"ports"})
  BY Unchanged, Changing DEF Fields, InfoFields, IpMib
<1>8. Grows(d, CiscoMib(d, r), {})
  BY FilledGrows DEF InfoFields, CiscoMib
<1>9. Grows(d, DellMib(d, r), {})
  <2> DEFINE P == {}
             e0 == FillFrom(DellReads, {"manufacturer", "model", "firmware", "serial"}, d, r)
             e1 == [e0 EXCEPT !.type = Fill(e0.type, "NETWORKING")]
             e2 == [e1 EXCEPT !.manufacturer = Fill(e1.manufacturer, "Dell")]
  <2>1. DellMib(d, r) = e2
    BY DEF DellMib
  <2>2. Grows(d, e0, P)
    BY FilledGrows DEF InfoFields
  <2>3. Grows(d, e1, P)
    BY <2>2, Filling DEF InfoFields
  <2>4. Grows(d, e2, P)
    BY <2>3, Filling DEF InfoFields
  <2> HIDE DEF e0, e1, e2
  <2>5. QED
    BY <2>1, <2>4
<1>10. Grows(d, RaritanMib(d, r), {"plugs"})
  <2> DEFINE P == {"plugs"}
             e0 == FillFrom(RaritanReads, {"manufacturer", "model", "serial", "name"}, d, r)
             e1 == [e0 EXCEPT !.type = Fill(e0.type, pdu_type)]
             e2 == [e1 EXCEPT !.manufacturer = Fill(e1.manufacturer, "Raritan")]
             e3 == [e2 EXCEPT !.plugs = IF outlets(r) = {} THEN e2.plugs ELSE outlets(r)]
             e4 == [e3 EXCEPT !.pdu_model =
                       Fill(TextOf(r, "pduRatedCurrent"), e3.pdu_model)]
  <2>1. RaritanMib(d, r) = IF pdu_type # "PDU" THEN e2 ELSE e4
    BY DEF RaritanMib
  <2>2. Grows(d, e0, P)
    BY FilledGrows DEF InfoFields
  <2>3. Grows(d, e1, P)
    BY <2>2, Filling DEF InfoFields
  <2>4. Grows(d, e2, P)
    BY <2>3, Filling DEF InfoFields
  <2>5. Grows(d, e3, P)
    BY <2>4, Changing DEF Fields, InfoFields
  <2>6. Grows(d, e4, P)
    BY <2>5, Changing DEF Fields, InfoFields
  <2> HIDE DEF e0, e1, e2, e3, e4
  <2>7. QED
    BY <2>1, <2>4, <2>6
<1>11. Grows(d, HpPrinterMib(d, r), {"counters"})
  <2> DEFINE F == DOMAIN StatusKey
             s == [f \in DOMAIN d |->
                      IF f \in F THEN Fill(d[f], parse_status_id(f, r)) ELSE d[f]]
             c == FillFrom(HpPrinterReads, F, s, r)
             P == {"counters"}
             e1 == [c EXCEPT !.type = Fill(c.type, "PRINTER")]
             e2 == [e1 EXCEPT !.manufacturer = Fill(e1.manufacturer, "Hewlett-Packard")]
             e3 == [e2 EXCEPT !.counters =
                       Or(e2.counters, Numbers([total |-> "totalEnginePageCount",
                                                rectoverso |-> "duplexPageCount"], r))]
  <2>1. IsDevice(s) /\ \A f \in Fields : f \notin F \/ d[f] # None => s[f] = d[f]
    BY DEF IsDevice, Fill
  <2>2. F = {"model", "serial", "firmware"}
    BY DEF StatusKey
  <2> HIDE DEF F, s
  <2>3. IsDevice(c) /\ \A f \in Fields : f \notin F \/ s[f] # None => c[f] = s[f]
    BY <2>1, Filled
  <2>4. IsDevice(c) /\ \A f \in Fields : f \notin F \/ d[f] # None => c[f] = d[f]
    BY <2>1, <2>3
  <2>5. HpPrinterMib(d, r) = e3
    BY DEF HpPrinterMib, F, s
  <2>6. KeepsFields(d, c) /\ Grows(d, c, P)
    <3> HIDE DEF c
    <3>1. \A f \in Fields : f \notin {"model", "serial", "firmware"} \/ d[f] # None => c[f] = d[f]
      BY <2>2, <2>4
    <3>2. KeepsFields(d, c)
      BY <3>1 DEF KeepsFields, Fields, InfoFields
    <3>3. QED
      BY <2>4, <3>1, <3>2 DEF Grows, Fields, InfoFields
  <2> HIDE DEF c
  <2>7. Grows(d, e1, P)
    BY <2>6, Filling DEF InfoFields
  <2>8. Grows(d, e2, P)
    BY <2>7, Filling DEF InfoFields
  <2>9. Grows(d, e3, P)
    BY <2>8, Changing DEF Fields, InfoFields
  <2>10. QED
    BY <2>5, <2>9
<1>12. Grows(d, BrotherMib(d, r), {"counters"})
  <2> DEFINE F == {"serial", "firmware"}
             c == FillFrom(BrotherReads, F, d, r)
  <2>1. IsDevice(c) /\ \A f \in Fields : f \notin F \/ d[f] # None => c[f] = d[f]
    BY Filled
  <2>2. QED
    BY <2>1 DEF Grows, KeepsFields, IsDevice, Fields, InfoFields, Fill, BrotherMib
<1>13. Grows(d, RicohMib(d, r), {"counters"})
  <2> DEFINE F == {"model"}
             c == FillFrom(RicohReads, F, d, r)
  <2>1. IsDevice(c) /\ \A f \in Fields : f \notin F \/ d[f] # None => c[f] = d[f]
    BY Filled
  <2>2. QED
    BY <2>1 DEF Grows, KeepsFields, IsDevice, Fields, InfoFields, Fill, RicohMib
<1>14. Grows(d, KonicaMib(d, r), {"counters"})
  <2> DEFINE F == {"model"}
             c == FillFrom(KonicaReads, F, d, r)
  <2>1. IsDevice(c) /\ \A f \in Fields : f \notin F \/ d[f] # None => c[f] = d[f]
    BY Filled
  <2>2. QED
    BY <2>1 DEF Grows, KeepsFields, IsDevice, Fields, InfoFields, Fill, KonicaMib
<1>15. Grows(d, LexmarkMib(d, r), {})
  <2> DEFINE F == {"model", "firmware", "serial"}
             named == IF TextOf(r, "hrDeviceDescr") = Foreign
                      THEN [r EXCEPT !["hrDeviceDescr"] = <<>>] ELSE r
             c == FillFrom(LexmarkReads, F, d, named)
  <2>1. IsDevice(c) /\ \A f \in Fields : f \notin F \/ d[f] # None => c[f] = d[f]
    BY Filled
  <2>2. LexmarkMib(d, r) = c
    BY DEF LexmarkMib
  <2> HIDE DEF c
  <2>3. QED
    BY <2>1, <2>2 DEF Grows, KeepsFields, Fields, InfoFields
<1>16. Grows(d, DlinkMib(d, r), {})
  <2> DEFINE P == {}
             e0 == FillFrom(DlinkReads, {"firmware", "serial", "name"}, d, r)
             e1 == [e0 EXCEPT !.type = Fill(e0.type, "NETWORKING")]
             e2 == [e1 EXCEPT !.manufacturer = Fill(e1.manufacturer, "D-Link")]
             e3 == [e2 EXCEPT !.firmwares =
                       e2.firmwares \cup Versions({"dlinkHardware"}, r)]
  <2>1. DlinkMib(d, r) = e3
    BY DEF DlinkMib
  <2>2. Grows(d, e0, P)
    BY FilledGrows DEF InfoFields
  <2>3. Grows(d, e1, P)
    BY <2>2, Filling DEF InfoFields
  <2>4. Grows(d, e2, P)
    BY <2>3, Filling DEF InfoFields
  <2>5. Grows(d, e3, P)
    BY <2>4, Changing DEF Fields, InfoFields
  <2> HIDE DEF e0, e1, e2, e3
  <2>6. QED
    BY <2>1, <2>5
<1>17. Grows(d, FoxGateMib(d, r), {})
  <2> DEFINE P == {}
             line(label) == ValueOf(Tags, d.description, label)
             boards == {<<label, line(label)>> :
                           label \in {"BootRom Version", "HardWare Version"}}
             e0 == FillFrom(FoxGateReads, {"firmware"}, d, r)
             e1 == [e0 EXCEPT !.manufacturer = Fill(e0.manufacturer, "FoxGate")]
             e2 == [e1 EXCEPT !.serial = Fill(e1.serial, line("Device serial number"))]
             e3 == [e2 EXCEPT !.model =
                       Fill(e2.model, Fill(TextOf(r, "ntpEntSoftwareName"), line("Device")))]
             e4 == [e3 EXCEPT !.firmwares = e3.firmwares \cup {b \in boards : b[2] # None}]
  <2>1. FoxGateMib(d, r) = e4
    BY DEF FoxGateMib
  <2>2. Grows(d, e0, P)
    BY FilledGrows DEF InfoFields
  <2>3. Grows(d, e1, P)
    BY <2>2, Filling DEF InfoFields
  <2>4. Grows(d, e2, P)
    BY <2>3, Filling DEF InfoFields
  <2>5. Grows(d, e3, P)
    BY <2>4, Filling DEF InfoFields
  <2>6. Grows(d, e4, P)
    BY <2>5, Changing DEF Fields, InfoFields
  <2> HIDE DEF e0, e1, e2, e3, e4
  <2>7. QED
    BY <2>1, <2>6
<1>18. Grows(d, WatchGuardMib(d, r), {})
  <2> DEFINE P == {}
             found == {<<p[2], extract_tag(p[1], p[2], r)>> :
                          p \in {<<"wgSoftwareVersion", "sysb">>,
                                 <<"wgInfoGavService", "gav_version">>,
                                 <<"wgInfoIpsService", "ips_version">>}}
             e0 == d
             e1 == [e0 EXCEPT !.manufacturer = Fill(e0.manufacturer, "WatchGuard")]
             e2 == [e1 EXCEPT !.firmware =
                       Fill(e1.firmware, extract_tag("wgSoftwareVersion", "sysa", r))]
             e3 == [e2 EXCEPT !.firmwares = e2.firmwares \cup {f \in found : f[2] # None}]
  <2>1. WatchGuardMib(d, r) = e3
    BY DEF WatchGuardMib
  <2>2. Grows(d, e0, P)
    BY Unchanged
  <2>3. Grows(d, e1, P)
    BY <2>2, Filling DEF InfoFields
  <2>4. Grows(d, e2, P)
    BY <2>3, Filling DEF InfoFields
  <2>5. Grows(d, e3, P)
    BY <2>4, Changing DEF Fields, InfoFields
  <2> HIDE DEF e0, e1, e2, e3
  <2>6. QED
    BY <2>1, <2>5
<1>19. Grows(d, EmcMib(d, r), {})
  <2> DEFINE P == {}
             e0 == FillFrom(EmcReads, {"model"}, d, r)
             e1 == [e0 EXCEPT !.type = Fill(e0.type, "NETWORKING")]
             e2 == [e1 EXCEPT !.serial = Fill(e1.serial, ValueAt(r, "connUnitSn", 0))]
  <2>1. EmcMib(d, r) = IF r["connUnitId"] = <<>> THEN d ELSE e2
    BY DEF EmcMib
  <2>2. Grows(d, e0, P)
    BY FilledGrows DEF InfoFields
  <2>3. Grows(d, e1, P)
    BY <2>2, Filling DEF InfoFields
  <2>4. Grows(d, e2, P)
    BY <2>3, Filling DEF InfoFields
  <2> HIDE DEF e0, e1, e2
  <2>5. QED
    BY <2>1, <2>4, Unchanged
<1>20. Grows(d, HitachiMib(d, r), {})
  <2> DEFINE P == {}
             model == TextOf(r, "raidModel")
             e0 == FillFrom(HitachiReads, {"serial", "firmware"}, d, r)
             e1 == [e0 EXCEPT !.manufacturer = Fill(e0.manufacturer, "Hitachi Vantara")]
             e2 == [e1 EXCEPT !.model = Fill(e1.model, model)]
             e3 == [e2 EXCEPT !.type =
                       Fill(e2.type, IF model \in VspModels THEN "STORAGE" ELSE "NETWORKING")]
  <2>1. HitachiMib(d, r) = IF r["raidListSerial"] = <<>> THEN d ELSE e3
    BY DEF HitachiMib
  <2>2. Grows(d, e0, P)
    BY FilledGrows DEF InfoFields
  <2>3. Grows(d, e1, P)
    BY <2>2, Filling DEF InfoFields
  <2>4. Grows(d, e2, P)
    BY <2>3, Filling DEF InfoFields
  <2>5. Grows(d, e3, P)
    BY <2>4, Filling DEF InfoFields
  <2> HIDE DEF e0, e1, e2, e3
  <2>6. QED
    BY <2>1, <2>5, Unchanged
<1>21. Grows(d, RadwareMib(d, r), {})
  <2> DEFINE P == {}
             platform == first_of(RadwareReads, "model", r)
             board == <<TextOf(r, "hwMainBoardNumber"), TextOf(r, "hwMainBoardRevision")>>
             e0 == FillFrom(RadwareReads, {"firmware", "serial"}, d, r)
             e1 == [e0 EXCEPT !.manufacturer = Fill(e0.manufacturer, "Radware")]
             e2 == [e1 EXCEPT !.model =
                       Fill(e1.model, IF platform = None THEN None ELSE "Alteon " \o platform)]
             e3 == [e2 EXCEPT !.firmwares =
                       e2.firmwares \cup {b \in {board} : b[1] # None /\ b[2] # None}
                                      \cup Versions({"hwVersion"}, r)]
  <2>1. RadwareMib(d, r) = e3
    BY DEF RadwareMib
  <2>2. Grows(d, e0, P)
    BY FilledGrows DEF InfoFields
  <2>3. Grows(d, e1, P)
    BY <2>2, Filling DEF InfoFields
  <2>4. Grows(d, e2, P)
    BY <2>3, Filling DEF InfoFields
  <2>5. Grows(d, e3, P)
    BY <2>4, Changing DEF Fields, InfoFields
  <2> HIDE DEF e0, e1, e2, e3
  <2>6. QED
    BY <2>1, <2>5
<1>22. Grows(d, RnxMib(d, r), {"plugs"})
  <2> DEFINE P == {"plugs"}
             e0 == FillFrom(RnxReads, {"serial", "firmware"}, d, r)
             e1 == [e0 EXCEPT !.type = Fill(e0.type, pdu_type)]
             e2 == [e1 EXCEPT !.manufacturer = Fill(e1.manufacturer, "RNX")]
             e3 == [e2 EXCEPT !.model = Fill(e2.model, ValueOf(Tags, d.description, "RNX"))]
             e4 == [e3 EXCEPT !.plugs =
                       IF rnx_outlets(r) = {} THEN e3.plugs ELSE rnx_outlets(r)]
             e5 == [e4 EXCEPT !.pdu_model = Fill(TextOf(r, "upduPartNumber"), e4.pdu_model)]
  <2>1. RnxMib(d, r) = IF pdu_type # "PDU" THEN e3 ELSE e5
    BY DEF RnxMib
  <2>2. Grows(d, e0, P)
    BY FilledGrows DEF InfoFields
  <2>3. Grows(d, e1, P)
    BY <2>2, Filling DEF InfoFields
  <2>4. Grows(d, e2, P)
    BY <2>3, Filling DEF InfoFields
  <2>5. Grows(d, e3, P)
    BY <2>4, Filling DEF InfoFields
  <2>6. Grows(d, e4, P)
    BY <2>5, Changing DEF Fields, InfoFields
  <2>7. Grows(d, e5, P)
    BY <2>6, Changing DEF Fields, InfoFields
  <2> HIDE DEF e0, e1, e2, e3, e4, e5
  <2>8. QED
    BY <2>1, <2>5, <2>7
<1>23. Grows(d, KyoceraMib(d, r), {})
  BY FilledGrows DEF InfoFields, KyoceraMib
<1>24. Grows(d, ToshibaMib(d, r), {})
  <2> DEFINE P == {}
             e0 == FillFrom(ToshibaReads, {"serial", "model"}, d, r)
             e1 == [e0 EXCEPT !.firmwares =
                       e0.firmwares \cup Versions({"bcpProductVersion", "bcpDeviceBootVersion"}, r)]
  <2>1. ToshibaMib(d, r) = e1
    BY DEF ToshibaMib
  <2>2. Grows(d, e0, P)
    BY FilledGrows DEF InfoFields
  <2>3. Grows(d, e1, P)
    BY <2>2, Changing DEF Fields, InfoFields
  <2> HIDE DEF e0, e1
  <2>4. QED
    BY <2>1, <2>3
<1>25. Grows(d, ZebraMib(d, r), {})
  <2> DEFINE P == {}
             e0 == FillFrom(ZebraReads, {"name", "serial", "model", "firmware"}, d, r)
             e1 == [e0 EXCEPT !.manufacturer =
                       Fill(e0.manufacturer, Fill(TextOf(r, "zbrCompanyName"), "Zebra Technologies"))]
             e2 == [e1 EXCEPT !.firmwares =
                       e1.firmwares \cup Versions({"zbrLinkosVersion"}, r)]
  <2>1. ZebraMib(d, r) = e2
    BY DEF ZebraMib
  <2>2. Grows(d, e0, P)
    BY FilledGrows DEF InfoFields
  <2>3. Grows(d, e1, P)
    BY <2>2, Filling DEF InfoFields
  <2>4. Grows(d, e2, P)
    BY <2>3, Changing DEF Fields, InfoFields
  <2> HIDE DEF e0, e1, e2
  <2>5. QED
    BY <2>1, <2>4
<1>26. Grows(d, HpCitizenMib(d, r), {})
  <2> DEFINE P == {}
             made == Fill(TextOf(r, "hpManufacturer"), "HP")
             versions == Versions({"hpHWVersion", "hpROMVersion"}, r)
                             \ {<<"hpROMVersion", "null">>}
             e0 == FillFrom(HpCitizenReads, {"firmware", "serial"}, d, r)
             e1 == [e0 EXCEPT !.type = Fill(e0.type, "STORAGE")]
             e2 == [e1 EXCEPT !.manufacturer =
                       Fill(e1.manufacturer, IF made = "HP" THEN "Hewlett-Packard" ELSE made)]
             e3 == [e2 EXCEPT !.model = Fill(e2.model, TextOf(r, "hpProduct"))]
             e4 == [e3 EXCEPT !.firmwares =
                       e3.firmwares \cup IF TextOf(r, "hpProduct") = None THEN {} ELSE versions]
  <2>1. HpCitizenMib(d, r) = e4
    BY DEF HpCitizenMib
  <2>2. Grows(d, e0, P)
    BY FilledGrows DEF InfoFields
  <2>3. Grows(d, e1, P)
    BY <2>2, Filling DEF InfoFields
  <2>4. Grows(d, e2, P)
    BY <2>3, Filling DEF InfoFields
  <2>5. Grows(d, e3, P)
    BY <2>4, Filling DEF InfoFields
  <2>6. Grows(d, e4, P)
    BY <2>5, Changing DEF Fields, InfoFields
  <2> HIDE DEF e0, e1, e2, e3, e4
  <2>7. QED
    BY <2>1, <2>6
<1>27. Grows(d, AvayaMib(d, r), {})
  <2> DEFINE P == {}
             e0 == FillFrom(AvayaReads, {"firmware", "model", "serial"}, d, r)
             e1 == [e0 EXCEPT !.type = Fill(e0.type, "NETWORKING")]
             e2 == [e1 EXCEPT !.firmwares = e1.firmwares \cup Versions(
                          {"endptDspVersion", "endptHwVer", "endptOpensslVersion",
                           "endptOpensshVersion"}, r)]
  <2>1. AvayaMib(d, r) = e2
    BY DEF AvayaMib
  <2>2. Grows(d, e0, P)
    BY FilledGrows DEF InfoFields
  <2>3. Grows(d, e1, P)
    BY <2>2, Filling DEF InfoFields
  <2>4. Grows(d, e2, P)
    BY <2>3, Changing DEF Fields, InfoFields
  <2> HIDE DEF e0, e1, e2
  <2>5. QED
    BY <2>1, <2>4
<1>28. Grows(d, CiscoUcsMib(d, r), {})
  BY FilledGrows DEF InfoFields, CiscoUcsMib
<1>29. Grows(d, AkcpMib(d, r), {})
  <2> DEFINE P == {}
             word(tag) == ValueOf(Tags, TextOf(r, "cfgSystemDescription"), tag)
             e0 == FillFrom(AkcpReads, {"name"}, d, r)
             e1 == [e0 EXCEPT !.type = Fill(e0.type, "NETWORKING")]
             e2 == [e1 EXCEPT !.manufacturer = Fill(e1.manufacturer, "AKCP")]
             e3 == [e2 EXCEPT !.serial =
                       Fill(e2.serial, ValueOf(Tags, TextOf(r, "sensorProbeMAC"), "MAC"))]
             e4 == [e3 EXCEPT !.model = Fill(e3.model, word("model"))]
             e5 == [e4 EXCEPT !.firmware = Fill(e4.firmware, word("version"))]
  <2>1. AkcpMib(d, r) = e5
    BY DEF AkcpMib
  <2>2. Grows(d, e0, P)
    BY FilledGrows DEF InfoFields
  <2>3. Grows(d, e1, P)
    BY <2>2, Filling DEF InfoFields
  <2>4. Grows(d, e2, P)
    BY <2>3, Filling DEF InfoFields
  <2>5. Grows(d, e3, P)
    BY <2>4, Filling DEF InfoFields
  <2>6. Grows(d, e4, P)
    BY <2>5, Filling DEF InfoFields
  <2>7. Grows(d, e5, P)
    BY <2>6, Filling DEF InfoFields
  <2> HIDE DEF e0, e1, e2, e3, e4, e5
  <2>8. QED
    BY <2>1, <2>7
<1>30. Grows(d, UpsMib(d, r), {})
  <2> DEFINE P == {}
             e0 == FillFrom(UpsReads, {"manufacturer", "model", "serial", "firmware"}, d, r)
             e1 == [e0 EXCEPT !.type = Fill(e0.type, "NETWORKING")]
  <2>1. UpsMib(d, r) = e1
    BY DEF UpsMib
  <2>2. Grows(d, e0, P)
    BY FilledGrows DEF InfoFields
  <2>3. Grows(d, e1, P)
    BY <2>2, Filling DEF InfoFields
  <2> HIDE DEF e0, e1
  <2>4. QED
    BY <2>1, <2>3
<1>31. Grows(d, SiemensMib(d, r), {})
  <2> DEFINE P == {}
             read_serial == Fill(TextOf(r, "snInfoSerialNr"), TextOf(r, "moduleSerial"))
             serial == IF read_serial = "not set" THEN None ELSE read_serial
             e0 == FillFrom(SiemensReads, {"firmware", "name"}, d, r)
             e1 == [e0 EXCEPT !.manufacturer = Fill(e0.manufacturer, "Siemens")]
             e2 == [e1 EXCEPT !.model =
                       Fill(e1.model, model_for_mlfb(first_of(SiemensReads, "model", r)))]
             e3 == [e2 EXCEPT !.name = Fill(e2.name, serial)]
             e4 == [e3 EXCEPT !.serial = Fill(e3.serial, serial)]
  <2>1. SiemensMib(d, r) = e4
    BY DEF SiemensMib
  <2>2. Grows(d, e0, P)
    BY FilledGrows DEF InfoFields
  <2>3. Grows(d, e1, P)
    BY <2>2, Filling DEF InfoFields
  <2>4. Grows(d, e2, P)
    BY <2>3, Filling DEF InfoFields
  <2>5. Grows(d, e3, P)
    BY <2>4, Filling DEF InfoFields
  <2>6. Grows(d, e4, P)
    BY <2>5, Filling DEF InfoFields
  <2> HIDE DEF e0, e1, e2, e3, e4
  <2>7. QED
    BY <2>1, <2>6
<1>32. Grows(d, CheckPointMib(d, r), {})
  <2> DEFINE P == {}
             product == version_pair("svnProdVerMajor", "svnProdVerMinor", r)
             system == version_pair("osMajorVer", "osMinorVer", r)
             found == {<<TextOf(r, "svnProdName"), product>>, <<TextOf(r, "osName"), system>>}
             e0 == FillFrom(CheckPointReads, {"serial", "model"}, d, r)
             e1 == [e0 EXCEPT !.manufacturer =
                       Fill(e0.manufacturer, TextOf(r, "svnApplianceManufacturer"))]
             e2 == [e1 EXCEPT !.firmware =
                       Fill(e1.firmware, version_pair("svnVersion", "svnBuild", r))]
             e3 == [e2 EXCEPT !.firmwares = e2.firmwares \cup {f \in found : f[2] # None}]
  <2>1. CheckPointMib(d, r) = e3
    BY DEF CheckPointMib
  <2>2. Grows(d, e0, P)
    BY FilledGrows DEF InfoFields
  <2>3. Grows(d, e1, P)
    BY <2>2, Filling DEF InfoFields
  <2>4. Grows(d, e2, P)
    BY <2>3, Filling DEF InfoFields
  <2>5. Grows(d, e3, P)
    BY <2>4, Changing DEF Fields, InfoFields
  <2> HIDE DEF e0, e1, e2, e3
  <2>6. QED
    BY <2>1, <2>5
<1>33. Grows(d, IdracMib(d, r), {})
  BY FilledGrows DEF InfoFields, IdracMib
<1>34. QED
  BY <1>1, <1>2, <1>3, <1>4, <1>5, <1>6, <1>7, <1>8, <1>9, <1>10, <1>11, <1>12, <1>13,
     <1>14, <1>15, <1>16, <1>17, <1>18, <1>19, <1>20, <1>21, <1>22, <1>23, <1>24, <1>25,
     <1>26, <1>27, <1>28, <1>29, <1>30, <1>31, <1>32, <1>33, Places DEF run

\* The attributes and attachments of a port stay.
KeepsPort(p, q) ==
    /\ \A f \in {"descr", "mac"} : p[f] # None => q[f] = p[f]
    /\ \A f \in {"macs", "ips", "neighbors"} : p[f] \subseteq q[f]

KeepsPorts(ports, others) ==
    \A i \in DOMAIN ports : i \in DOMAIN others /\ KeepsPort(ports[i], others[i])

IsPort(p) == p = [f \in {"descr", "mac", "macs", "ips", "neighbors"} |-> p[f]]

PortModules == {"if", "bridge", "lldp", "cdp", "ip"}

\* What only one module determines is not there before this one has run.
FreshPorts(ports, ran) ==
    /\ ran \cap PortModules = {} => DOMAIN ports = {}
    /\ \A i \in DOMAIN ports :
          /\ IsPort(ports[i])
          /\ "bridge" \notin ran => ports[i].macs = {}
          /\ "ip" \notin ran => ports[i].ips = {}

LEMMA Attached ==
    ASSUME NEW ports, NEW found, NEW ran, NEW module \in PortModules, FreshPorts(ports, ran),
           \A i \in DOMAIN found :
              LET p == port_mut(ports, i)
              IN /\ IsPort(found[i]) /\ KeepsPort(p, found[i])
                 /\ module # "bridge" => found[i].macs = p.macs
                 /\ module # "ip" => found[i].ips = p.ips
    PROVE  /\ KeepsPorts(ports, Or(found, ports))
           /\ FreshPorts(Or(found, ports), ran \cup {module})
<1> DEFINE e == Or(found, ports)
<1>1. /\ DOMAIN e = DOMAIN found \cup DOMAIN ports
      /\ \A i \in DOMAIN found : e[i] = found[i]
      /\ \A i \in DOMAIN ports : i \notin DOMAIN found => e[i] = ports[i]
  BY DEF Or
<1> HIDE DEF e
<1>2. KeepsPorts(ports, e)
  BY <1>1 DEF KeepsPorts, KeepsPort, port_mut
<1>3. ASSUME NEW i \in DOMAIN e
      PROVE  /\ IsPort(e[i])
             /\ "bridge" \notin ran /\ module # "bridge" => e[i].macs = {}
             /\ "ip" \notin ran /\ module # "ip" => e[i].ips = {}
  <2>1. CASE i \in DOMAIN found
    BY <1>1, <2>1 DEF FreshPorts, port_mut, Port
  <2>2. CASE i \notin DOMAIN found
    BY <1>1, <2>2 DEF FreshPorts
  <2>3. QED
    BY <2>1, <2>2
<1>4. FreshPorts(e, ran \cup {module})
  BY <1>3 DEF FreshPorts
<1>5. QED
  BY <1>2, <1>4 DEF e

LEMMA PortIsPort ==
    ASSUME NEW ports, NEW ran, FreshPorts(ports, ran), NEW i
    PROVE  /\ IsPort(port_mut(ports, i))
           /\ "bridge" \notin ran => port_mut(ports, i).macs = {}
           /\ "ip" \notin ran => port_mut(ports, i).ips = {}
  BY DEF FreshPorts, port_mut, Port, IsPort

LEMMA RunPorts ==
    ASSUME NEW d, IsDevice(d), NEW r, NEW ran, FreshPorts(d.ports, ran),
           NEW module \in PortModules,
           ran \cap PortModules # {} => module # "if", module \notin ran
    PROVE  LET e == run(module, d, r)
           IN KeepsPorts(d.ports, e.ports) /\ FreshPorts(e.ports, ran \cup {module})
<1>1. CASE module = "if"
  <2>1. run(module, d, r) = IfMib(d, r)
    BY <1>1 DEF run
  <2>2. IfMib(d, r).ports =
           [i \in DOMAIN r["ifDescr"] \cup DOMAIN r["ifPhysAddress"] |->
              [Port EXCEPT !.descr = ValueAt(r, "ifDescr", i),
                           !.mac = ValueAt(r, "ifPhysAddress", i)]]
    BY DEF IfMib, IsDevice, Fields
  <2>3. DOMAIN d.ports = {}
    BY <1>1 DEF FreshPorts
  <2>4. KeepsPorts(d.ports, IfMib(d, r).ports)
    BY <2>3 DEF KeepsPorts
  <2>5. FreshPorts(IfMib(d, r).ports, ran \cup {module})
    <3> DEFINE q == IfMib(d, r).ports
    <3>1. ASSUME NEW i \in DOMAIN q
          PROVE  IsPort(q[i]) /\ q[i].macs = {} /\ q[i].ips = {}
      <4>1. q[i] = [Port EXCEPT !.descr = ValueAt(r, "ifDescr", i),
                                !.mac = ValueAt(r, "ifPhysAddress", i)]
        BY <2>2
      <4>2. QED
        BY <4>1 DEF IsPort, Port
    <3> HIDE DEF q
    <3>2. FreshPorts(q, ran \cup {module})
      BY <3>1 DEF FreshPorts
    <3>3. QED
      BY <3>2 DEF q
  <2>6. QED
    BY <2>1, <2>4, <2>5
<1>2. CASE module = "bridge"
  <2> DEFINE with(i) == [port_mut(d.ports, i) EXCEPT !.macs = learned_macs(r, i)]
             S == {i \in IfIndices(r, "dot1dBasePortIfIndex") : learned_macs(r, i) # {}}
             found == [i \in S |-> with(i)]
  <2>1. run(module, d, r).ports = Or(found, d.ports)
    BY <1>2 DEF run, BridgeMib, IsDevice, Fields
  <2>2. ASSUME NEW i \in DOMAIN found
        PROVE  LET p == port_mut(d.ports, i)
               IN /\ IsPort(found[i]) /\ KeepsPort(p, found[i])
                  /\ module # "bridge" => found[i].macs = p.macs
                  /\ module # "ip" => found[i].ips = p.ips
    BY <1>2, PortIsPort DEF IsPort, KeepsPort
  <2> HIDE DEF found
  <2>3. QED
    BY <2>1, <2>2, Attached
<1>3. ASSUME NEW column, module = "lldp" \/ module = "cdp"
      PROVE  LET e == Neighbors(d, r, column)
             IN KeepsPorts(d.ports, e.ports) /\ FreshPorts(e.ports, ran \cup {module})
  <2> DEFINE push(p, i) == [p EXCEPT !.neighbors = @ \cup {<<column, r[column][i]>>}]
             found == [i \in DOMAIN r[column] |-> push(port_mut(d.ports, i), i)]
  <2>1. Neighbors(d, r, column).ports = Or(found, d.ports)
    BY DEF Neighbors, IsDevice, Fields
  <2>2. ASSUME NEW i \in DOMAIN found
        PROVE  LET p == port_mut(d.ports, i)
               IN /\ IsPort(found[i]) /\ KeepsPort(p, found[i])
                  /\ module # "bridge" => found[i].macs = p.macs
                  /\ module # "ip" => found[i].ips = p.ips
    <3> DEFINE p == port_mut(d.ports, i)
               more == {<<column, r[column][i]>>}
    <3>1. found[i] = [p EXCEPT !.neighbors = @ \cup more]
      OBVIOUS
    <3>2. IsPort(p)
      BY PortIsPort
    <3> HIDE DEF found, p, more
    <3>3. /\ IsPort(found[i]) /\ KeepsPort(p, found[i])
          /\ found[i].macs = p.macs /\ found[i].ips = p.ips
      BY <3>1, <3>2 DEF IsPort, KeepsPort
    <3>4. QED
      BY <3>3 DEF p
  <2> HIDE DEF found
  <2>3. QED
    BY <2>1, <2>2, Attached
<1>4. CASE module = "lldp"
  BY <1>3, <1>4 DEF run, LldpMib
<1>5. CASE module = "cdp"
  BY <1>3, <1>5 DEF run, CdpMib
<1>6. CASE module = "ip"
  <2> DEFINE index == r["ipAdEntIfIndex"]
             kept == DOMAIN index \ Skipped
             with(i) == [port_mut(d.ports, i) EXCEPT !.ips = {a \in kept : index[a] = i}]
             found == [i \in {index[a] : a \in kept} |-> with(i)]
  <2>1. run(module, d, r).ports = Or(found, d.ports)
    BY <1>6 DEF run, IpMib, IsDevice, Fields
  <2>2. ASSUME NEW i \in DOMAIN found
        PROVE  LET p == port_mut(d.ports, i)
               IN /\ IsPort(found[i]) /\ KeepsPort(p, found[i])
                  /\ module # "bridge" => found[i].macs = p.macs
                  /\ module # "ip" => found[i].ips = p.ips
    <3> DEFINE p == port_mut(d.ports, i)
               more == {a \in kept : index[a] = i}
    <3>1. found[i] = [p EXCEPT !.ips = more]
      OBVIOUS
    <3>2. IsPort(p) /\ p.ips = {}
      BY <1>6, PortIsPort
    <3> HIDE DEF found, p, more
    <3>3. /\ IsPort(found[i]) /\ KeepsPort(p, found[i]) /\ found[i].macs = p.macs
      BY <3>1, <3>2 DEF IsPort, KeepsPort
    <3>4. QED
      BY <1>6, <3>3 DEF p
  <2> HIDE DEF found
  <2>3. QED
    BY <2>1, <2>2, Attached
<1>7. QED
  BY <1>1, <1>2, <1>4, <1>5, <1>6 DEF PortModules

Counting == {"hp_printer", "brother", "ricoh", "konica"}

Plugging == {"raritan", "rnx"}

(* The modules that have run when the k-th request has been made.           *)
Ran(k) == {Reads[j].module : j \in {i \in 1..k : IsLast(i)}}

\* What only one module determines is not there before this one has run; page
\* counters and plugs are those of a module that applies to the device.
Fresh(d, ran) ==
    /\ IsDevice(d) /\ ran \subseteq Modules
    /\ ran = {} => d = NetworkDevice
    /\ FreshPorts(d.ports, ran)
    /\ "entity" \notin ran => d.components = {}
    /\ "printer" \notin ran => d.total_pages = {} /\ d.supplies = {}
    /\ DOMAIN d.counters # {} => \E m \in ran \cap Counting : applies_to(m, d)
    /\ d.plugs # {} => \E m \in ran \cap Plugging : applies_to(m, d)

LEMMA Applying ==
    ASSUME NEW d
    PROVE  /\ \A m, n \in Counting : applies_to(m, d) /\ applies_to(n, d) => m = n
           /\ \A m, n \in Plugging : applies_to(m, d) /\ applies_to(n, d) => m = n
  BY DEF Counting, Plugging, applies_to, Subtree

LEMMA SystemFresh ==
    ASSUME NEW r
    PROVE  LET e == SystemMib(NetworkDevice, r)
           IN Keeps(NetworkDevice, e) /\ Fresh(e, {"system"})
<1> DEFINE e == SystemMib(NetworkDevice, r)
           a == TextOf(r, "sysDescr")
           b == TextOf(r, "sysName")
           c == ValueAt(r, "sysObjectID", 0)
<1>1. e = [NetworkDevice EXCEPT !.description = a, !.name = b, !.sys_object_id = c]
  BY DEF SystemMib
<1> HIDE DEF e, a, b, c
<1>2. /\ IsDevice(e) /\ e.ports = <<>> /\ e.components = {} /\ e.total_pages = {}
      /\ e.supplies = {} /\ e.counters = <<>> /\ e.plugs = {}
  BY <1>1 DEF IsDevice, NetworkDevice, Fields, InfoFields
<1>3. Keeps(NetworkDevice, e)
  BY <1>1 DEF Keeps, NetworkDevice, InfoFields
<1>4. Fresh(e, {"system"})
  BY <1>2, Places DEF Fresh, FreshPorts
<1>5. QED
  BY <1>3, <1>4 DEF e

(* A module that comes after those that have run takes nothing away.        *)
LEMMA RunFresh ==
    ASSUME NEW d, NEW r, NEW ran, Fresh(d, ran), NEW module \in Modules,
           applies_to(module, d), \A n \in ran : Place[n] < Place[module]
    PROVE  LET e == run(module, d, r)
           IN Keeps(d, e) /\ Fresh(e, ran \cup {module})
<1>1. CASE module = "system"
  <2>1. ran = {}
    BY <1>1, Places DEF Fresh
  <2>2. d = NetworkDevice
    BY <2>1 DEF Fresh
  <2>3. run(module, d, r) = SystemMib(NetworkDevice, r)
    BY <1>1, <2>2 DEF run
  <2>4. ran \cup {module} = {"system"}
    BY <1>1, <2>1
  <2>5. QED
    BY <2>2, <2>3, <2>4, SystemFresh
<1>2. CASE module # "system"
  <2> DEFINE parts == CASE module \in {"if", "bridge", "lldp", "cdp", "ip"} -> {"ports"}
                        [] module = "entity" -> {"components"}
                        [] module = "printer" -> {"total_pages", "supplies", "counters"}
                        [] module \in {"hp_printer", "brother", "ricoh", "konica"} ->
                              {"counters"}
                        [] module \in {"raritan", "rnx"} -> {"plugs"}
                        [] OTHER -> {}
             e == run(module, d, r)
             after == ran \cup {module}
  <2>1. IsDevice(d) /\ ran \subseteq Modules /\ module \notin ran
    <3>1. IsDevice(d) /\ ran \subseteq Modules
      BY DEF Fresh
    <3>2. Place[module] \in Nat
      BY PlaceType
    <3>3. QED
      BY <3>1, <3>2
  <2>2. Grows(d, e, parts)
    BY <1>2, <2>1, RunGrows
  <2>3. /\ module \notin PortModules => "ports" \notin parts
        /\ module # "entity" => "components" \notin parts
        /\ module # "printer" => "total_pages" \notin parts /\ "supplies" \notin parts
        /\ module \notin Counting \cup {"printer"} => "counters" \notin parts
        /\ module \notin Plugging => "plugs" \notin parts
    BY DEF PortModules, Counting, Plugging
  <2> HIDE DEF e, parts
  <2>4. \A m \in Modules : applies_to(m, e) <=> applies_to(m, d)
    BY <2>2 DEF Grows, applies_to
  <2>5. KeepsPorts(d.ports, e.ports) /\ FreshPorts(e.ports, after)
    <3>1. FreshPorts(d.ports, ran)
      BY DEF Fresh
    <3>2. CASE module \in PortModules
      <4>1. module = "if" => ran \cap PortModules = {}
        BY Places DEF PortModules
      <4>2. QED
        BY <2>1, <3>1, <3>2, <4>1, RunPorts DEF e
    <3>3. CASE module \notin PortModules
      <4>1. e.ports = d.ports
        BY <2>2, <2>3, <3>3 DEF Grows
      <4>2. KeepsPorts(d.ports, d.ports)
        BY DEF KeepsPorts, KeepsPort
      <4>3. FreshPorts(d.ports, after)
        BY <3>1, <3>3 DEF FreshPorts, PortModules
      <4>4. QED
        BY <4>1, <4>2, <4>3
    <3>4. QED
      BY <3>2, <3>3
  <2>6. d.components \subseteq e.components /\ ("entity" \notin after => e.components = {})
    BY <2>1, <2>2, <2>3 DEF Fresh, Grows
  <2>7. /\ d.total_pages \subseteq e.total_pages /\ d.supplies \subseteq e.supplies
        /\ "printer" \notin after => e.total_pages = {} /\ e.supplies = {}
    BY <2>1, <2>2, <2>3 DEF Fresh, Grows
  <2>8. /\ \A c \in DOMAIN d.counters :
              c \in DOMAIN e.counters /\ e.counters[c] = d.counters[c]
        /\ DOMAIN e.counters # {} => \E m \in after \cap Counting : applies_to(m, e)
    <3>1. CASE module \in Counting
      <4>1. DOMAIN d.counters = {}
        BY <2>1, <3>1, Applying DEF Fresh
      <4>2. module \in after \cap Counting /\ applies_to(module, e)
        BY <2>4, <3>1
      <4>3. QED
        BY <4>1, <4>2
    <3>2. CASE module = "printer"
      <4>1. ran \cap Counting = {}
        BY <3>2, Places DEF Counting
      <4>2. DOMAIN d.counters = {}
        BY <4>1 DEF Fresh
      <4>3. run(module, d, r) = PrinterMib(d, r)
        BY <3>2 DEF run
      <4>4. PrinterMib(d, r).counters = d.counters \/ PrinterMib(d, r).counters = <<>>
        <5>1. LET c == FillFrom(PrinterReads, {"serial"}, d, r)
              IN IsDevice(c) /\ c.counters = d.counters
          BY <2>1, Filled DEF Fields, InfoFields
        <5>2. QED
          BY <5>1 DEF PrinterMib, IsDevice, Fields
      <4>5. DOMAIN e.counters = {}
        BY <4>2, <4>3, <4>4 DEF e
      <4>6. QED
        BY <4>2, <4>5
    <3>3. CASE module \notin Counting \cup {"printer"}
      <4>1. e.counters = d.counters
        BY <2>2, <2>3, <3>3 DEF Grows
      <4>2. DOMAIN d.counters # {} => \E m \in ran \cap Counting : applies_to(m, d)
        BY DEF Fresh
      <4>3. QED
        BY <2>1, <2>4, <4>1, <4>2
    <3>4. QED
      BY <3>1, <3>2, <3>3
  <2>9. /\ d.plugs \subseteq e.plugs
        /\ e.plugs # {} => \E m \in after \cap Plugging : applies_to(m, e)
    <3>1. CASE module \in Plugging
      <4>1. d.plugs = {}
        BY <2>1, <3>1, Applying DEF Fresh
      <4>2. module \in after \cap Plugging /\ applies_to(module, e)
        BY <2>4, <3>1
      <4>3. QED
        BY <4>1, <4>2
    <3>2. CASE module \notin Plugging
      <4>1. e.plugs = d.plugs
        BY <2>2, <2>3, <3>2 DEF Grows
      <4>2. d.plugs # {} => \E m \in ran \cap Plugging : applies_to(m, d)
        BY DEF Fresh
      <4>3. QED
        BY <2>1, <2>4, <4>1, <4>2
    <3>3. QED
      BY <3>1, <3>2
  <2>10. Keeps(d, e)
    <3>1. \A f \in InfoFields :
             \/ d[f] = None
             \/ e[f] = d[f]
             \/ f = "model" /\ e[f] # None /\ e[f] = Unbranded(d[f])
      BY <2>2 DEF Grows, KeepsFields
    <3>2. \A i \in DOMAIN d.ports :
             /\ i \in DOMAIN e.ports
             /\ \A f \in {"descr", "mac"} :
                   d.ports[i][f] # None => e.ports[i][f] = d.ports[i][f]
             /\ \A f \in {"macs", "ips", "neighbors"} : d.ports[i][f] \subseteq e.ports[i][f]
      BY <2>5 DEF KeepsPorts, KeepsPort
    <3>3. \A f \in {"components", "total_pages", "supplies", "firmwares", "plugs"} :
             d[f] \subseteq e[f]
      BY <2>2, <2>6, <2>7, <2>9 DEF Grows
    <3>4. QED
      BY <2>8, <3>1, <3>2, <3>3 DEF Keeps
  <2>11. Fresh(e, after)
    <3>1. IsDevice(e) /\ after \subseteq Modules /\ after # {}
      BY <2>1, <2>2 DEF Grows
    <3>2. QED
      BY <2>5, <2>6, <2>7, <2>8, <2>9, <3>1 DEF Fresh
  <2>12. QED
    BY <2>10, <2>11 DEF e
<1>3. QED
  BY <1>1, <1>2

LEMMA PlaceOfOne == \A m, n \in Modules : Place[m] = Place[n] => m = n
  BY Places

LEMMA RanBefore ==
    ASSUME NEW k \in 1..Len(Reads)
    PROVE  /\ k - 1 \in Nat /\ Reads[k].module \in Modules /\ Ran(k - 1) \subseteq Modules
           /\ Ran(k) = IF IsLast(k) THEN Ran(k - 1) \cup {Reads[k].module} ELSE Ran(k - 1)
           /\ IsLast(k) => \A n \in Ran(k - 1) : Place[n] < Place[Reads[k].module]
<1>1. Len(Reads) \in Nat /\ k \in Nat /\ k >= 1 /\ k <= Len(Reads)
  BY ReadsProgram
<1>2. \A j \in 1..Len(Reads) : Reads[j].module \in Modules
  BY ReadsProgram DEF Program
<1>3. \A i, j \in 1..Len(Reads) : i <= j => Place[Reads[i].module] <= Place[Reads[j].module]
  BY ReadsProgram DEF Program
<1>4. Ran(k) = IF IsLast(k) THEN Ran(k - 1) \cup {Reads[k].module} ELSE Ran(k - 1)
  <2>1. 1..k = 1..(k - 1) \cup {k}
    BY <1>1
  <2>2. QED
    BY <2>1 DEF Ran
<1>5. ASSUME NEW n \in Ran(k - 1)
      PROVE  n \in Modules /\ Place[n] < Place[Reads[k].module]
  <2>1. PICK j \in 1..(k - 1) : IsLast(j) /\ n = Reads[j].module
    BY DEF Ran
  <2>2. /\ j \in 1..Len(Reads) /\ j + 1 \in 1..Len(Reads) /\ j <= j + 1 /\ j + 1 <= k
        /\ j # Len(Reads)
    BY <1>1
  <2>3. /\ n \in Modules /\ Reads[j + 1].module \in Modules /\ Reads[k].module \in Modules
        /\ Reads[j + 1].module # n
    BY <1>2, <2>1, <2>2 DEF IsLast
  <2>4. /\ Place[n] <= Place[Reads[j + 1].module]
        /\ Place[Reads[j + 1].module] <= Place[Reads[k].module]
    BY <1>3, <2>1, <2>2
  <2>5. Place[n] # Place[Reads[j + 1].module]
    BY <2>3, PlaceOfOne
  <2>6. QED
    BY <2>3, <2>4, <2>5, PlaceType
<1>6. QED
  BY <1>1, <1>2, <1>4, <1>5

LEMMA SameKeeps == \A d : Keeps(d, d)
  BY DEF Keeps

LEMMA AfterFresh ==
    ASSUME NEW k \in 1..Len(Reads), NEW d, NEW r, Fresh(d, Ran(k - 1))
    PROVE  Keeps(d, After(k, d, r)) /\ Fresh(After(k, d, r), Ran(k))
<1> DEFINE module == Reads[k].module
           ran == Ran(k - 1)
<1>1. /\ module \in Modules
      /\ Ran(k) = IF IsLast(k) THEN ran \cup {module} ELSE ran
      /\ IsLast(k) => \A n \in ran : Place[n] < Place[module]
  BY RanBefore
<1>2. CASE IsLast(k) /\ applies_to(module, d)
  <2>1. After(k, d, r) = run(module, d, r)
    BY <1>2 DEF After
  <2> HIDE DEF module, ran
  <2>2. Keeps(d, run(module, d, r)) /\ Fresh(run(module, d, r), ran \cup {module})
    BY <1>1, <1>2, RunFresh DEF ran
  <2>3. QED
    BY <1>1, <1>2, <2>1, <2>2
<1>3. CASE ~(IsLast(k) /\ applies_to(module, d))
  <2>1. After(k, d, r) = d
    BY <1>3 DEF After
  <2> HIDE DEF module
  <2>2. Fresh(d, ran \cup {module})
    BY <1>1 DEF Fresh, FreshPorts
  <2>3. QED
    BY <1>1, <2>1, <2>2, SameKeeps
<1>4. QED
  BY <1>2, <1>3

LEMMA NothingRan == Fresh(NetworkDevice, Ran(0))
<1>1. Ran(0) = {}
  BY DEF Ran
<1>2. IsDevice(NetworkDevice)
  BY DEF IsDevice, NetworkDevice, Fields, InfoFields
<1>3. /\ NetworkDevice.ports = <<>> /\ NetworkDevice.counters = <<>>
      /\ NetworkDevice.components = {} /\ NetworkDevice.total_pages = {}
      /\ NetworkDevice.supplies = {} /\ NetworkDevice.plugs = {}
  BY DEF NetworkDevice
<1>4. QED
  BY <1>1, <1>2, <1>3 DEF Fresh, FreshPorts
-----------------------------------------------------------------------------
(* The description of a device is the one of its system group. *)

LEMMA FirstReads ==
    /\ Reads[1].column = "sysDescr" /\ Reads[1].module = "system" /\ Reads[1].fills = None
    /\ Reads[3].module = "system"
    /\ ~IsLast(1) /\ ~IsLast(2) /\ IsLast(3)
    /\ Len(Reads) \in Nat /\ Len(Reads) > 3
    /\ \A k \in 1..Len(Reads) : Reads[k].module \in Modules
<1>1. Starts(Reads) /\ Len(Reads) \in Nat
  BY ReadsProgram
<1>2. /\ Reads[1] = SystemReads[1] /\ Reads[2] = SystemReads[2] /\ Reads[3] = SystemReads[3]
      /\ Reads[4].module = "if" /\ Len(Reads) > 3
  BY <1>1 DEF Starts
<1>3. /\ SystemReads[1].column = "sysDescr" /\ SystemReads[1].fills = None
      /\ SystemReads[1].module = "system" /\ SystemReads[2].module = "system"
      /\ SystemReads[3].module = "system"
  BY DEF SystemReads, Get
<1>4. ~IsLast(1) /\ ~IsLast(2) /\ IsLast(3)
  BY <1>1, <1>2, <1>3 DEF IsLast
<1>5. \A k \in 1..Len(Reads) : Reads[k].module \in Modules
  BY ReadsProgram DEF Program
<1>6. QED
  BY <1>1, <1>2, <1>3, <1>4, <1>5

\* A device after the n-th request, with this description in its system group.
Described(m, n, text) ==
    /\ IsDevice(done(m)[n].device)
    /\ n > 0 => done(m)[n].read["sysDescr"] = m["sysDescr"]
    /\ n >= 3 => done(m)[n].device.description = text

LEMMA DescribedNext ==
    ASSUME NEW m, NEW k \in 1..Len(Reads),
           Described(m, k - 1, Text(ValueAt(m, "sysDescr", 0)))
    PROVE  Described(m, k, Text(ValueAt(m, "sysDescr", 0)))
<1> DEFINE text == Text(ValueAt(m, "sysDescr", 0))
           d == done(m)[k - 1].device
           r == done(m)[k - 1].read
           l == Learned(m, k, d, r)
<1>1. done(m)[k].device = After(k, d, l) /\ done(m)[k].read = l
  <2>1. done(m)[k] = Adds(m, k, done(m)[k - 1])
    BY DoneNext
  <2>2. QED
    BY <2>1 DEF Adds
<1>2. k \in Nat /\ k > 0 /\ k - 1 \in 0..Len(Reads)
  BY FirstReads
<1>3. "sysDescr" \in Columns /\ "sysDescr" \in DOMAIN r
  <2>1. 1 \in 1..Len(Reads)
    BY FirstReads
  <2>2. "sysDescr" \in Columns
    BY <2>1, FirstReads DEF Columns
  <2>3. ReadFrom(m, r)
    BY <1>2, DoneRead
  <2>4. QED
    BY <2>2, <2>3 DEF ReadFrom
<1>4. l["sysDescr"] = m["sysDescr"]
  <2>1. CASE k = 1
    <3>1. d = NetworkDevice
      BY <2>1, DoneFirst
    <3>2. Prompted(Reads[1], r)
      BY FirstReads DEF Prompted
    <3>3. Needed(1, d, r)
      <4>1. applies_to("system", d)
        BY DEF applies_to, Subtree
      <4>2. QED
        BY <3>2, <4>1, FirstReads DEF Needed
    <3>4. l = [r EXCEPT !["sysDescr"] = m["sysDescr"]]
      BY <2>1, <3>3, FirstReads DEF Learned
    <3>5. QED
      BY <1>3, <3>4
  <2>2. CASE k > 1
    <3>1. r["sysDescr"] = m["sysDescr"]
      BY <1>2, <2>2 DEF Described
    <3>2. QED
      BY <1>3, <3>1 DEF Learned
  <2>3. QED
    BY <1>2, <2>1, <2>2
<1>5. IsDevice(d)
  BY DEF Described
<1> HIDE DEF l
<1>6. TextOf(l, "sysDescr") = text
  BY <1>4 DEF TextOf, ValueAt
<1>7. IsDevice(SystemMib(d, l)) /\ SystemMib(d, l).description = text
  BY <1>5, <1>6 DEF SystemMib, IsDevice, Fields, InfoFields
<1>8. CASE k < 3
  <2>1. ~IsLast(k)
    <3>1. k = 1 \/ k = 2
      BY <1>2, <1>8
    <3>2. QED
      BY <3>1, FirstReads
  <2>2. After(k, d, l) = d
    BY <2>1 DEF After
  <2>3. QED
    BY <1>1, <1>2, <1>4, <1>5, <1>8, <2>2 DEF Described
<1>9. CASE k = 3
  <2>1. applies_to("system", d)
    BY DEF applies_to, Subtree
  <2>2. After(k, d, l) = SystemMib(d, l)
    BY <1>9, <2>1, FirstReads DEF After, run
  <2>3. QED
    BY <1>1, <1>4, <1>7, <2>2 DEF Described
<1>10. CASE k > 3
  <2>1. d.description = text
    BY <1>2, <1>10 DEF Described
  <2>2. CASE After(k, d, l) = d
    BY <1>1, <1>4, <1>5, <2>1, <2>2 DEF Described
  <2>3. CASE After(k, d, l) # d
    <3>1. After(k, d, l) = run(Reads[k].module, d, l) /\ Reads[k].module \in Modules
      BY <2>3, FirstReads DEF After
    <3>2. CASE Reads[k].module = "system"
      BY <1>1, <1>4, <1>7, <3>1, <3>2 DEF Described, run
    <3>3. CASE Reads[k].module # "system"
      <4>1. IsDevice(run(Reads[k].module, d, l))
            /\ run(Reads[k].module, d, l).description = d.description
        BY <1>5, <3>1, <3>3, RunGrows DEF Grows
      <4>2. QED
        BY <1>1, <1>4, <2>1, <3>1, <4>1 DEF Described
    <3>4. QED
      BY <3>2, <3>3
  <2>4. QED
    BY <2>2, <2>3
<1>11. QED
  BY <1>2, <1>8, <1>9, <1>10

LEMMA DescribedAtLast ==
    ASSUME NEW m
    PROVE  /\ IsDevice(done(m)[Len(Reads)].device)
           /\ done(m)[Len(Reads)].device.description = Text(ValueAt(m, "sysDescr", 0))
<1> DEFINE text == Text(ValueAt(m, "sysDescr", 0))
           T == {n \in 0..Len(Reads) : Described(m, n, text)}
<1>1. 0 \in T
  <2>1. IsDevice(done(m)[0].device)
    BY DoneFirst, NothingRan DEF Fresh
  <2>2. QED
    BY <2>1, FirstReads DEF Described
<1>2. ASSUME NEW n \in 0..(Len(Reads) - 1), n \in T
      PROVE  n + 1 \in T
  <2>1. n + 1 \in 1..Len(Reads) /\ (n + 1) - 1 = n /\ n + 1 \in 0..Len(Reads)
    BY FirstReads
  <2>2. Described(m, (n + 1) - 1, text)
    BY <1>2, <2>1
  <2>3. Described(m, n + 1, text)
    BY <2>1, <2>2, DescribedNext
  <2>4. QED
    BY <2>1, <2>3
<1> HIDE DEF T
<1>3. 0..Len(Reads) \subseteq T
  BY <1>1, <1>2, FirstReads, BoundedInduction
<1>4. Len(Reads) \in T
  BY <1>3, FirstReads
<1>5. QED
  BY <1>4, FirstReads DEF T, Described
-----------------------------------------------------------------------------
(* A device that answers is found. *)

LEMMA SendExpected ==
    ASSUME Under, Expected, Send
    PROVE  Expected'
<1>1. /\ net = {} /\ inbox = <<>> /\ inbox' = inbox /\ phase' = "wait" /\ cred' = cred
      /\ net' = IF cred \in Accepted THEN net \cup {Request} ELSE net
      /\ Request' = Request
  BY DEF Send, Expected, Request
<1>2. QED
  BY <1>1 DEF Expected

LEMMA AnswersExpected ==
    ASSUME Under, Expected, NEW q \in net, AgentAnswers(q)
    PROVE  Expected'
<1>1. phase = "wait" /\ cred \in Accepted /\ net = {Request} /\ inbox = <<>> /\ q = Request
  BY DEF Expected
<1>2. /\ net' = net \ {q} /\ inbox' = Append(inbox, [open |-> q.open, varbind |-> Answer(q)])
      /\ UNCHANGED <<mib, at, current, phase, cred>>
  BY DEF AgentAnswers, Deliver, client
<1>3. Request.open = TRUE
  BY DEF Request
<1>4. inbox' = <<[open |-> TRUE, varbind |-> Answer(Request)]>> /\ net' = {}
  <2> DEFINE e == [open |-> TRUE, varbind |-> Answer(Request)]
  <2>1. [open |-> q.open, varbind |-> Answer(q)] = e
    BY <1>1, <1>3
  <2> HIDE DEF e
  <2>2. inbox' = Append(<<>>, e)
    BY <1>1, <1>2, <2>1
  <2>3. inbox' = <<e>>
    BY <2>2
  <2>4. net' = {}
    BY <1>1, <1>2
  <2>5. QED
    BY <2>3, <2>4 DEF e
<1>5. (Answer(Request))' = Answer(Request)
  BY <1>2, AnswerSame
<1>6. QED
  BY <1>1, <1>2, <1>4, <1>5 DEF Expected

\* The answer is the one to the request, and nothing is on its way any more.
LEMMA ReceiveExpected ==
    ASSUME Expected, Receive
    PROVE  /\ Take(Head(inbox).varbind) /\ phase' = "send" /\ cred' = cred /\ Expected'
<1>1. phase = "wait" /\ inbox # <<>>
  BY DEF Receive
<1> DEFINE a == [open |-> TRUE, varbind |-> Answer(Request)]
<1>2. a.open = TRUE
  OBVIOUS
<1>3. cred \in Accepted /\ net = {} /\ inbox = <<a>>
  BY <1>1 DEF Expected
<1> HIDE DEF a
<1>4. Head(inbox) = a /\ Tail(inbox) = <<>>
  BY <1>3
<1>5. Take(Head(inbox).varbind)
  BY <1>2, <1>4 DEF Receive, Mismatch
<1>6. phase' = "send" /\ cred' = cred
  BY <1>5 DEF Take, Advance
<1>7. net' = {} /\ inbox' = <<>>
  <2>1. net' = {closed(q) : q \in {}}
    BY <1>3 DEF Receive, ClosedNet
  <2>2. inbox' = [k \in 1..0 |-> closed(Tail(inbox)[k])]
    BY <1>4 DEF Receive, ClosedInbox
  <2>3. QED
    BY <2>1, <2>2
<1>8. QED
  BY <1>5, <1>6, <1>7 DEF Expected

Text0 == Text(ValueAt(mib, "sysDescr", 0))

LEMMA LookingStep ==
    ASSUME IInv, Next, errors' = 0, late' = 0, result' = NoDevice, Text0 # None
    PROVE  Looking'
<1>1. /\ errors = 0 /\ late = 0 /\ mib' = mib /\ cred \in Nat \ {0}
  <2>1. errors \in Nat /\ late \in Nat /\ cred \in Nat \ {0}
    BY DEF IInv
  <2>2. errors' = errors \/ errors' = errors + 1
    BY DEF Next, Connect, ConnectFails, NoSocket, NoEngine, NoResponse, Send, Skip, Timeout, Receive, Finish,
           AgentAnswers, AgentFails, Terminated, vars
  <2>3. late' = late \/ late' = late + 1
    BY DEF Next, Connect, ConnectFails, NoSocket, NoEngine, NoResponse, Send, Skip, Timeout, Receive, Finish,
           AgentAnswers, AgentFails, Deliver, Terminated, vars
  <2>4. mib' = mib
    BY DEF Next, Connect, ConnectFails, NoSocket, NoEngine, NoResponse, Send, Skip, Timeout, Receive, Finish,
           AgentAnswers, AgentFails, Deliver, Terminated, vars
  <2>5. QED
    BY <2>1, <2>2, <2>3, <2>4
<1>2. Faithful
  BY <1>1 DEF IInv
<1>3. CASE Finish
  <2>1. Under /\ at > Len(Reads)
    BY <1>3 DEF Finish, Under
  <2>2. at - 1 = Len(Reads) /\ device = done(mib)[at - 1].device
    BY <1>2, <2>1, ReadsProgram DEF Faithful, UpTo, Before
  <2>3. "description" \in DOMAIN device /\ device.description = Text0
    BY <2>2, DescribedAtLast DEF Text0, IsDevice, Fields, InfoFields
  <2>4. result' = classify(device)
    BY <1>3, <2>3 DEF Finish
  <2>5. classify(device).description = device.description
    <3>1. CASE device.sys_object_id \notin DOMAIN SysObjectIds
      BY <3>1 DEF classify
    <3>2. CASE device.sys_object_id \in DOMAIN SysObjectIds
      BY <2>3, <3>2 DEF classify
    <3>3. QED
      BY <3>1, <3>2
  <2>6. NoDevice.description = None
    BY DEF NoDevice, NetworkDevice
  <2>7. QED
    BY <2>3, <2>4, <2>5, <2>6
<1>4. ASSUME ~Finish
      PROVE  result' = result
  BY <1>4 DEF Next, Connect, ConnectFails, NoSocket, NoEngine, NoResponse, Send, Skip, Timeout, Receive, Fail,
         NextCredential, Take, Mismatch, Advance, AgentAnswers, AgentFails, Deliver, client,
         Terminated, vars
<1>5. SUFFICES ASSUME ~Finish
               PROVE  Looking'
  BY <1>3
<1>6. Looking
  BY <1>1, <1>4, <1>5 DEF IInv, Text0
<1>7. CASE Connect
  BY <1>6, <1>7 DEF Connect, Looking, Expected
<1>8. CASE ConnectFails
  <2>1. cred' = cred + 1 /\ phase = "connect" /\ phase' = phase
    BY <1>8 DEF ConnectFails
  <2>2. cred \in Malformed \/ cred \notin Accepted
    BY <1>1, <1>8 DEF ConnectFails, NoSocket, NoEngine
  <2>3. \A c \in Accepted \ Malformed : cred # c /\ c \in Nat
    BY <2>2, SnmpAssumption DEF Credential
  <2>4. \A c \in Accepted \ Malformed : cred' <= c
    BY <1>1, <1>6, <2>1, <2>3 DEF Looking
  <2>5. QED
    BY <2>1, <2>4 DEF Looking, Under
<1>9. CASE NoResponse
  <2>1. cred \notin Credential /\ phase = "connect"
    BY <1>9 DEF NoResponse
  <2>2. \A c \in Accepted \ Malformed : FALSE
    BY <1>1, <1>6, <2>1, SnmpAssumption, CredentialsAssumption DEF Looking, Credential
  <2>3. QED
    BY <1>9, <2>2 DEF NoResponse, Looking, Under
<1>10. CASE Send
  <2>1. Under /\ cred' = cred /\ phase' = "wait"
    BY <1>10 DEF Send, Under
  <2>2. QED
    BY <1>6, <1>10, <2>1, SendExpected DEF Looking
<1>11. CASE Skip
  <2>1. /\ phase = "send" /\ phase' = "send" /\ cred' = cred /\ UNCHANGED <<net, inbox>>
    BY <1>11 DEF Skip, Advance
  <2>2. QED
    BY <1>6, <2>1 DEF Looking, Under, Expected
<1>12. CASE Timeout
  <2>1. cred \notin Accepted /\ phase = "wait"
    BY <1>1, <1>12 DEF Timeout
  <2>2. net = {} /\ inbox = <<>>
    BY <1>6, <2>1 DEF Looking, Under, Expected
  <2>3. net' = {} /\ inbox' = <<>>
    BY <1>12, <2>2 DEF Timeout, ClosedNet
  <2>4. \/ cred' = cred + 1 /\ phase' = "connect"
        \/ cred' = cred /\ phase' = "send"
    BY <1>12 DEF Timeout, Fail, NextCredential
  <2>5. \A c \in Accepted \ Malformed : cred # c /\ c \in Nat /\ cred <= c
    BY <1>6, <2>1, SnmpAssumption DEF Credential, Looking
  <2>6. \A c \in Accepted \ Malformed : cred' <= c
    BY <1>1, <2>4, <2>5
  <2>7. QED
    BY <2>3, <2>4, <2>6 DEF Looking, Expected
<1>13. CASE Receive
  <2>1. Under
    BY <1>13 DEF Receive, Under
  <2>2. phase' = "send" /\ cred' = cred /\ Expected'
    BY <1>6, <1>13, <2>1, ReceiveExpected DEF Looking
  <2>3. QED
    BY <1>6, <2>2 DEF Looking
<1>14. ASSUME NEW q \in net, AgentAnswers(q)
       PROVE  Looking'
  <2>1. UNCHANGED <<phase, cred>>
    BY <1>14 DEF AgentAnswers, Deliver, client
  <2>2. QED
    BY <1>6, <1>14, <2>1, AnswersExpected DEF Looking, Under
<1>15. ASSUME NEW q \in net, AgentFails(q)
       PROVE  FALSE
  BY <1>1, <1>15 DEF AgentFails
<1>16. CASE Terminated
  <2>1. /\ UNCHANGED <<phase, cred>> /\ phase = "done"
    BY <1>16 DEF Terminated, vars, client
  <2>2. QED
    BY <1>6, <2>1 DEF Looking, Under
<1>17. QED
  BY <1>5, <1>7, <1>8, <1>9, <1>10, <1>11, <1>12, <1>13, <1>14, <1>15, <1>16 DEF Next
-----------------------------------------------------------------------------
LEMMA InitInv ==
    ASSUME Init
    PROVE  IInv
<1>1. /\ mib \in Contents /\ late = 0 /\ errors = 0 /\ cred = 1 /\ phase = "connect"
      /\ result = NoDevice
  BY DEF Init
<1>2. \A c \in Accepted \ Malformed : cred <= c
  BY <1>1, SnmpAssumption DEF Credential
<1>3. QED
  BY <1>1, <1>2 DEF IInv, Faithful, Looking, Under

LEMMA StepInv ==
    ASSUME IInv, [Next]_vars
    PROVE  IInv'
<1>1. CASE UNCHANGED vars
  <2>1. UNCHANGED <<mib, cred, phase, at, current, attempt, read, device, result, net, inbox,
                    late, errors>>
    BY <1>1 DEF vars, client
  <2>2. (Answer(Request))' = Answer(Request)
    BY <2>1, AnswerSame
  <2>3. Request' = Request /\ Inventoried' = Inventoried
    BY <2>1 DEF Request, Inventoried
  <2>4. Matched' <=> Matched
    BY <2>1, <2>2 DEF Matched, Pending, Due
  <2>5. Expected' <=> Expected
    BY <2>1, <2>2, <2>3 DEF Expected
  <2>6. UpTo(Before, read) => UpTo(Before, read)'
    BY <2>1, SameUpTo
  <2>7. Faithful => Faithful'
    BY <2>1, <2>3, <2>4, <2>6 DEF Faithful, Under
  <2>8. Looking => Looking'
    BY <2>1, <2>5 DEF Looking, Under
  <2>9. QED
    BY <2>1, <2>7, <2>8 DEF IInv
<1>2. CASE Next
  <2>1. /\ mib' \in Contents /\ late' \in Nat /\ errors' \in Nat /\ cred' \in Nat \ {0}
    <3>1. mib \in Contents /\ late \in Nat /\ errors \in Nat /\ cred \in Nat \ {0}
      BY DEF IInv
    <3>2. mib' = mib
      BY <1>2 DEF Next, Connect, ConnectFails, NoSocket, NoEngine, NoResponse, Send, Skip, Timeout, Receive,
                  Finish, AgentAnswers, AgentFails, Deliver, Terminated, vars
    <3>3. late' = late \/ late' = late + 1
      BY <1>2 DEF Next, Connect, ConnectFails, NoSocket, NoEngine, NoResponse, Send, Skip, Timeout, Receive,
                  Finish, AgentAnswers, AgentFails, Deliver, Terminated, vars
    <3>4. errors' = errors \/ errors' = errors + 1
      BY <1>2 DEF Next, Connect, ConnectFails, NoSocket, NoEngine, NoResponse, Send, Skip, Timeout, Receive,
                  Finish, AgentAnswers, AgentFails, Terminated, vars
    <3>5. cred' = cred \/ cred' = cred + 1
      BY <1>2 DEF Next, Connect, ConnectFails, NoSocket, NoEngine, NoResponse, Send, Skip, Timeout, Receive, Fail,
                  NextCredential, Take, Mismatch, Advance, Finish, AgentAnswers, AgentFails,
                  Deliver, client, Terminated, vars
    <3>6. QED
      BY <3>1, <3>2, <3>3, <3>4, <3>5
  <2>2. errors' = 0 => Faithful'
    BY <1>2, FaithfulStep
  <2>3. errors' = 0 /\ late' = 0 /\ result' = NoDevice
        /\ Text(ValueAt(mib', "sysDescr", 0)) # None => Looking'
    <3>1. mib' = mib
      BY <1>2 DEF Next, Connect, ConnectFails, NoSocket, NoEngine, NoResponse, Send, Skip, Timeout, Receive,
                  Finish, AgentAnswers, AgentFails, Deliver, Terminated, vars
    <3>2. QED
      BY <1>2, <3>1, LookingStep DEF Text0
  <2>4. QED
    BY <2>1, <2>2, <2>3 DEF IInv
<1>3. QED
  BY <1>1, <1>2

(* The inductive invariant: while no answer is an error, what has been read  *)
(* and made of the device is what its contents give for the requests made   *)
(* so far, and a walk has all rows up to the one it has come to.            *)
THEOREM Invariance == Spec => []IInv
<1>1. Init => IInv
  BY InitInv
<1>2. IInv /\ [Next]_vars => IInv'
  BY StepInv
<1>3. QED
  BY <1>1, <1>2, PTL DEF Spec

(* What is reported is what the modules make of the device's contents,       *)
(* whatever is lost, late or repeated.                                      *)
THEOREM CompleteOrNothingHolds == Spec => []CompleteOrNothing
<1>1. IInv => CompleteOrNothing
  BY DEF IInv, Faithful, CompleteOrNothing
<1>2. QED
  BY <1>1, Invariance, PTL

(* A device that answers under one of the credentials, each time in time and *)
(* without an error, is reported if it has a description.                   *)
THEOREM AnswersFoundHolds == Spec => []AnswersFound
<1>1. IInv => AnswersFound
  <2> SUFFICES ASSUME IInv, phase = "done", result = NoDevice,
                      Accepted \ Malformed # {}, ~(late + errors > 0), Text0 # None
               PROVE  FALSE
    BY DEF AnswersFound, Text0
  <2>1. errors = 0 /\ late = 0
    BY DEF IInv
  <2>2. Looking
    BY <2>1 DEF IInv, Text0
  <2>3. QED
    BY <2>2 DEF Looking
<1>2. QED
  BY <1>1, Invariance, PTL
-----------------------------------------------------------------------------
(* No module undoes what another has done. *)

Growing ==
    /\ Under => at \in 1..(Len(Reads) + 1) /\ Fresh(device, Ran(at - 1))
    /\ phase = "wait" => at <= Len(Reads)

LEMMA AdvanceGrows ==
    ASSUME Growing, Under, at <= Len(Reads), NEW r, Advance(r)
    PROVE  Growing' /\ Keeps(device, device')
<1>1. Len(Reads) \in Nat /\ at \in 1..Len(Reads) /\ Fresh(device, Ran(at - 1))
  BY ReadsProgram DEF Growing
<1>2. /\ at' = at + 1 /\ device' = After(at, device, r) /\ phase' = "send"
  BY DEF Advance
<1>3. Keeps(device, device') /\ Fresh(device', Ran(at))
  BY <1>1, <1>2, AfterFresh
<1>4. at' \in 1..(Len(Reads) + 1) /\ at' - 1 = at
  BY <1>1, <1>2
<1>5. QED
  BY <1>2, <1>3, <1>4 DEF Growing, Ran

LEMMA GrowingStep ==
    ASSUME Growing, [Next]_vars
    PROVE  Growing' /\ (phase # "connect" => Keeps(device, device'))
<1>1. Keeps(device, device)
  BY SameKeeps
<1>2. ASSUME UNCHANGED <<at, device>>, Under' => Under, phase' = "wait" => at <= Len(Reads)
      PROVE  Growing' /\ Keeps(device, device')
  BY <1>1, <1>2 DEF Growing, Ran
<1>3. CASE UNCHANGED vars
  BY <1>2, <1>3 DEF vars, client, Under, Growing
<1>4. CASE Connect
  <2>1. /\ phase = "connect" /\ phase' = "send" /\ at' = 1 /\ device' = NetworkDevice
    BY <1>4 DEF Connect
  <2>2. Fresh(device', Ran(0)) /\ at' \in 1..(Len(Reads) + 1) /\ at' - 1 = 0
    BY <2>1, NothingRan, ReadsProgram
  <2>3. QED
    BY <2>1, <2>2 DEF Growing, Ran
<1>5. CASE ConnectFails \/ NoResponse
  BY <1>2, <1>5 DEF ConnectFails, NoSocket, NoEngine, NoResponse, Under
<1>6. CASE Send
  BY <1>2, <1>6 DEF Send, Under
<1>7. CASE Skip
  <2>1. phase = "send" /\ at <= Len(Reads) /\ Advance(read)
    BY <1>7 DEF Skip
  <2>2. QED
    BY <2>1, AdvanceGrows DEF Under
<1>8. CASE Fail /\ Under
  BY <1>2, <1>8 DEF Fail, NextCredential, Under
<1>9. CASE Timeout
  BY <1>8, <1>9 DEF Timeout, Under
<1>10. CASE Receive
  <2>1. phase = "wait" /\ at <= Len(Reads)
    BY <1>10 DEF Receive, Growing
  <2>2. CASE Mismatch
    BY <1>8, <2>1, <2>2 DEF Mismatch, Under
  <2>3. CASE Take(Head(inbox).varbind)
    <3>1. CASE \E r : Advance(r)
      BY <2>1, <3>1, AdvanceGrows DEF Under
    <3>2. CASE UNCHANGED <<at, device>> /\ phase' = "send"
      BY <1>2, <2>1, <3>2 DEF Under
    <3>3. QED
      BY <2>3, <3>1, <3>2 DEF Take
  <2>4. QED
    BY <1>10, <2>2, <2>3 DEF Receive
<1>11. CASE Finish
  BY <1>2, <1>11 DEF Finish, NextCredential, Under
<1>12. CASE \E q \in net : AgentAnswers(q) \/ AgentFails(q)
  <2>1. UNCHANGED <<at, device, phase>>
    BY <1>12 DEF AgentAnswers, AgentFails, Deliver, client
  <2>2. QED
    BY <1>2, <2>1 DEF Growing, Under
<1>13. CASE Terminated
  BY <1>3, <1>13 DEF Terminated
<1>14. QED
  BY <1>3, <1>4, <1>5, <1>6, <1>7, <1>9, <1>10, <1>11, <1>12, <1>13 DEF Next

(* The modules only add to the device of one credential: none of the thirty- *)
(* four takes a value, a port or a counter away that another has determined. *)
THEOREM NeverClobberedHolds == Spec => NeverClobbered
<1>1. Init => Growing
  BY DEF Init, Growing, Under
<1>2. Growing /\ [Next]_vars => Growing'
  BY GrowingStep
<1>3. Growing /\ [Next]_vars => [phase # "connect" => Keeps(device, device')]_vars
  BY GrowingStep
<1>4. QED
  BY <1>1, <1>2, <1>3, PTL DEF Spec, NeverClobbered
=============================================================================

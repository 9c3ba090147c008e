------------------------- MODULE NetDiscoveryProofs -------------------------
(***************************************************************************)
(* Proofs about NetDiscovery, for any arguments, networks, concurrency and  *)
(* credentials: a scan that ends has looked at every address once for each  *)
(* specification that covers it, and its report of an address is what the   *)
(* host there answered to, less what was lost.                              *)
(*                                                                         *)
(* First the arithmetic of the address ranges; then each action as a change *)
(* of one task; then where in the ranges the tasks come from (SpawnInv) and *)
(* what each of them has been told so far (TaskInv, JoinInv).               *)
(***************************************************************************)
EXTENDS NetDiscovery, DataLemmas, SequenceTheorems

-----------------------------------------------------------------------------
\* The two widths are numbers, and the last part is not wider than the whole.
LEMMA Widths == Width \in Nat /\ OctetWidth \in 0..Width
  BY DiscoveryAssumption

(* There is a function that doubles at each number.                         *)
LEMMA Doubling ==
    ASSUME NEW N \in Nat
    PROVE  \E f \in [0..N -> Nat \ {0}] : f[0] = 1 /\ \A n \in 1..N : f[n] = 2 * f[n - 1]
<1> DEFINE D == Nat \ {0}
<1>1. PICK step \in [Nat -> [D -> D]] : \A n \in Nat, x \in D : step[n][x] = 2 * x
  <2>1. [n \in Nat |-> [x \in D |-> 2 * x]] \in [Nat -> [D -> D]]
    OBVIOUS
  <2>2. QED
    BY <2>1
<1>2. PICK one \in D : one = 1
  OBVIOUS
<1> HIDE DEF D
<1>3. PICK f \in [0..N -> D] : f[0] = one /\ \A n \in 1..N : f[n] = step[n][f[n - 1]]
  BY Recursion
<1>4. \A n \in 1..N : n \in Nat /\ f[n - 1] \in D
  OBVIOUS
<1>5. \A n \in 1..N : f[n] = 2 * f[n - 1]
  BY <1>1, <1>3, <1>4
<1>6. f \in [0..N -> Nat \ {0}] /\ f[0] = 1
  BY <1>2, <1>3 DEF D
<1>7. QED
  BY <1>5, <1>6

(* The powers of two are what their recursion says.                         *)
LEMMA Powers ==
    /\ TwoTo \in [0..Width -> Nat \ {0}]
    /\ TwoTo[0] = 1
    /\ \A n \in 1..Width : TwoTo[n] = 2 * TwoTo[n - 1]
<1> DEFINE Def(f) == f = [n \in 0..Width |-> IF n = 0 THEN 1 ELSE 2 * f[n - 1]]
<1>1. Width \in Nat
  BY Widths
<1>2. PICK f \in [0..Width -> Nat \ {0}] : f[0] = 1 /\ \A n \in 1..Width : f[n] = 2 * f[n - 1]
  BY <1>1, Doubling, Zenon
<1>3. Def(f)
  <2>1. \A n \in 0..Width : n = 0 \/ n \in 1..Width
    BY <1>1
  <2>2. \A n \in 0..Width : f[n] = IF n = 0 THEN 1 ELSE 2 * f[n - 1]
    BY <1>2, <2>1
  <2>3. QED
    BY <1>2, <2>2
<1>4. TwoTo = CHOOSE g : Def(g)
  BY DEF TwoTo
<1>5. Def(TwoTo)
  <2> HIDE DEF Def
  <2>1. QED
    BY <1>3, <1>4, Zenon
<1>6. DOMAIN TwoTo = 0..Width
     /\ \A n \in 0..Width : TwoTo[n] = IF n = 0 THEN 1 ELSE 2 * TwoTo[n - 1]
  <2>1. TwoTo = [n \in 0..Width |-> IF n = 0 THEN 1 ELSE 2 * TwoTo[n - 1]]
    BY <1>5
  <2> HIDE DEF Def
  <2>2. QED
    BY <2>1, Zenon
<1> HIDE DEF Def
<1> DEFINE T == {n \in 0..Width : TwoTo[n] = f[n]}
<1>7. 0 \in T
  BY <1>1, <1>2, <1>6
<1>8. ASSUME NEW n \in 0..(Width - 1), n \in T
      PROVE  n + 1 \in T
  <2>1. n + 1 \in 0..Width /\ n + 1 \in 1..Width /\ n + 1 # 0 /\ (n + 1) - 1 = n
    BY <1>1
  <2>2. TwoTo[n + 1] = 2 * TwoTo[n] /\ f[n + 1] = 2 * f[n]
    BY <1>2, <1>6, <2>1
  <2>3. QED
    BY <1>8, <2>1, <2>2
<1> HIDE DEF T
<1>9. \A n \in 0..Width : TwoTo[n] = f[n]
  <2>1. 0..Width \subseteq T
    BY <1>1, <1>7, <1>8, BoundedInduction
  <2>2. QED
    BY <2>1 DEF T
<1>10. TwoTo = [n \in 0..Width |-> TwoTo[n]]
  <2>1. TwoTo = [n \in 0..Width |-> IF n = 0 THEN 1 ELSE 2 * TwoTo[n - 1]]
    BY <1>5 DEF Def
  <2> DEFINE g == [n \in 0..Width |-> IF n = 0 THEN 1 ELSE 2 * TwoTo[n - 1]]
  <2>2. g = [n \in 0..Width |-> g[n]]
    OBVIOUS
  <2> HIDE DEF g
  <2>3. TwoTo = g
    BY <2>1 DEF g
  <2>4. QED
    BY <2>2, <2>3
<1>11. TwoTo = f
  BY <1>9, <1>10
<1>12. QED
  BY <1>2, <1>11

(* A block of addresses divides the address space.                          *)
LEMMA Blocks ==
    ASSUME NEW n \in 0..Width
    PROVE  \E q \in Nat \ {0} : Size = TwoTo[n] * q
<1> DEFINE T == {m \in 0..(Width - n) : \E q \in Nat \ {0} : TwoTo[n + m] = TwoTo[n] * q}
<1> USE Widths
<1>1. 0 \in T
  BY Powers
<1>2. ASSUME NEW m \in 0..((Width - n) - 1), m \in T
      PROVE  m + 1 \in T
  <2>1. PICK q \in Nat \ {0} : TwoTo[n + m] = TwoTo[n] * q
    BY <1>2
  <2>2. n + (m + 1) \in 1..Width /\ (n + (m + 1)) - 1 = n + m /\ m + 1 \in 0..(Width - n)
    OBVIOUS
  <2>3. TwoTo[n + (m + 1)] = 2 * TwoTo[n + m] /\ TwoTo[n] \in Nat
    BY <2>2, Powers
  <2>4. TwoTo[n + (m + 1)] = TwoTo[n] * (2 * q)
    BY <2>1, <2>3
  <2>5. 2 * q \in Nat \ {0}
    OBVIOUS
  <2>6. QED
    BY <2>2, <2>4, <2>5
<1>3. Width - n \in Nat
  OBVIOUS
<1> HIDE DEF T
<1>4. 0..(Width - n) \subseteq T
  BY <1>1, <1>2, <1>3, BoundedInduction
<1>5. Width - n \in T /\ n + (Width - n) = Width
  BY <1>3, <1>4
<1>6. QED
  BY <1>5 DEF T, Size

(* Cutting the numbers up in blocks.                                        *)
LEMMA BlockOf ==
    ASSUME NEW b \in Nat \ {0}, NEW q \in Nat \ {0}, NEW x \in 0..(b * q - 1)
    PROVE  /\ x % b \in 0..(b - 1)
           /\ x - (x % b) \in Nat
           /\ (x - (x % b)) + b <= b * q
<1>1. x \in Nat /\ x % b \in 0..(b - 1) /\ x \div b \in Nat /\ x = b * (x \div b) + (x % b)
  OBVIOUS
<1>2. x \div b < q
  <2>1. SUFFICES ASSUME q <= x \div b PROVE FALSE
    BY <1>1
  <2>2. b * q <= b * (x \div b)
    BY <1>1, <2>1
  <2>3. QED
    BY <1>1, <2>2
<1>3. b * ((x \div b) + 1) <= b * q
  BY <1>1, <1>2
<1>4. b * ((x \div b) + 1) = b * (x \div b) + b
  BY <1>1
<1>5. QED
  BY <1>1, <1>3, <1>4

\* The numbers with the quotient of y are those from y with its remainder cut off.
LEMMA SameBlock ==
    ASSUME NEW b \in Nat \ {0}, NEW x \in Nat, NEW y \in Nat
    PROVE  x \div b = y \div b <=> y - (y % b) <= x /\ x <= (y - (y % b)) + b - 1
<1>1. /\ x % b \in 0..(b - 1) /\ x \div b \in Nat /\ x = b * (x \div b) + (x % b)
      /\ y % b \in 0..(b - 1) /\ y \div b \in Nat /\ y = b * (y \div b) + (y % b)
  OBVIOUS
<1>2. CASE x \div b = y \div b
  BY <1>1, <1>2
<1>3. CASE x \div b < y \div b
  <2>1. b * ((x \div b) + 1) <= b * (y \div b)
    BY <1>1, <1>3
  <2>2. b * (x \div b) + b <= b * (y \div b)
    BY <1>1, <2>1
  <2>3. QED
    BY <1>1, <1>3, <2>2
<1>4. CASE y \div b < x \div b
  <2>1. b * ((y \div b) + 1) <= b * (x \div b)
    BY <1>1, <1>4
  <2>2. b * (y \div b) + b <= b * (x \div b)
    BY <1>1, <2>1
  <2>3. QED
    BY <1>1, <1>4, <2>2
<1>5. QED
  BY <1>1, <1>2, <1>3, <1>4

(* Every specification that is not refused covers a span of addresses, none *)
(* of them outside the address space.                                       *)
LEMMA Parsed ==
    ASSUME NEW spec \in Specs, parse(spec) # Refused
    PROVE  /\ parse(spec).start \in Address /\ parse(spec).end \in Address
           /\ parse(spec).start <= parse(spec).end
           /\ \A a \in Address : a \in parse(spec).start..parse(spec).end <=> Covers(spec, a)
<1>1. Size \in Nat \ {0}
  BY Powers, Widths DEF Size
<1>2. CASE spec.form = "cidr"
  <2> DEFINE b == TwoTo[Width - spec.prefix]
             x == spec.address
             base == x - (x % b)
  <2>1. x \in Address /\ spec.prefix \in Nat
    BY <1>2 DEF Specs
  <2>2. parse(spec) = parse_cidr(x, spec.prefix)
    BY <1>2 DEF parse
  <2>3. spec.prefix <= Width
    BY <2>1, <2>2, Widths DEF parse_cidr, Refused
  <2>4. Width - spec.prefix \in 0..Width
    BY <2>1, <2>3, Widths
  <2>5. b \in Nat \ {0} /\ \E q \in Nat \ {0} : Size = b * q
    BY <2>4, Blocks, Powers
  <2>6. parse(spec) = [start |-> base, end |-> base + b - 1]
    BY <2>1, <2>2, <2>3, Widths DEF parse_cidr
  <2>7. \A a : Covers(spec, a) <=> a \div b = x \div b
    BY <1>2 DEF Covers
  <2> HIDE DEF b
  <2>8. base \in Nat /\ base + b <= Size
    <3>1. PICK q \in Nat \ {0} : Size = b * q
      BY <2>5
    <3>2. x \in 0..(b * q - 1)
      BY <2>1, <3>1 DEF Address
    <3>3. QED
      BY <2>5, <3>1, <3>2, BlockOf
  <2>9. x \in Nat
    BY <1>1, <2>1 DEF Address
  <2>10. ASSUME NEW a \in Nat
         PROVE  a \div b = x \div b <=> base <= a /\ a <= base + b - 1
    BY <2>5, <2>9, SameBlock
  <2> HIDE DEF base
  <2>11. QED
    BY <1>1, <2>5, <2>6, <2>7, <2>8, <2>10 DEF Address
<1>3. CASE spec.form = "bounds"
  <2>1. spec.start \in Address /\ spec.end \in Address
    BY <1>3 DEF Specs
  <2>2. parse(spec) = new(spec.start, spec.end)
    BY <1>3 DEF parse
  <2>3. /\ parse(spec).start = spec.start /\ parse(spec).end = spec.end
        /\ spec.start <= spec.end
    BY <1>1, <2>1, <2>2 DEF new, Refused, Address
  <2>4. \A a : Covers(spec, a) <=> spec.start <= a /\ a <= spec.end
    BY <1>3 DEF Covers
  <2>5. QED
    BY <1>1, <2>1, <2>3, <2>4 DEF Address
<1>4. CASE spec.form = "octet"
  <2> DEFINE b == TwoTo[OctetWidth]
             x == spec.start
             o == spec.octet
             base == x - (x % b)
  <2>1. x \in Address /\ o \in 0..(b - 1)
    BY <1>4 DEF Specs
  <2>2. parse(spec) = new(x, base + o)
    BY <1>4 DEF parse, parse_range
  <2>3. b \in Nat \ {0} /\ \E q \in Nat \ {0} : Size = b * q
    BY Blocks, Powers, Widths
  <2>4. \A a : Covers(spec, a) <=> a \div b = x \div b /\ x <= a /\ a % b <= o
    BY <1>4 DEF Covers
  <2> HIDE DEF b
  <2>5. base \in Nat /\ base + b <= Size /\ x % b \in 0..(b - 1)
    <3>1. PICK q \in Nat \ {0} : Size = b * q
      BY <2>3
    <3>2. x \in 0..(b * q - 1)
      BY <2>1, <3>1 DEF Address
    <3>3. QED
      BY <2>3, <3>1, <3>2, BlockOf
  <2>6. parse(spec).start = x /\ parse(spec).end = base + o /\ x <= base + o
    <3> HIDE DEF base
    <3>1. QED
      BY <1>1, <2>1, <2>2, <2>3, <2>5 DEF new, Refused, Address
  <2>7. x \in Nat
    BY <1>1, <2>1 DEF Address
  <2>8. ASSUME NEW a \in Nat
        PROVE  a \div b = x \div b <=> base <= a /\ a <= base + b - 1
    BY <2>7, <2>3, SameBlock
  <2>9. ASSUME NEW a \in Nat, a \div b = x \div b
        PROVE  a % b = a - base
    <3>1. a = b * (a \div b) + (a % b) /\ a % b \in Nat
      BY <2>3
    <3>2. x = b * (x \div b) + (x % b) /\ x \in Nat
      BY <1>1, <2>1, <2>3 DEF Address
    <3>3. a \div b \in Nat /\ x \div b \in Nat /\ x % b \in Nat /\ b * (x \div b) \in Nat
      BY <2>7, <2>3
    <3>4. a % b = a - b * (x \div b) /\ base = b * (x \div b)
      BY <2>9, <3>1, <3>2, <3>3
    <3>5. QED
      BY <3>4
  <2>10. base <= x
    BY <1>1, <2>1, <2>3, <2>5 DEF Address
  <2> HIDE DEF base
  <2>11. \A a \in Address : a \in x..(base + o) <=> Covers(spec, a)
    <3> SUFFICES ASSUME NEW a \in Address
                 PROVE  a \in x..(base + o) <=> Covers(spec, a)
      OBVIOUS
    <3>1. a \in Nat /\ x \in Nat /\ o \in Nat /\ o <= b - 1
      BY <1>1, <2>1, <2>3 DEF Address
    <3>2. a \in x..(base + o) <=> x <= a /\ a <= base + o
      BY <2>5, <3>1
    <3>3. CASE a \div b = x \div b
      <4>1. a % b = a - base
        BY <2>9, <3>1, <3>3
      <4>2. QED
        BY <2>4, <2>5, <3>1, <3>2, <3>3, <4>1
    <3>4. CASE a \div b # x \div b
      <4>1. ~(base <= a /\ a <= base + b - 1)
        BY <2>8, <3>1, <3>4
      <4>2. ~(x <= a /\ a <= base + o)
        BY <2>3, <2>5, <2>10, <3>1, <4>1
      <4>3. QED
        BY <2>4, <3>2, <3>4, <4>2
    <3>5. QED
      BY <3>3, <3>4
  <2>12. base + o \in Address
    BY <1>1, <2>1, <2>3, <2>5 DEF Address
  <2>13. QED
    BY <2>1, <2>6, <2>11, <2>12
<1>5. QED
  BY <1>2, <1>3, <1>4 DEF Specs
-----------------------------------------------------------------------------
(* The methods, each tried once and the ping first.                         *)
LEMMA MethodFacts ==
    ASSUME TypeOK
    PROVE  /\ Len(methods) \in Nat \ {0} /\ methods[1] = "ping"
           /\ \A k \in 1..Len(methods) : methods[k] \in {"ping", "netbios", "arp"}
           /\ \A j, k \in 1..Len(methods) : methods[j] = methods[k] => j = k
<1>1. CASE methods = <<"ping", "netbios">>
  <2>1. Len(methods) = 2 /\ methods[1] = "ping" /\ methods[2] = "netbios"
    BY <1>1
  <2>2. \A k \in 1..Len(methods) : k = 1 \/ k = 2
    BY <2>1
  <2>3. QED
    BY <2>1, <2>2
<1>2. CASE methods = <<"ping", "netbios", "arp">>
  <2>1. /\ Len(methods) = 3 /\ methods[1] = "ping" /\ methods[2] = "netbios"
        /\ methods[3] = "arp"
    BY <1>2
  <2>2. \A k \in 1..Len(methods) : k = 1 \/ k = 2 \/ k = 3
    BY <2>1
  <2>3. QED
    BY <2>1, <2>2
<1>3. QED
  BY <1>1, <1>2 DEF TypeOK

(* What the parsed ranges are.                                              *)
LEMMA RangeFacts ==
    ASSUME TypeOK, RangeInv, phase \in {"spawn", "join", "done"}
    PROVE  /\ args \in Seq(Specs) /\ Len(ranges) = Len(args) /\ Len(args) \in Nat
           /\ \A k \in 1..Len(args) :
                 /\ ranges[k].start \in Address /\ ranges[k].end \in Address
                 /\ ranges[k].start <= ranges[k].end
                 /\ \A a \in Address : a \in Span(ranges[k]) <=> Covers(args[k], a)
<1>1. args \in Seq(Specs)
  BY DiscoveryAssumption DEF TypeOK
<1>2. /\ ranges = [k \in 1..Len(args) |-> parse(args[k])]
      /\ \A k \in 1..Len(args) : ranges[k] # Refused
  BY DEF RangeInv
<1>3. Len(args) \in Nat /\ Len(ranges) = Len(args)
  BY <1>1, <1>2
<1>4. \A k \in 1..Len(args) : args[k] \in Specs /\ ranges[k] = parse(args[k])
  BY <1>1, <1>2
<1>5. QED
  BY <1>1, <1>2, <1>3, <1>4, Parsed DEF Span

\* A step of one task: nothing else moves, and its address stays.
Steady(t) ==
    /\ UNCHANGED <<args, network, icmp, methods, main>>
    /\ tasks' \in Seq(TaskType) /\ Len(tasks') = Len(tasks)
    /\ \A u \in 1..Len(tasks) : tasks'[u].address = tasks[u].address
    /\ \A u \in 1..Len(tasks) : u # t => tasks'[u] = tasks[u]

\* The fields of a task.
LEMMA TaskFields ==
    ASSUME NEW task \in TaskType
    PROVE  /\ task.address \in Address /\ task.method \in 1..Len(methods)
           /\ task.pc \in {"queued", "probe", "tcp", "snmp", "finished", "joined"}
           /\ task.credential \in Nat \ {0} /\ task.left \in 0..Timeout
           /\ task.found_by \in Seq({"ping", "netbios", "arp"}) /\ task.mac \in {"", "mac"}
           /\ task.name \in {"", "netbios"} /\ task.snmp \in 0..NumCredentials
  BY DEF TaskType

\* The next method, or the credentials behind the last method.
LEMMA OnwardFacts ==
    ASSUME TypeOK, NEW task \in TaskType
    PROVE  /\ Onward(task) \in TaskType
           /\ Onward(task).address = task.address /\ Onward(task).credential = task.credential
           /\ Onward(task).found_by = task.found_by /\ Onward(task).snmp = task.snmp
           /\ Onward(task).mac = task.mac /\ Onward(task).name = task.name
           /\ IF task.method < Len(methods)
              THEN /\ Onward(task).pc = "probe" /\ Onward(task).left = Timeout
                   /\ Onward(task).method = task.method + 1
              ELSE Onward(task).pc = "snmp"
<1>1. Timeout \in 0..Timeout
  BY DiscoveryAssumption
<1>2. task.method \in 1..Len(methods) /\ Len(methods) \in Nat /\ task.left \in 0..Timeout
  BY MethodFacts, TaskFields
<1> DEFINE x == Onward(task)
<1>3. CASE task.method < Len(methods)
  <2>1. PICK m \in 1..Len(methods) : m = task.method + 1
    BY <1>2, <1>3
  <2>2. x = [task EXCEPT !.method = m, !.pc = "probe", !.left = Timeout]
    BY <1>3, <2>1 DEF Onward
  <2> HIDE DEF x
  <2>3. /\ x \in TaskType /\ x.method = m /\ x.pc = "probe" /\ x.left = Timeout
        /\ x.address = task.address /\ x.credential = task.credential
        /\ x.found_by = task.found_by /\ x.snmp = task.snmp
        /\ x.mac = task.mac /\ x.name = task.name
    BY <1>1, <2>2 DEF TaskType
  <2>4. QED
    BY <1>3, <2>1, <2>3 DEF x
<1>4. CASE ~(task.method < Len(methods))
  <2>1. x = [task EXCEPT !.method = task.method, !.pc = "snmp", !.left = task.left]
    BY <1>4 DEF Onward, TaskType
  <2> HIDE DEF x
  <2>2. /\ x \in TaskType /\ x.pc = "snmp"
        /\ x.address = task.address /\ x.credential = task.credential
        /\ x.found_by = task.found_by /\ x.snmp = task.snmp
        /\ x.mac = task.mac /\ x.name = task.name
    BY <1>2, <2>1 DEF TaskType
  <2>3. QED
    BY <1>4, <2>2 DEF x
<1>5. QED
  BY <1>3, <1>4

\* Merging a reply appends its method and fills what is still empty.
LEMMA MergeFacts ==
    ASSUME TypeOK, NEW task \in TaskType
    PROVE  /\ merge(task) \in TaskType
           /\ merge(task).found_by = Append(task.found_by, methods[task.method])
           /\ merge(task).mac =
                 IF task.mac = "" /\ methods[task.method] = "arp" THEN "mac" ELSE task.mac
           /\ merge(task).name =
                 IF task.name = "" /\ methods[task.method] = "netbios" THEN "netbios"
                 ELSE task.name
           /\ merge(task).address = task.address /\ merge(task).credential = task.credential
           /\ merge(task).method = task.method /\ merge(task).snmp = task.snmp
<1> DEFINE m == methods[task.method]
           f == Append(task.found_by, m)
           mac == IF task.mac = "" /\ m = "arp" THEN "mac" ELSE task.mac
           name == IF task.name = "" /\ m = "netbios" THEN "netbios" ELSE task.name
<1>1. m \in {"ping", "netbios", "arp"}
  BY MethodFacts, TaskFields
<1>2. f \in Seq({"ping", "netbios", "arp"})
  <2>1. task.found_by \in Seq({"ping", "netbios", "arp"})
    BY TaskFields
  <2> HIDE DEF m
  <2>2. QED
    BY <1>1, <2>1
<1>3. mac \in {"", "mac"} /\ name \in {"", "netbios"}
  BY TaskFields
<1>4. merge(task) = [task EXCEPT !.found_by = f, !.mac = mac, !.name = name]
  BY DEF merge
<1> HIDE DEF f, mac, name, m
<1>5. LET x == [task EXCEPT !.found_by = f, !.mac = mac, !.name = name]
      IN /\ x \in TaskType /\ x.found_by = f /\ x.mac = mac /\ x.name = name
         /\ x.address = task.address /\ x.credential = task.credential
         /\ x.method = task.method /\ x.snmp = task.snmp
  BY <1>2, <1>3 DEF TaskType
<1>6. QED
  BY <1>4, <1>5 DEF f, mac, name, m

\* A method that hears nothing is left, or falls back to TCP.
LEMMA SilentFacts ==
    ASSUME TypeOK, NEW t \in 1..Len(tasks)
    PROVE  /\ Silent(t) \in TaskType /\ Silent(t).address = tasks[t].address
           /\ \/ /\ Silent(t) = Onward(tasks[t])
                 /\ ~(methods[tasks[t].method] = "ping" /\ tasks[t].pc = "probe" /\ ~icmp
                          /\ tasks[t].left = Timeout)
              \/ /\ methods[tasks[t].method] = "ping" /\ tasks[t].pc = "probe" /\ ~icmp
                 /\ Silent(t) = [tasks[t] EXCEPT !.method = tasks[t].method, !.pc = "tcp",
                                                 !.left = tasks[t].left]
<1>1. tasks[t] \in TaskType
  BY DEF TypeOK
<1>2. tasks[t].left \in 0..Timeout /\ Timeout \in Nat \ {0}
      /\ tasks[t].method \in 1..Len(methods)
  BY <1>1, TaskFields, DiscoveryAssumption
<1> DEFINE tried == methods[tasks[t].method] = "ping" /\ tasks[t].pc = "probe"
<1>3. CASE tried /\ ~icmp /\ tasks[t].left > 0
  <2>1. Silent(t) = [tasks[t] EXCEPT !.pc = "tcp", !.left = tasks[t].left - 0]
    BY <1>3 DEF Silent
  <2>2. Silent(t) = [tasks[t] EXCEPT !.method = tasks[t].method, !.pc = "tcp",
                                     !.left = tasks[t].left]
    <3>1. tasks[t].left - 0 = tasks[t].left
      BY <1>2
    <3>2. QED
      BY <1>1, <2>1, <3>1 DEF TaskType
  <2>3. Silent(t) \in TaskType /\ Silent(t).address = tasks[t].address
    BY <1>1, <1>2, <2>2 DEF TaskType
  <2>4. QED
    BY <1>3, <2>2, <2>3
<1>4. CASE ~(tried /\ ~icmp /\ tasks[t].left > 0)
  <2>1. Silent(t) = Onward(tasks[t])
    BY <1>2, <1>4 DEF Silent
  <2>2. QED
    BY <1>1, <1>2, <1>4, <2>1, OnwardFacts
<1>5. QED
  BY <1>3, <1>4

\* A step that changes one task, and not its address, leaves the rest alone.
LEMMA Altered ==
    ASSUME TypeOK, NEW t \in 1..Len(tasks), NEW x \in TaskType, x.address = tasks[t].address,
           tasks' = [tasks EXCEPT ![t] = x],
           UNCHANGED <<args, network, icmp, methods, main>>
    PROVE  Steady(t) /\ tasks'[t] = x
  BY DEF TypeOK, Steady

(* What each of the workers' actions does to its task.                      *)
LEMMA Marked ==
    ASSUME TypeOK, NEW t \in 1..Len(tasks), NEW p \in {"probe", "finished", "joined"},
           tasks' = [tasks EXCEPT ![t].pc = p],
           UNCHANGED <<args, network, icmp, methods, main>>
    PROVE  Steady(t) /\ tasks'[t] = [tasks[t] EXCEPT !.pc = p]
<1>1. tasks[t] \in TaskType
  BY DEF TypeOK
<1>2. /\ [tasks[t] EXCEPT !.pc = p] \in TaskType
      /\ [tasks[t] EXCEPT !.pc = p].address = tasks[t].address
  BY <1>1 DEF TaskType
<1>3. tasks' = [tasks EXCEPT ![t] = [tasks[t] EXCEPT !.pc = p]]
  OBVIOUS
<1>4. QED
  BY <1>2, <1>3, Altered

\* What a probe makes of its task, and when an answer is counted as lost.
LEMMA ProbeFacts ==
    ASSUME TypeOK, NEW t \in 1..Len(tasks), Probe(t)
    PROVE  /\ Steady(t)
           /\ tasks[t].pc \in {"probe", "tcp"}
           /\ \/ Replies(t) /\ tasks'[t] = Onward(merge(tasks[t])) /\ lost' = lost
              \/ ~Replies(t) /\ tasks'[t] = Silent(t) /\ lost' = lost
              \/ /\ Replies(t) /\ tasks'[t] = Silent(t)
                 /\ lost' = lost \cup {<<t, methods[tasks[t].method], 0>>}
<1>1. tasks[t] \in TaskType
  BY DEF TypeOK
<1>2. /\ Onward(merge(tasks[t])) \in TaskType
      /\ Onward(merge(tasks[t])).address = tasks[t].address
  <2>1. merge(tasks[t]) \in TaskType /\ merge(tasks[t]).address = tasks[t].address
    BY <1>1, MergeFacts
  <2>2. QED
    BY <2>1, OnwardFacts
<1>3. UNCHANGED <<args, network, icmp, methods, main>>
  BY DEF Probe, TaskUnchanged
<1>4. ASSUME tasks' = [tasks EXCEPT ![t] = Onward(merge(tasks[t]))]
      PROVE  Steady(t)
  <2>1. Steady(t)
    BY <1>3, <1>2, <1>4, Altered
  <2>2. QED
    BY <2>1
<1>5. ASSUME tasks' = [tasks EXCEPT ![t] = Silent(t)]
      PROVE  Steady(t)
  <2>1. Steady(t)
    BY <1>3, <1>5, SilentFacts, Altered
  <2>2. QED
    BY <2>1
<1>6. \/ /\ Replies(t) /\ lost' = lost
         /\ tasks' = [tasks EXCEPT ![t] = Onward(merge(tasks[t]))]
      \/ ~Replies(t) /\ tasks' = [tasks EXCEPT ![t] = Silent(t)] /\ lost' = lost
      \/ /\ Replies(t) /\ tasks' = [tasks EXCEPT ![t] = Silent(t)]
         /\ lost' = lost \cup {<<t, methods[tasks[t].method], 0>>}
  BY DEF Probe
<1>7. Steady(t)
  BY <1>4, <1>5, <1>6
<1>8. t \in DOMAIN tasks
  BY DEF TypeOK
<1>9. tasks[t].pc \in {"probe", "tcp"}
  BY DEF Probe
<1>10. QED
  BY <1>6, <1>7, <1>8, <1>9

\* Where a task is after a probe.
LEMMA ProbePc ==
    ASSUME TypeOK, NEW t \in 1..Len(tasks), Probe(t)
    PROVE  tasks'[t].pc \in {"probe", "tcp", "snmp"}
<1>1. tasks[t] \in TaskType
  BY DEF TypeOK
<1>2. \A x \in TaskType : Onward(x).pc \in {"probe", "snmp"}
  BY OnwardFacts
<1>3. Silent(t).pc \in {"probe", "tcp", "snmp"}
  <2>1. CASE Silent(t) = [tasks[t] EXCEPT !.method = tasks[t].method, !.pc = "tcp",
                                          !.left = tasks[t].left]
    BY <1>1, <2>1 DEF TaskType
  <2>2. QED
    BY <1>1, <1>2, <2>1, SilentFacts
<1>4. merge(tasks[t]) \in TaskType
  BY <1>1, MergeFacts
<1>5. QED
  BY <1>2, <1>3, <1>4, ProbeFacts

\* What an attempt with a credential makes of its task.
LEMMA SnmpFacts ==
    ASSUME TypeOK, NEW t \in 1..Len(tasks), discover_snmp_target(t)
    PROVE  LET c == tasks[t].credential
               hit == c \in Answers(t).snmp \ Malformed
               At(p, d, n) == [tasks[t] EXCEPT !.pc = p, !.credential = d, !.snmp = n]
           IN /\ Steady(t) /\ tasks[t].pc = "snmp"
              /\ \/ /\ c \notin Credential /\ lost' = lost
                    /\ tasks'[t] = At("finished", c, tasks[t].snmp)
                 \/ /\ c \in Credential /\ hit /\ lost' = lost
                    /\ tasks'[t] = At("finished", c, c)
                 \/ /\ c \in Credential /\ ~hit /\ lost' = lost
                    /\ tasks'[t] = At("snmp", c + 1, tasks[t].snmp)
                 \/ /\ c \in Credential /\ hit /\ lost' = lost \cup {<<t, "snmp", c>>}
                    /\ tasks'[t] = At("snmp", c + 1, tasks[t].snmp)
<1> DEFINE c == tasks[t].credential
           hit == c \in Answers(t).snmp \ Malformed
           At(p, d, n) == [tasks[t] EXCEPT !.pc = p, !.credential = d, !.snmp = n]
<1>1. tasks[t] \in TaskType /\ t \in DOMAIN tasks
  BY DEF TypeOK
<1>2. c \in Nat \ {0} /\ c + 1 \in Nat \ {0} /\ tasks[t].snmp \in 0..NumCredentials
  <2>1. c \in Nat \ {0} /\ tasks[t].snmp \in 0..NumCredentials
    BY <1>1, TaskFields
  <2>2. QED
    BY <2>1
<1>3. hit => c \in Credential
  BY DiscoveryAssumption DEF Answers, TypeOK
<1>4. \/ /\ c \notin Credential /\ lost' = lost
         /\ tasks' = [tasks EXCEPT ![t] = At("finished", c, tasks[t].snmp)]
      \/ /\ c \in Credential /\ hit /\ lost' = lost
         /\ tasks' = [tasks EXCEPT ![t] = At("finished", c, c)]
      \/ /\ c \in Credential /\ ~hit /\ lost' = lost
         /\ tasks' = [tasks EXCEPT ![t] = At("snmp", c + 1, tasks[t].snmp)]
      \/ /\ c \in Credential /\ hit /\ lost' = lost \cup {<<t, "snmp", c>>}
         /\ tasks' = [tasks EXCEPT ![t] = At("snmp", c + 1, tasks[t].snmp)]
  <2>1. /\ [tasks[t] EXCEPT !.pc = "finished"] = At("finished", c, tasks[t].snmp)
        /\ [tasks[t] EXCEPT !.pc = "finished", !.snmp = c] = At("finished", c, c)
    BY <1>1 DEF TaskType
  <2>2. tasks[t].pc = "snmp" =>
           [tasks[t] EXCEPT !.credential = c + 1] = At("snmp", c + 1, tasks[t].snmp)
    BY <1>1 DEF TaskType
  <2>3. tasks[t].pc = "snmp"
    BY DEF discover_snmp_target
  <2> HIDE DEF At
  <2>4. QED
    BY <1>1, <1>3, <2>1, <2>2, <2>3 DEF discover_snmp_target, Miss
<1>5. Steady(t)
  <2>1. ASSUME NEW p \in {"finished", "snmp"}, NEW d \in Nat \ {0},
               NEW n \in 0..NumCredentials
        PROVE  At(p, d, n) \in TaskType /\ At(p, d, n).address = tasks[t].address
    BY <1>1 DEF TaskType
  <2>2. c \in Credential => c \in 0..NumCredentials
    BY <1>2 DEF Credential
  <2>5. UNCHANGED <<args, network, icmp, methods, main>>
    BY DEF discover_snmp_target, TaskUnchanged
  <2>6. PICK x \in TaskType : x.address = tasks[t].address /\ tasks' = [tasks EXCEPT ![t] = x]
    <3> HIDE DEF At
    <3> QED
      BY <1>2, <1>4, <2>1, <2>2
  <2>7. QED
    BY <2>5, <2>6, Altered
<1>6. tasks[t].pc = "snmp"
  BY DEF discover_snmp_target
<1>7. QED
  BY <1>1, <1>4, <1>5, <1>6

\* Where a task is after an attempt with a credential.
LEMMA SnmpPc ==
    ASSUME TypeOK, NEW t \in 1..Len(tasks), discover_snmp_target(t)
    PROVE  tasks'[t].pc \in {"snmp", "finished"}
<1> DEFINE At(p, d, n) == [tasks[t] EXCEPT !.pc = p, !.credential = d, !.snmp = n]
           c == tasks[t].credential
<1>1. tasks[t] \in TaskType
  BY DEF TypeOK
<1>2. \A p, d, n : At(p, d, n).pc = p
  BY <1>1 DEF TaskType
<1>3. \/ tasks'[t] = At("finished", c, tasks[t].snmp) \/ tasks'[t] = At("finished", c, c)
      \/ tasks'[t] = At("snmp", c + 1, tasks[t].snmp)
  BY SnmpFacts
<1> HIDE DEF At
<1>4. QED
  BY <1>2, <1>3

\* The workers and the join change one task at a time.
LEMMA Steadily ==
    ASSUME TypeOK, NEW t \in 1..Len(tasks), Work(t) \/ Panic(t) \/ Join(t)
    PROVE  Steady(t)
<1>1. CASE Acquire(t)
  BY <1>1, Marked DEF Acquire, TaskUnchanged
<1>2. CASE Panic(t)
  BY <1>2, Marked DEF Panic, TaskUnchanged
<1>3. CASE Join(t)
  BY <1>3, Marked DEF Join
<1>4. CASE Probe(t)
  BY <1>4, ProbeFacts
<1>5. CASE discover_snmp_target(t)
  BY <1>5, SnmpFacts
<1>6. QED
  BY <1>1, <1>2, <1>3, <1>4, <1>5 DEF Work
-----------------------------------------------------------------------------
\* The invariant holds before anything was parsed.
LEMMA InitInv == Init => IInv
<1> SUFFICES ASSUME Init PROVE IInv
  OBVIOUS
<1>1. tasks = <<>> /\ Len(tasks) = 0 /\ 1..Len(tasks) = {} /\ panicked = {}
  BY DEF Init
<1>2. TypeOK
  <2>1. tasks \in Seq(TaskType)
    BY <1>1
  <2>2. QED
    BY <1>1, <2>1 DEF Init, TypeOK
<1>3. RangeInv /\ SpawnInv
  BY DEF Init, RangeInv, SpawnInv
<1>4. QED
  BY <1>1, <1>2, <1>3 DEF IInv

(* The iterator goes on to the next address of the range, or, past its end, *)
(* to the start of the next range.                                          *)
LEMMA SpawnStep ==
    ASSUME TypeOK, RangeInv, Spawn
    PROVE  /\ phase = "spawn" /\ next \in Address /\ range \in 1..Len(args)
           /\ ranges[range].start <= next /\ next <= ranges[range].end
           /\ \/ next # ranges[range].end /\ next' = next + 1 /\ range' = range
              \/ /\ next = ranges[range].end /\ range' = range + 1
                 /\ next' = IF range < Len(args) THEN ranges[range + 1].start ELSE -1
           /\ tasks' = Append(tasks, Task(next))
           /\ UNCHANGED <<args, network, icmp, methods, phase, ranges,
                         devices, lost, panicked>>
<1>1. Size \in Nat \ {0}
  BY Powers, Widths DEF Size
<1>2. /\ phase = "spawn" /\ next # -1 /\ next \in Address
      /\ range \in Nat \ {0} /\ range <= Len(args) /\ next \in Span(ranges[range])
  BY DEF Spawn, TypeOK, RangeInv
<1>3. range \in 1..Len(args) /\ Len(ranges) = Len(args)
  BY <1>2, RangeFacts
<1>4. ranges[range].start \in Address /\ ranges[range].end \in Address
  BY <1>2, <1>3, RangeFacts
<1>5. /\ ranges[range].start <= next /\ next <= ranges[range].end
      /\ ranges[range].end \in 0..(Size - 1) /\ next \in 0..(Size - 1)
  BY <1>1, <1>2, <1>4 DEF Span, Address
<1>6. CASE next = ranges[range].end
  <2>1. Step(ranges[range].end) = -1
    BY <1>6 DEF Step
  <2>2. QED
    BY <1>2, <1>3, <1>5, <1>6, <2>1 DEF Spawn
<1>7. CASE next # ranges[range].end
  <2>1. next + 1 \in 0..(Size - 1)
    BY <1>1, <1>5, <1>7
  <2>2. (next + 1) % Size = next + 1
    BY <1>1, <2>1
  <2>3. Step(ranges[range].end) = next + 1 /\ next + 1 # -1
    BY <1>5, <1>7, <2>2 DEF Step
  <2>4. QED
    BY <1>2, <1>3, <1>5, <1>7, <2>3 DEF Spawn
<1>8. QED
  BY <1>6, <1>7

\* Every step keeps the variables typed.
LEMMA StepType ==
    ASSUME TypeOK, RangeInv, [Next]_vars
    PROVE  TypeOK'
<1>1. Size \in Nat \ {0}
  BY Powers, Widths DEF Size
<1>2. CASE UNCHANGED vars
  BY <1>2 DEF vars, main, TypeOK, TaskType
<1>3. CASE ParseRanges
  <2>1. args \in Seq(Specs) /\ Len(args) \in Nat
    BY DiscoveryAssumption DEF TypeOK
  <2>2. next' \in Address \cup {-1}
    <3> DEFINE parsed == [k \in 1..Len(args) |-> parse(args[k])]
    <3>1. CASE \E k \in 1..Len(args) : parsed[k] = Refused
      BY <1>3, <3>1 DEF ParseRanges, TypeOK
    <3>2. CASE ~ \E k \in 1..Len(args) : parsed[k] = Refused
      <4>1. next' = IF parsed = <<>> THEN -1 ELSE parsed[1].start
        BY <1>3, <3>2 DEF ParseRanges
      <4>2. CASE Len(args) = 0
        <5>1. parsed = <<>>
          BY <4>2
        <5>2. QED
          BY <4>1, <5>1
      <4>3. CASE Len(args) # 0
        <5>1. 1 \in 1..Len(args) /\ args[1] \in Specs
          BY <2>1, <4>3
        <5>2. parsed[1].start \in Address
          BY <3>2, <5>1, Parsed
        <5>3. QED
          BY <4>1, <5>2
      <4>4. QED
        BY <4>2, <4>3
    <3>3. QED
      BY <3>1, <3>2
  <2>3. phase' \in {"spawn", "refused"}
    BY <1>3 DEF ParseRanges
  <2>4. UNCHANGED <<args, network, icmp, methods, range, tasks, lost, panicked>>
    BY <1>3 DEF ParseRanges
  <2>5. QED
    BY <2>2, <2>3, <2>4 DEF TypeOK, TaskType
<1>4. CASE Spawn
  <2>1. Task(next) \in TaskType
    <3>1. 1 \in 1..Len(methods)
      BY MethodFacts
    <3>2. <<>> \in Seq({"ping", "netbios", "arp"}) /\ Timeout \in 0..Timeout
          /\ 0 \in 0..NumCredentials
      BY DiscoveryAssumption, CredentialsAssumption
    <3>3. next \in Address
      BY <1>4, SpawnStep
    <3>4. QED
      BY <3>1, <3>2, <3>3 DEF Task, TaskType
  <2>2. tasks' \in Seq(TaskType) /\ Len(tasks') = Len(tasks) + 1 /\ Len(tasks) \in Nat
    <3>1. tasks \in Seq(TaskType) /\ tasks' = Append(tasks, Task(next))
      BY <1>4, SpawnStep DEF TypeOK
    <3>2. QED
      BY <2>1, <3>1
  <2>3. next' \in Address \cup {-1} /\ range' \in Nat \ {0}
    <3>1. CASE next # ranges[range].end /\ next' = next + 1 /\ range' = range
      <4>1. ranges[range].end \in Address
        BY <1>4, SpawnStep, RangeFacts
      <4>2. QED
        BY <1>1, <1>4, <3>1, <4>1, SpawnStep DEF Address
    <3>2. CASE /\ next = ranges[range].end /\ range' = range + 1
               /\ next' = IF range < Len(args) THEN ranges[range + 1].start ELSE -1
      <4>1. range \in 1..Len(args) /\ Len(args) \in Nat
        BY <1>4, SpawnStep, RangeFacts
      <4>2. range < Len(args) => range + 1 \in 1..Len(args)
        BY <4>1
      <4>3. range < Len(args) => ranges[range + 1].start \in Address
        BY <1>4, <4>2, SpawnStep, RangeFacts
      <4>4. QED
        BY <3>2, <4>1, <4>3
    <3>3. QED
      BY <1>4, <3>1, <3>2, SpawnStep
  <2>4. UNCHANGED <<args, network, methods, phase, lost, panicked>>
    BY <1>4, SpawnStep
  <2>5. /\ panicked' \subseteq 1..Len(tasks')
        /\ lost' \subseteq (1..Len(tasks')) \X {"ping", "netbios", "arp", "snmp"}
                                          \X (0..NumCredentials)
    <3>1. 1..Len(tasks) \subseteq 1..Len(tasks')
      BY <2>2
    <3>2. QED
      BY <2>4, <3>1 DEF TypeOK
  <2>6. QED
    BY <2>2, <2>3, <2>4, <2>5 DEF TypeOK, TaskType
<1>5. CASE Spawned \/ Report
  BY <1>5 DEF Spawned, Report, TypeOK, TaskType
<1>6. ASSUME NEW t \in 1..Len(tasks), Work(t) \/ Panic(t) \/ Join(t)
      PROVE  TypeOK'
  <2>1. Steady(t)
    BY <1>6, Steadily
  <2>2. panicked' \subseteq 1..Len(tasks)
    BY <1>6 DEF Work, Acquire, Probe, discover_snmp_target, Panic, Join, TaskUnchanged, TypeOK
  <2> DEFINE Place == (1..Len(tasks)) \X {"ping", "netbios", "arp", "snmp"}
                          \X (0..NumCredentials)
  <2>3. lost' \subseteq Place
    <3>1. lost \subseteq Place
      BY DEF TypeOK
    <3>2. CASE lost' = lost
      BY <3>1, <3>2
    <3>3. CASE Probe(t)
      <4>1. tasks[t] \in TaskType
        BY DEF TypeOK
      <4>2. methods[tasks[t].method] \in {"ping", "netbios", "arp"} /\ 0 \in 0..NumCredentials
        <5>1. tasks[t].method \in 1..Len(methods)
          BY <4>1, TaskFields
        <5>2. 0 \in 0..NumCredentials
          BY DiscoveryAssumption, CredentialsAssumption
        <5>3. QED
          BY <5>1, <5>2, MethodFacts
      <4>3. <<t, methods[tasks[t].method], 0>> \in Place
        BY <4>2
      <4> HIDE DEF Place
      <4>4. QED
        BY <3>1, <3>3, <4>3, ProbeFacts
    <3>4. CASE discover_snmp_target(t)
      <4> DEFINE c == tasks[t].credential
      <4>1. lost' = lost \/ (c \in Credential /\ lost' = lost \cup {<<t, "snmp", c>>})
        BY <3>4, SnmpFacts
      <4>2. c \in Credential => <<t, "snmp", c>> \in Place
        BY DiscoveryAssumption DEF Credential
      <4> HIDE DEF Place, c
      <4>3. QED
        BY <3>1, <4>1, <4>2
    <3>5. CASE Acquire(t) \/ Panic(t) \/ Join(t)
      BY <3>1, <3>5 DEF Acquire, Panic, Join
    <3>6. QED
      BY <1>6, <3>3, <3>4, <3>5 DEF Work
  <2>4. QED
    BY <2>1, <2>2, <2>3 DEF Steady, main, TypeOK, TaskType
<1>7. QED
  BY <1>2, <1>3, <1>4, <1>5, <1>6 DEF Next, Terminated

\* Every step keeps the iteration inside the range it is at.
LEMMA StepRange ==
    ASSUME TypeOK, RangeInv, [Next]_vars
    PROVE  RangeInv'
<1>1. CASE UNCHANGED vars
  BY <1>1 DEF vars, main, RangeInv, Span
<1>2. CASE ParseRanges
  <2> DEFINE parsed == [k \in 1..Len(args) |-> parse(args[k])]
  <2>1. phase = "parse" /\ range = 1 /\ tasks = <<>> /\ devices = {}
    BY <1>2 DEF ParseRanges, RangeInv
  <2>2. UNCHANGED <<args, range, tasks, devices>>
    BY <1>2 DEF ParseRanges
  <2>3. args \in Seq(Specs) /\ Len(args) \in Nat
    BY DiscoveryAssumption DEF TypeOK
  <2>4. CASE \E k \in 1..Len(args) : parsed[k] = Refused
    <3>1. phase' = "refused"
      BY <1>2, <2>4 DEF ParseRanges
    <3>2. QED
      BY <2>1, <2>2, <3>1 DEF RangeInv
  <2>5. CASE ~ \E k \in 1..Len(args) : parsed[k] = Refused
    <3>1. /\ phase' = "spawn" /\ ranges' = parsed
          /\ next' = IF parsed = <<>> THEN -1 ELSE parsed[1].start
      BY <1>2, <2>5 DEF ParseRanges
    <3>2. IF next' = -1 THEN range' = Len(args') + 1
          ELSE phase' = "spawn" /\ range' <= Len(args') /\ next' \in Span(ranges'[range'])
      <4>1. CASE Len(args) = 0
        <5>1. parsed = <<>>
          BY <4>1
        <5>2. QED
          BY <2>1, <2>2, <3>1, <4>1, <5>1
      <4>2. CASE Len(args) # 0
        <5>1. 1 \in 1..Len(args) /\ args[1] \in Specs /\ parsed[1] = parse(args[1])
          BY <2>3, <4>2
        <5>2. parsed # <<>> /\ DOMAIN parsed = 1..Len(args)
          BY <5>1
        <5>3. /\ parsed[1].start \in Address /\ parsed[1].end \in Address
              /\ parsed[1].start <= parsed[1].end
          BY <2>5, <5>1, Parsed
        <5>4. Size \in Nat \ {0}
          BY Powers, Widths DEF Size
        <5> HIDE DEF parsed
        <5>5. next' = parsed[1].start /\ next' # -1 /\ next' \in parsed[1].start..parsed[1].end
          BY <3>1, <5>2, <5>3, <5>4 DEF Address
        <5>6. Span(ranges'[range']) = parsed[1].start..parsed[1].end
          BY <2>1, <2>2, <3>1 DEF Span
        <5>7. QED
          BY <2>1, <2>2, <2>3, <3>1, <4>2, <5>5, <5>6
      <4>3. QED
        BY <4>1, <4>2
    <3>3. QED
      BY <2>1, <2>2, <2>5, <3>1, <3>2 DEF RangeInv
  <2>6. QED
    BY <2>4, <2>5
<1>3. CASE Spawn
  <2>1. phase = "spawn" /\ range \in 1..Len(args) /\ Len(args) \in Nat
    BY <1>3, SpawnStep, RangeFacts
  <2>2. UNCHANGED <<args, phase, ranges, devices>> /\ devices = {}
    BY <1>3, <2>1, SpawnStep DEF RangeInv
  <2>3. \A k \in 1..Len(args) : Span(ranges'[k]) = Span(ranges[k])
    BY <2>2 DEF Span
  <2>4. CASE next # ranges[range].end /\ next' = next + 1 /\ range' = range
    <3>1. /\ next \in Address /\ ranges[range].start \in Address
          /\ ranges[range].end \in Address /\ Size \in Nat \ {0}
      BY <1>3, <2>1, SpawnStep, RangeFacts, Powers, Widths DEF Size
    <3>2. next' \in Span(ranges[range]) /\ next' # -1
      BY <1>3, <2>4, <3>1, SpawnStep DEF Span, Address
    <3>3. QED
      BY <2>1, <2>2, <2>3, <2>4, <3>2 DEF RangeInv
  <2>5. CASE /\ next = ranges[range].end /\ range' = range + 1
             /\ next' = IF range < Len(args) THEN ranges[range + 1].start ELSE -1
    <3>1. CASE range < Len(args)
      <4>1. range + 1 \in 1..Len(args)
        BY <2>1, <3>1
      <4>2. /\ ranges[range + 1].start \in Address /\ ranges[range + 1].end \in Address
            /\ ranges[range + 1].start <= ranges[range + 1].end /\ Size \in Nat \ {0}
        BY <2>1, <4>1, RangeFacts, Powers, Widths DEF Size
      <4>3. next' \in Span(ranges[range + 1]) /\ next' # -1
        BY <2>5, <3>1, <4>2 DEF Span, Address
      <4>4. range' \in 1..Len(args) /\ next' \in Span(ranges'[range'])
        BY <2>3, <2>5, <4>1, <4>3
      <4>5. QED
        BY <2>1, <2>2, <4>3, <4>4 DEF RangeInv
    <3>2. CASE ~(range < Len(args))
      <4>1. next' = -1 /\ range' = Len(args) + 1
        BY <2>1, <2>5, <3>2
      <4>2. QED
        BY <2>1, <2>2, <4>1 DEF RangeInv
    <3>3. QED
      BY <3>1, <3>2
  <2>6. QED
    BY <1>3, <2>4, <2>5, SpawnStep
<1>4. CASE Spawned \/ Report
  BY <1>4 DEF Spawned, Report, RangeInv, Span
<1>5. ASSUME NEW t \in 1..Len(tasks), Work(t) \/ Panic(t) \/ Join(t)
      PROVE  RangeInv'
  <2>1. Steady(t)
    BY <1>5, Steadily
  <2>2. devices' = devices \/ phase = "join"
    BY <1>5 DEF Work, Acquire, Probe, discover_snmp_target, Panic, Join, TaskUnchanged
  <2>3. phase \notin {"parse", "refused"}
    <3>1. SUFFICES ASSUME tasks = <<>> PROVE FALSE
      BY DEF RangeInv
    <3>2. QED
      BY <3>1
  <2>4. QED
    BY <2>1, <2>2, <2>3 DEF Steady, main, RangeInv, Span
<1>6. QED
  BY <1>1, <1>2, <1>3, <1>4, <1>5 DEF Next, Terminated

(* The address that is taken joins those passed, and no other does.         *)
LEMMA StepSpawn ==
    ASSUME TypeOK, RangeInv, SpawnInv, [Next]_vars
    PROVE  SpawnInv'
<1>1. CASE ParseRanges
  <2>1. SUFFICES ASSUME phase' = "spawn"
                 PROVE  SpawnInv'
    BY <1>1 DEF ParseRanges, SpawnInv
  <2>2. tasks' = <<>> /\ range' = 1 /\ 1..Len(tasks') = {}
    BY <1>1 DEF ParseRanges, RangeInv
  <2>3. TypeOK' /\ RangeInv'
    BY StepType, StepRange
  <2>4. ASSUME NEW k \in 1..Len(args'), NEW a \in Span(ranges'[k])
        PROVE  ~Before(k, a, range', next')
    <3>1. IF next' = -1 THEN range' = Len(args') + 1 ELSE next' \in Span(ranges'[range'])
      BY <2>1, <2>3 DEF RangeInv
    <3>2. QED
      <4>1. k \in 1..Len(args') /\ Len(args') \in Nat
        <5>1. args' \in Seq(Specs)
          BY <2>3, DiscoveryAssumption DEF TypeOK
        <5>2. QED
          BY <5>1
      <4>2. ~(k < range')
        BY <2>2, <4>1
      <4>3. SUFFICES ASSUME k = range', a < next' PROVE FALSE
        BY <4>2 DEF Before
      <4>4. next' = ranges'[1].start
        <5>1. ranges'[1] = (IF 1 = 1 THEN ranges'[1] ELSE 0) /\ 1 \in 1..Len(args)
          BY <1>1, <2>2, <4>1, <4>3 DEF ParseRanges
        <5>2. ranges' = [i \in 1..Len(args) |-> parse(args[i])] /\ ranges' # <<>>
          BY <1>1, <2>1, <5>1 DEF ParseRanges
        <5>3. QED
          BY <1>1, <2>1, <5>2 DEF ParseRanges
      <4>5. a \in ranges'[1].start..ranges'[1].end
        BY <2>2, <4>3 DEF Span
      <4>6. ranges'[1].start \in Int
        <5>1. next' \in Address \cup {-1} /\ Size \in Nat
          BY <2>3, Powers, Widths DEF TypeOK, Size
        <5>2. QED
          BY <4>4, <5>1 DEF Address
      <4>7. QED
        BY <4>3, <4>4, <4>5, <4>6
  <2>5. PICK from \in [1..Len(tasks') -> 1..Len(args')] : TRUE
    <3>1. [t \in 1..Len(tasks') |-> 1] \in [1..Len(tasks') -> 1..Len(args')]
      BY <2>2
    <3>2. QED
      BY <3>1
  <2>6. QED
    BY <2>2, <2>4, <2>5 DEF SpawnInv
<1>2. CASE Spawn
  <2> DEFINE N == Len(tasks)
  <2>1. /\ phase = "spawn" /\ range \in 1..Len(args) /\ Len(args) \in Nat
        /\ next \in Address /\ Size \in Nat
    BY <1>2, SpawnStep, RangeFacts, Powers, Widths DEF Size
  <2>2. PICK from \in [1..N -> 1..Len(args)] :
            /\ \A t \in 1..N :
                  /\ tasks[t].address \in Span(ranges[from[t]])
                  /\ Before(from[t], tasks[t].address, range, next)
            /\ \A t, u \in 1..N :
                  from[t] = from[u] /\ tasks[t].address = tasks[u].address => t = u
            /\ \A k \in 1..Len(args) : \A a \in Span(ranges[k]) :
                  Before(k, a, range, next)
                        => \E t \in 1..N : from[t] = k /\ tasks[t].address = a
    BY <2>1 DEF SpawnInv
  <2>3. /\ N \in Nat /\ Len(tasks') = N + 1 /\ tasks'[N + 1] = Task(next)
        /\ \A t \in 1..N : tasks'[t] = tasks[t]
    <3>1. tasks \in Seq(TaskType) /\ tasks' = Append(tasks, Task(next))
      BY <1>2, SpawnStep DEF TypeOK
    <3>2. QED
      BY <3>1
  <2>4. Task(next).address = next /\ next \in Span(ranges[range])
    <3>1. next # -1
      BY <2>1 DEF Address
    <3>2. QED
      BY <2>1, <3>1 DEF Task, RangeInv
  <2>5. UNCHANGED <<args, phase, ranges>>
    BY <1>2, SpawnStep
  <2>6. \A k : Span(ranges'[k]) = Span(ranges[k])
    BY <2>5
  <2>7. \A k \in 1..Len(args) : \A a \in Span(ranges[k]) : k \in Nat /\ a \in Int
    BY <2>1 DEF Span
  <2>8. ASSUME NEW k \in 1..Len(args), NEW a \in Span(ranges[k])
        PROVE  Before(k, a, range', next')
                   <=> Before(k, a, range, next) \/ (k = range /\ a = next)
    <3>1. /\ ranges[range].end \in Int /\ ranges[k].start \in Int /\ k \in Nat /\ a \in Int
          /\ next \in Int /\ range \in Nat /\ ranges[k].start <= a /\ a <= ranges[k].end
      <4>1. ranges[range].end \in Address /\ ranges[k].start \in Address
            /\ ranges[k].end \in Address
        BY <2>1, RangeFacts
      <4>2. QED
        BY <2>1, <2>7, <4>1 DEF Address, Span
    <3>2. CASE next # ranges[range].end /\ next' = next + 1 /\ range' = range
      BY <3>1, <3>2 DEF Before
    <3>3. CASE /\ next = ranges[range].end /\ range' = range + 1
               /\ next' = IF range < Len(args) THEN ranges[range + 1].start ELSE -1
      <4>1. k <= Len(args)
        BY <2>1
      <4>2. k = range => a <= next
        BY <3>1, <3>3
      <4>3. ~(k = range' /\ a < next')
        BY <2>1, <3>1, <3>3, <4>1
      <4>4. QED
        BY <3>1, <3>3, <4>2, <4>3 DEF Before
    <3>4. QED
      BY <1>2, <3>2, <3>3, SpawnStep
  <2>9. ~Before(range, next, range, next)
    BY <2>1 DEF Before, Address
  <2> DEFINE to == [t \in 1..(N + 1) |-> IF t = N + 1 THEN range ELSE from[t]]
  <2>10. to \in [1..(N + 1) -> 1..Len(args)] /\ to[N + 1] = range
         /\ \A t \in 1..N : to[t] = from[t]
    BY <2>1, <2>2, <2>3
  <2> HIDE DEF to
  <2>11. \A t \in 1..(N + 1) : t = N + 1 \/ t \in 1..N
    BY <2>3
  <2>12. ASSUME NEW t \in 1..(N + 1)
         PROVE  /\ tasks'[t].address \in Span(ranges'[to[t]])
                /\ Before(to[t], tasks'[t].address, range', next')
    <3>1. CASE t = N + 1
      BY <2>1, <2>3, <2>4, <2>5, <2>8, <2>10, <3>1
    <3>2. CASE t \in 1..N
      <4>1. /\ to[t] = from[t] /\ tasks'[t] = tasks[t] /\ from[t] \in 1..Len(args)
            /\ tasks[t].address \in Span(ranges[from[t]])
            /\ Before(from[t], tasks[t].address, range, next)
        BY <2>2, <2>3, <2>10, <3>2
      <4>2. QED
        BY <2>5, <2>8, <4>1
    <3>3. QED
      BY <2>11, <3>1, <3>2
  <2>13. ASSUME NEW t \in 1..(N + 1), NEW u \in 1..(N + 1), to[t] = to[u],
                tasks'[t].address = tasks'[u].address
         PROVE  t = u
    BY <2>2, <2>3, <2>4, <2>9, <2>10, <2>11, <2>13
  <2>14. ASSUME NEW k \in 1..Len(args), NEW a \in Span(ranges[k]), Before(k, a, range', next')
         PROVE  \E t \in 1..(N + 1) : to[t] = k /\ tasks'[t].address = a
    <3>1. CASE k = range /\ a = next
      <4>1. N + 1 \in 1..(N + 1)
        BY <2>3
      <4>2. QED
        BY <2>3, <2>4, <2>10, <3>1, <4>1
    <3>2. CASE Before(k, a, range, next)
      <4>1. PICK t \in 1..N : from[t] = k /\ tasks[t].address = a
        BY <2>2, <3>2
      <4>2. t \in 1..(N + 1)
        BY <2>3
      <4>3. QED
        BY <2>3, <2>10, <4>1, <4>2
    <3>3. QED
      BY <2>8, <2>14, <3>1, <3>2
  <2>15. QED
    <3>1. Len(tasks') = N + 1 /\ args' = args /\ to \in [1..Len(tasks') -> 1..Len(args')]
      BY <2>3, <2>5, <2>10
    <3>2. /\ \A t \in 1..Len(tasks') :
                /\ tasks'[t].address \in Span(ranges'[to[t]])
                /\ Before(to[t], tasks'[t].address, range', next')
          /\ \A t, u \in 1..Len(tasks') :
                to[t] = to[u] /\ tasks'[t].address = tasks'[u].address => t = u
      BY <2>12, <2>13, <3>1
    <3>3. \A k \in 1..Len(args') : \A a \in Span(ranges'[k]) :
             Before(k, a, range', next') =>
                \E t \in 1..Len(tasks') : to[t] = k /\ tasks'[t].address = a
      BY <2>6, <2>14, <3>1
    <3>4. QED
      BY <3>1, <3>2, <3>3, Zenon DEF SpawnInv
<1>3. ASSUME UNCHANGED <<args, ranges, range, next>>, Len(tasks') = Len(tasks),
             \A t \in 1..Len(tasks) : tasks'[t].address = tasks[t].address,
             phase' \in {"spawn", "join", "done"} => phase \in {"spawn", "join", "done"}
      PROVE  SpawnInv'
  <2>1. CASE phase' \notin {"spawn", "join", "done"}
    BY <2>1 DEF SpawnInv
  <2>2. CASE phase' \in {"spawn", "join", "done"}
    <3>1. PICK from \in [1..Len(tasks) -> 1..Len(args)] :
             /\ \A t \in 1..Len(tasks) :
                   /\ tasks[t].address \in Span(ranges[from[t]])
                   /\ Before(from[t], tasks[t].address, range, next)
             /\ \A t, u \in 1..Len(tasks) :
                   from[t] = from[u] /\ tasks[t].address = tasks[u].address => t = u
             /\ \A k \in 1..Len(args) : \A a \in Span(ranges[k]) :
                   Before(k, a, range, next)
                       => \E t \in 1..Len(tasks) : from[t] = k /\ tasks[t].address = a
      BY <1>3, <2>2 DEF SpawnInv
    <3>2. /\ \A t \in 1..Len(tasks') :
                /\ tasks'[t].address \in Span(ranges'[from[t]])
                /\ Before(from[t], tasks'[t].address, range', next')
          /\ \A t, u \in 1..Len(tasks') :
                from[t] = from[u] /\ tasks'[t].address = tasks'[u].address => t = u
      BY <1>3, <3>1
    <3>3. \A k \in 1..Len(args') : \A a \in Span(ranges'[k]) :
             Before(k, a, range', next')
                 => \E t \in 1..Len(tasks') : from[t] = k /\ tasks'[t].address = a
      BY <1>3, <3>1
    <3>4. from \in [1..Len(tasks') -> 1..Len(args')]
      BY <1>3, <3>1
    <3>5. QED
      BY <3>2, <3>3, <3>4, Zenon DEF SpawnInv
  <2>3. QED
    BY <2>1, <2>2
<1>4. CASE UNCHANGED vars \/ Spawned \/ Report
  BY <1>3, <1>4 DEF vars, main, Spawned, Report
<1>5. ASSUME NEW t \in 1..Len(tasks), Work(t) \/ Panic(t) \/ Join(t)
      PROVE  SpawnInv'
  <2>1. Steady(t)
    BY <1>5, Steadily
  <2>2. QED
    BY <1>3, <2>1 DEF Steady, main
<1>6. QED
  BY <1>1, <1>2, <1>4, <1>5 DEF Next, Terminated

(* Once every address has been taken, an address has as many tasks as there *)
(* are specifications that cover it.                                        *)
LEMMA Counted ==
    ASSUME TypeOK, RangeInv, SpawnInv, phase = "done", NEW a \in Address
    PROVE  Cardinality({t \in 1..Len(tasks) : tasks[t].address = a})
               = Cardinality({k \in 1..Len(args) : Covers(args[k], a)})
<1> DEFINE Ts == {t \in 1..Len(tasks) : tasks[t].address = a}
           Ks == {k \in 1..Len(args) : Covers(args[k], a)}
<1>1. PICK from \in [1..Len(tasks) -> 1..Len(args)] :
          /\ \A t \in 1..Len(tasks) : tasks[t].address \in Span(ranges[from[t]])
          /\ \A t, u \in 1..Len(tasks) :
                from[t] = from[u] /\ tasks[t].address = tasks[u].address => t = u
          /\ \A k \in 1..Len(args) : \A b \in Span(ranges[k]) :
                Before(k, b, range, next) => \E t \in 1..Len(tasks) :
                                                from[t] = k /\ tasks[t].address = b
  BY DEF SpawnInv
<1>2. Len(args) \in Nat /\ \A k \in 1..Len(args) : a \in Span(ranges[k]) <=> Covers(args[k], a)
  BY RangeFacts
<1>3. range = Len(args) + 1
  BY DEF RangeInv
<1>4. \A k \in 1..Len(args), b \in Int : Before(k, b, range, next)
  BY <1>2, <1>3 DEF Before
<1>5. a \in Int
  BY Powers, Widths DEF Address, Size
<1> DEFINE f == [t \in Ts |-> from[t]]
<1>6. f \in [Ts -> Ks]
  BY <1>1, <1>2
<1>7. \A t, u \in Ts : f[t] = f[u] => t = u
  BY <1>1
<1>8. \A k \in Ks : \E t \in Ts : f[t] = k
  BY <1>1, <1>2, <1>4, <1>5
<1>9. IsFiniteSet(Ts)
  <2>1. Len(tasks) \in Int /\ IsFiniteSet(1..Len(tasks))
    BY FS_Interval DEF TypeOK
  <2>2. QED
    BY <2>1, FS_Subset
<1> HIDE DEF Ts, Ks, f
<1>10. f \in Bijection(Ts, Ks)
  BY <1>6, <1>7, <1>8 DEF Bijection, Injection, Surjection, IsInjective
<1>11. Cardinality(Ks) = Cardinality(Ts)
  BY <1>9, <1>10, FS_Bijection DEF ExistsBijection
<1>12. QED
  BY <1>11 DEF Ts, Ks
-----------------------------------------------------------------------------
(* What has been heard after each method.                                   *)
LEMMA HeardNext ==
    ASSUME NEW hits, NEW order, Len(order) \in Nat
    PROVE  /\ Heard(hits, order)[0] = <<>>
           /\ \A n \in 0..(Len(order) - 1) :
                 Heard(hits, order)[n + 1] =
                     IF n + 1 \in hits THEN Append(Heard(hits, order)[n], order[n + 1])
                     ELSE Heard(hits, order)[n]
<1>1. PICK N \in Nat : N = Len(order)
  OBVIOUS
<1>2. \E f : Collects(f, N, hits, order)
  BY CollectingExists
<1>3. Heard(hits, order) = CHOOSE f : Collects(f, N, hits, order)
  BY <1>1, Zenon DEF Heard, Collects
<1>4. PICK f : f = Heard(hits, order) /\ Collects(f, N, hits, order)
  BY <1>2, <1>3, Zenon
<1>5. f[0] = <<>>
  BY <1>4 DEF Collects
<1>6. \A n \in 0..(N - 1) :
         f[n + 1] = IF n + 1 \in hits THEN Append(f[n], order[n + 1]) ELSE f[n]
  BY <1>4, CollectsNext
<1>7. QED
  BY <1>1, <1>4, <1>5, <1>6

(* It depends on nothing but the methods tried so far.                      *)
LEMMA HeardSame ==
    ASSUME NEW order, Len(order) \in Nat, NEW n \in 0..Len(order), NEW h, NEW g,
           \A k \in 1..n : k \in h <=> k \in g
    PROVE  Heard(h, order)[n] = Heard(g, order)[n]
<1> DEFINE T == {k \in 0..n : Heard(h, order)[k] = Heard(g, order)[k]}
<1>1. 0 \in T
  BY HeardNext
<1>2. ASSUME NEW k \in 0..(n - 1), k \in T
      PROVE  k + 1 \in T
  <2>1. k \in 0..(Len(order) - 1) /\ k + 1 \in 1..n /\ k + 1 \in 0..n
    OBVIOUS
  <2>2. /\ Heard(h, order)[k + 1] =
               IF k + 1 \in h THEN Append(Heard(h, order)[k], order[k + 1])
               ELSE Heard(h, order)[k]
        /\ Heard(g, order)[k + 1] =
               IF k + 1 \in g THEN Append(Heard(g, order)[k], order[k + 1])
               ELSE Heard(g, order)[k]
    BY <2>1, HeardNext
  <2>3. QED
    BY <1>2, <2>1, <2>2
<1> HIDE DEF T
<1>3. 0..n \subseteq T /\ n \in Nat
  BY <1>1, <1>2, BoundedInduction
<1>4. QED
  BY <1>3 DEF T

\* The credentials of a host are numbers of credentials.
LEMMA HostFacts ==
    ASSUME TypeOK, NEW t \in 1..Len(tasks)
    PROVE  /\ Answers(t).snmp \subseteq Credential /\ Keys(t) \subseteq Credential
           /\ \A c \in Credential : c \in Nat \ {0}
  BY DiscoveryAssumption DEF Answers, TypeOK, Keys, Credential

\* What is known of a task does not change with what the others do.
Apart(t) ==
    /\ \A m, c : <<t, m, c>> \in lost' <=> <<t, m, c>> \in lost
    /\ UNCHANGED <<network, icmp, methods>> /\ tasks'[t].address = tasks[t].address

\* So the answers that reach it do not change,
LEMMA SameHits ==
    ASSUME NEW t, Apart(t)
    PROVE  Hits(t)' = Hits(t) /\ Keys(t)' = Keys(t) /\ Answers(t)' = Answers(t)
<1>1. Answers(t)' = Answers(t)
  BY DEF Answers, Apart
<1>2. \A m : Hit(t, m)' <=> Hit(t, m)
  BY <1>1 DEF Hit, Apart
<1>3. QED
  BY <1>1, <1>2 DEF Hits, Keys, Apart

\* nor what its report is going to be,
LEMMA SameFound ==
    ASSUME NEW t, Apart(t)
    PROVE  Found(t)' = Found(t)
<1>1. (Heard(Hits(t), methods)[Len(methods)])' = Heard(Hits(t), methods)[Len(methods)]
  BY SameHits DEF Apart
<1>2. \A m : Hears(t, m)' <=> Hears(t, m)
  BY SameHits DEF Hears, Apart
<1>3. Keys(t)' = Keys(t) /\ tasks'[t].address = tasks[t].address
  BY SameHits DEF Apart
<1>4. QED
  BY <1>1, <1>2, <1>3 DEF Found

\* nor what it has been told so far, if its record of it stays,
LEMMA SameTold ==
    ASSUME NEW t, Apart(t), NEW n, NEW c, Told(t, n, c),
           tasks'[t].found_by = tasks[t].found_by, tasks'[t].mac = tasks[t].mac,
           tasks'[t].name = tasks[t].name
    PROVE  Told(t, n, c)'
<1>1. Hits(t)' = Hits(t) /\ Keys(t)' = Keys(t) /\ methods' = methods
  BY SameHits DEF Apart
<1>2. (Heard(Hits(t), methods)[n - 1])' = Heard(Hits(t), methods)[n - 1]
  BY <1>1
<1>3. \A m, d : <<t, m, d>> \in lost' <=> <<t, m, d>> \in lost
  BY DEF Apart
<1>4. QED
  BY <1>1, <1>2, <1>3 DEF Told

\* and a task that nothing touches keeps its invariant.
LEMMA SameTask ==
    ASSUME NEW t, Apart(t), TaskInv(t), tasks'[t] = tasks[t]
    PROVE  TaskInv(t)'
<1>1. \A n, c : Told(t, n, c) => Told(t, n, c)'
  BY SameTold
<1>2. Found(t)' = Found(t) /\ methods' = methods /\ icmp' = icmp
  BY SameFound DEF Apart
<1>3. from_parts(tasks[t])' = from_parts(tasks[t])
  BY DEF from_parts
<1>4. QED
  BY <1>1, <1>2, <1>3 DEF TaskInv
-----------------------------------------------------------------------------
(* One more method has been tried: x is the task with what it told.         *)
LEMMA ToldOnward ==
    ASSUME TypeOK, NEW t \in 1..Len(tasks), Steady(t), TaskInv(t),
           tasks[t].pc \in {"probe", "tcp"},
           NEW x \in TaskType, tasks'[t] = Onward(x),
           x.method = tasks[t].method, x.credential = tasks[t].credential,
           x.snmp = tasks[t].snmp,
           IF x.method \in Hits(t)' THEN x = merge(tasks[t]) ELSE x = tasks[t],
           \A k \in 1..(x.method - 1) : k \in Hits(t)' <=> k \in Hits(t),
           Keys(t)' = Keys(t),
           \A d : <<t, "snmp", d>> \in lost' => <<t, "snmp", d>> \in lost,
           \A k \in 1..Len(methods) : <<t, methods[k], 0>> \in lost'
               => k = x.method \/ <<t, methods[k], 0>> \in lost
    PROVE  TaskInv(t)'
<1> DEFINE m == tasks[t].method
           y == tasks'[t]
           hits == Hits(t)'
<1>1. /\ tasks[t] \in TaskType /\ m \in 1..Len(methods) /\ Len(methods) \in Nat \ {0}
      /\ methods' = methods /\ icmp' = icmp
  <2>1. tasks[t] \in TaskType
    BY DEF TypeOK
  <2>2. methods' = methods /\ icmp' = icmp
    BY DEF Steady
  <2>3. m \in 1..Len(methods)
    BY <2>1, TaskFields
  <2>4. QED
    BY <2>1, <2>2, <2>3, MethodFacts
<1>2. Told(t, m, 1) /\ tasks[t].credential = 1 /\ tasks[t].snmp = 0
  BY DEF TaskInv
<1>3. /\ y.found_by = x.found_by /\ y.mac = x.mac /\ y.name = x.name
      /\ y.credential = 1 /\ y.snmp = 0
      /\ IF m < Len(methods) THEN y.pc = "probe" /\ y.left = Timeout /\ y.method = m + 1
         ELSE y.pc = "snmp"
  BY <1>2, OnwardFacts
<1>4. PICK n \in Nat : n = m + 1
  BY <1>1
<1>5. Told(t, n, 1)'
  <2>1. Heard(hits, methods)[m - 1] = Heard(Hits(t), methods)[m - 1]
    <3> HIDE DEF hits
    <3>1. Len(methods) \in Nat /\ m - 1 \in 0..Len(methods)
      BY <1>1
    <3>2. \A k \in 1..(m - 1) : k \in hits <=> k \in Hits(t)
      BY DEF hits
    <3>3. QED
      BY <3>1, <3>2, HeardSame
  <2>2. Heard(hits, methods)[m] =
           IF m \in hits THEN Append(Heard(hits, methods)[m - 1], methods[m])
           ELSE Heard(hits, methods)[m - 1]
    <3> HIDE DEF hits
    <3>1. PICK k \in 0..(Len(methods) - 1) : k = m - 1 /\ k + 1 = m
      BY <1>1
    <3>2. Len(methods) \in Nat
      BY <1>1
    <3>3. Heard(hits, methods)[k + 1] =
              IF k + 1 \in hits THEN Append(Heard(hits, methods)[k], methods[k + 1])
              ELSE Heard(hits, methods)[k]
      BY <3>2, HeardNext
    <3>4. QED
      BY <3>1, <3>3
  <2>3. y.found_by = Heard(hits, methods)[m]
    <3>1. tasks[t].found_by = Heard(Hits(t), methods)[m - 1]
      BY <1>2 DEF Told
    <3>2. CASE m \in hits
      <4>1. x.found_by = Append(tasks[t].found_by, methods[m])
        BY <1>1, <3>2, MergeFacts
      <4>2. QED
        BY <1>3, <2>1, <2>2, <3>1, <3>2, <4>1
    <3>3. CASE m \notin hits
      BY <1>3, <2>1, <2>2, <3>1, <3>3
    <3>4. QED
      BY <3>2, <3>3
  <2>4. \A k \in hits : k < m + 1 <=> k = m \/ (k \in Hits(t) /\ k < m)
    <3>1. \A k \in hits : k \in 1..Len(methods)
      BY <1>1 DEF Hits
    <3>2. QED
      BY <1>1, <3>1
  <2>5. \A k \in Hits(t) : k < m => k \in hits /\ k < m + 1
    <3>1. \A k \in Hits(t) : k \in 1..Len(methods)
      BY DEF Hits
    <3>2. QED
      BY <1>1, <3>1
  <2>6. \A p : (\E k \in hits : k < m + 1 /\ methods[k] = p)
               <=> \/ m \in hits /\ methods[m] = p
                   \/ \E k \in Hits(t) : k < m /\ methods[k] = p
    <3> HIDE DEF hits
    <3>1. m < m + 1
      BY <1>1
    <3>2. QED
      BY <2>4, <2>5, <3>1
  <2>7. /\ tasks[t].mac = IF \E k \in Hits(t) : k < m /\ methods[k] = "arp" THEN "mac" ELSE ""
        /\ tasks[t].name = IF \E k \in Hits(t) : k < m /\ methods[k] = "netbios"
                           THEN "netbios" ELSE ""
    BY <1>2 DEF Told
  <2>8. y.mac = IF \E k \in hits : k < m + 1 /\ methods[k] = "arp" THEN "mac" ELSE ""
    <3>1. y.mac = IF m \in hits /\ methods[m] = "arp" /\ tasks[t].mac = "" THEN "mac"
                  ELSE tasks[t].mac
      <4>1. CASE m \in hits
        <5>1. x = merge(tasks[t])
          BY <4>1
        <5>2. QED
          BY <1>1, <1>3, <4>1, <5>1, MergeFacts
      <4>2. CASE m \notin hits
        <5>1. x = tasks[t]
          BY <4>2
        <5>2. QED
          BY <1>3, <4>2, <5>1
      <4>3. QED
        BY <4>1, <4>2
    <3>2. (\E k \in hits : k < m + 1 /\ methods[k] = "arp")
             <=> \/ m \in hits /\ methods[m] = "arp"
                 \/ \E k \in Hits(t) : k < m /\ methods[k] = "arp"
      BY <2>6
    <3> HIDE DEF hits, m, y
    <3>3. QED
      BY <2>7, <3>1, <3>2
  <2>9. y.name = IF \E k \in hits : k < m + 1 /\ methods[k] = "netbios" THEN "netbios" ELSE ""
    <3>1. y.name = IF m \in hits /\ methods[m] = "netbios" /\ tasks[t].name = "" THEN "netbios"
                  ELSE tasks[t].name
      <4>1. CASE m \in hits
        <5>1. x = merge(tasks[t])
          BY <4>1
        <5>2. QED
          BY <1>1, <1>3, <4>1, <5>1, MergeFacts
      <4>2. CASE m \notin hits
        <5>1. x = tasks[t]
          BY <4>2
        <5>2. QED
          BY <1>3, <4>2, <5>1
      <4>3. QED
        BY <4>1, <4>2
    <3>2. (\E k \in hits : k < m + 1 /\ methods[k] = "netbios")
             <=> \/ m \in hits /\ methods[m] = "netbios"
                 \/ \E k \in Hits(t) : k < m /\ methods[k] = "netbios"
      BY <2>6
    <3> HIDE DEF hits, m, y
    <3>3. QED
      BY <2>7, <3>1, <3>2
  <2>10. /\ \A k \in 1..Len(methods) : <<t, methods[k], 0>> \in lost' => k < m + 1
         /\ \A d \in Credential : <<t, "snmp", d>> \in lost' => d < 1
    <3>1. /\ \A k \in 1..Len(methods) : <<t, methods[k], 0>> \in lost => k < m
          /\ \A d \in Credential : <<t, "snmp", d>> \in lost => d < 1
      BY <1>2 DEF Told
    <3>2. QED
      BY <1>1, <3>1
  <2>11. \A d \in Keys(t)' : ~(d < 1)
    BY <1>2 DEF Told
  <2>12. n - 1 = m
    BY <1>1, <1>4
  <2> HIDE DEF m
  <2>13. QED
    BY <1>1, <1>4, <2>3, <2>8, <2>9, <2>10, <2>11, <2>12 DEF Told
<1>6. CASE m < Len(methods)
  <2>1. Told(t, tasks[t].method, 1)'
    BY <1>3, <1>5, <1>6, <1>4 DEF Told
  <2> HIDE DEF m
  <2>2. QED
    BY <1>1, <1>3, <1>6, <2>1 DEF TaskInv
<1>7. CASE ~(m < Len(methods))
  <2>1. n = Len(methods') + 1
    BY <1>1, <1>7, <1>4
  <2>2. Told(t, Len(methods) + 1, tasks[t].credential)'
    BY <1>3, <1>5, <2>1 DEF Told
  <2> HIDE DEF m
  <2>3. QED
    BY <1>1, <1>3, <1>7, <2>2 DEF TaskInv
<1>8. QED
  BY <1>6, <1>7

(* A task that may hear the method it is trying does, unless it is lost.    *)
LEMMA RepliesHits ==
    ASSUME TypeOK, NEW t \in 1..Len(tasks), TaskInv(t), tasks[t].pc \in {"probe", "tcp"},
           tasks[t].pc = "tcp" \/ icmp \/ methods[tasks[t].method] # "ping"
    PROVE  tasks[t].method \in Hits(t) <=> Replies(t)
<1> DEFINE m == tasks[t].method
<1>1. /\ m \in 1..Len(methods) /\ Len(methods) \in Nat
      /\ methods[m] \in {"ping", "netbios", "arp"}
  <2>1. tasks[t] \in TaskType
    BY DEF TypeOK
  <2>2. m \in 1..Len(methods)
    BY <2>1, TaskFields
  <2>3. QED
    BY <2>2, MethodFacts
<1>2. <<t, methods[m], 0>> \notin lost
  <2>1. Told(t, m, 1)
    BY DEF TaskInv
  <2>2. \A k \in 1..Len(methods) : <<t, methods[k], 0>> \in lost => k < m
    BY <2>1 DEF Told
  <2>3. QED
    BY <1>1, <2>2
<1>3. m \in Hits(t) <=> Hit(t, methods[m])
  BY <1>1 DEF Hits
<1>4. tasks[t].pc = "tcp" => methods[m] = "ping" /\ ~icmp
  BY DEF TaskInv
<1>5. QED
  BY <1>1, <1>2, <1>3, <1>4 DEF Hit, Replies

(* What a lost answer takes away: that method of that task, and no other.   *)
LEMMA LostHit ==
    ASSUME TypeOK, NEW t \in 1..Len(tasks), Steady(t), NEW m \in 1..Len(methods),
           lost' = lost \cup {<<t, methods[m], 0>>}
    PROVE  /\ Hits(t)' = Hits(t) \ {m} /\ Keys(t)' = Keys(t)
           /\ \A d : <<t, "snmp", d>> \in lost' <=> <<t, "snmp", d>> \in lost
           /\ \A k \in 1..Len(methods) : <<t, methods[k], 0>> \in lost'
                 <=> k = m \/ <<t, methods[k], 0>> \in lost
<1>1. UNCHANGED <<network, icmp, methods>> /\ tasks'[t].address = tasks[t].address
  BY DEF Steady
<1>2. Answers(t)' = Answers(t)
  BY <1>1 DEF Answers
<1>3. methods[m] # "snmp"
  BY MethodFacts
<1>4. \A d : <<t, "snmp", d>> \in lost' <=> <<t, "snmp", d>> \in lost
  BY <1>3
<1>5. \A k \in 1..Len(methods) : methods[k] = methods[m] => k = m
  BY MethodFacts
<1>6. \A k \in 1..Len(methods) : <<t, methods[k], 0>> \in lost'
         <=> k = m \/ <<t, methods[k], 0>> \in lost
  BY <1>5
<1>7. \A k \in 1..Len(methods) : Hit(t, methods[k])' <=> Hit(t, methods[k]) /\ k # m
  <2>1. \A p : Hit(t, p)' <=> /\ <<t, p, 0>> \notin lost'
                             /\ CASE p = "ping" -> IF icmp THEN "icmp" \in Answers(t).probes
                                                   ELSE "tcp" \in Answers(t).probes
                                  [] OTHER -> p \in Answers(t).probes
    BY <1>1, <1>2 DEF Hit
  <2>2. \A p : Hit(t, p) <=> /\ <<t, p, 0>> \notin lost
                            /\ CASE p = "ping" -> IF icmp THEN "icmp" \in Answers(t).probes
                                                  ELSE "tcp" \in Answers(t).probes
                                 [] OTHER -> p \in Answers(t).probes
    BY DEF Hit
  <2>3. QED
    BY <1>1, <1>6, <2>1, <2>2
<1>8. Hits(t)' = Hits(t) \ {m}
  BY <1>1, <1>7 DEF Hits
<1>9. Keys(t)' = Keys(t)
  BY <1>2, <1>4 DEF Keys
<1>10. QED
  BY <1>4, <1>6, <1>8, <1>9

\* A probe tells its task what its host answers to, unless it is lost.
LEMMA ProbeTells ==
    ASSUME TypeOK, NEW t \in 1..Len(tasks), TaskInv(t), Probe(t)
    PROVE  TaskInv(t)'
<1> DEFINE task == tasks[t]
           m == task.method
<1>1. Steady(t) /\ task.pc \in {"probe", "tcp"}
  BY ProbeFacts
<1>2. task \in TaskType /\ m \in 1..Len(methods)
  <2>1. task \in TaskType
    BY DEF TypeOK
  <2>2. QED
    BY <2>1, TaskFields
<1>3. ASSUME lost' = lost
      PROVE  Apart(t) /\ Hits(t)' = Hits(t) /\ Keys(t)' = Keys(t)
  <2>1. Apart(t)
    BY <1>1, <1>3 DEF Apart, Steady
  <2>2. QED
    BY <2>1, SameHits
<1>4. CASE Replies(t) /\ tasks'[t] = Onward(merge(tasks[t])) /\ lost' = lost
  <2>1. m \in Hits(t)
    <3>1. task.pc = "tcp" \/ icmp \/ methods[m] # "ping"
      BY <1>1, <1>4 DEF Replies
    <3>2. QED
      BY <1>1, <1>4, <3>1, RepliesHits
  <2> DEFINE x == merge(tasks[t])
  <2>2. /\ x \in TaskType /\ x.method = m /\ x.credential = task.credential
        /\ x.snmp = task.snmp
    BY <1>2, MergeFacts
  <2> HIDE DEF x
  <2>3. x = merge(tasks[t]) /\ tasks'[t] = Onward(x)
    BY <1>4 DEF x
  <2>4. QED
    BY <1>1, <1>3, <1>4, <2>1, <2>2, <2>3, ToldOnward
<1>5. CASE ~Replies(t) /\ tasks'[t] = Silent(t) /\ lost' = lost
  <2>1. CASE task.pc = "probe" /\ methods[m] = "ping" /\ ~icmp
    <3>1. task.left = Timeout
      BY <1>1 DEF TaskInv
    <3>2. tasks'[t] = [task EXCEPT !.method = m, !.pc = "tcp", !.left = task.left]
      BY <1>5, <2>1, <3>1, SilentFacts
    <3>3. /\ tasks'[t].pc = "tcp" /\ tasks'[t].method = m /\ tasks'[t].left = Timeout
          /\ tasks'[t].credential = task.credential /\ tasks'[t].snmp = task.snmp
          /\ tasks'[t].found_by = task.found_by /\ tasks'[t].mac = task.mac
          /\ tasks'[t].name = task.name
      BY <1>2, <3>1, <3>2 DEF TaskType
    <3>4. PICK n \in Nat : n = m
      BY <1>2, MethodFacts
    <3>5. Told(t, n, 1) /\ task.credential = 1 /\ task.snmp = 0
      BY <1>1, <3>4 DEF TaskInv
    <3>6. Told(t, n, 1)'
      BY <1>3, <1>5, <3>3, <3>5, SameTold
    <3>7. Told(t, tasks[t].method, 1)'
      BY <3>3, <3>4, <3>6 DEF Told
    <3>8. methods' = methods /\ icmp' = icmp
      BY <1>1 DEF Steady
    <3> HIDE DEF m, task
    <3>9. QED
      BY <2>1, <3>3, <3>5, <3>7, <3>8 DEF TaskInv, m
  <2>2. CASE ~(task.pc = "probe" /\ methods[m] = "ping" /\ ~icmp)
    <3>1. tasks'[t] = Onward(task)
      BY <1>5, <2>2, SilentFacts
    <3>2. m \notin Hits(t)
      BY <1>1, <1>5, <2>2, RepliesHits
    <3>3. QED
      BY <1>1, <1>2, <1>3, <1>5, <3>1, <3>2, ToldOnward
  <2>3. QED
    BY <2>1, <2>2
<1>6. CASE /\ Replies(t) /\ tasks'[t] = Silent(t)
           /\ lost' = lost \cup {<<t, methods[m], 0>>}
  <2>1. ~(task.pc = "probe" /\ methods[m] = "ping" /\ ~icmp)
    BY <1>6 DEF Replies
  <2>2. tasks'[t] = Onward(task)
    BY <1>6, <2>1, SilentFacts
  <2>3. /\ Hits(t)' = Hits(t) \ {m} /\ Keys(t)' = Keys(t)
        /\ \A d : <<t, "snmp", d>> \in lost' <=> <<t, "snmp", d>> \in lost
        /\ \A k \in 1..Len(methods) : <<t, methods[k], 0>> \in lost'
              <=> k = m \/ <<t, methods[k], 0>> \in lost
    BY <1>1, <1>2, <1>6, LostHit
  <2>4. \A k \in 1..(m - 1) : k # m
    BY <1>2, MethodFacts
  <2>5. m \notin Hits(t)' /\ \A k \in 1..(m - 1) : k \in Hits(t)' <=> k \in Hits(t)
    BY <2>3, <2>4
  <2>6. QED
    BY <1>1, <1>2, <2>2, <2>3, <2>5, ToldOnward
<1>7. QED
  BY <1>4, <1>5, <1>6, ProbeFacts
-----------------------------------------------------------------------------
(* What is found when the credentials are done, one of them or none having  *)
(* been answered to.                                                        *)
LEMMA FoundAll ==
    ASSUME TypeOK, NEW t \in 1..Len(tasks), NEW c, Told(t, Len(methods) + 1, c),
           NEW x \in TaskType, x.address = tasks[t].address, x.found_by = tasks[t].found_by,
           x.mac = tasks[t].mac, x.name = tasks[t].name,
           x.snmp = IF Keys(t) = {} THEN 0 ELSE Least(Keys(t)),
           Keys(t) # {} => x.snmp # 0
    PROVE  from_parts(x) = Found(t)
<1>1. Len(methods) \in Nat /\ (Len(methods) + 1) - 1 = Len(methods)
  BY MethodFacts
<1>2. \A k \in Hits(t) : k < Len(methods) + 1
  BY <1>1 DEF Hits
<1>3. /\ x.found_by = Heard(Hits(t), methods)[Len(methods)]
      /\ x.mac = IF Hears(t, "arp") THEN "mac" ELSE ""
      /\ x.name = IF Hears(t, "netbios") THEN "netbios" ELSE ""
  BY <1>1, <1>2 DEF Told, Hears
<1>4. x.snmp = 0 <=> Keys(t) = {}
  OBVIOUS
<1> DEFINE snmp == IF Keys(t) # {} THEN <<"snmp">> ELSE <<>>
<1>5. x.found_by \o (IF x.snmp # 0 THEN <<"snmp">> ELSE <<>>)
          = Heard(Hits(t), methods)[Len(methods)] \o snmp
  BY <1>3, <1>4, Zenon
<1>6. (IF x.name = "" /\ x.snmp # 0 THEN "sysName" ELSE x.name)
          = IF Hears(t, "netbios") THEN "netbios" ELSE IF Keys(t) # {} THEN "sysName" ELSE ""
  BY <1>3, <1>4
<1> HIDE DEF snmp
<1>7. from_parts(x) = [address |-> tasks[t].address,
                       found_by |-> Heard(Hits(t), methods)[Len(methods)] \o snmp,
                       mac |-> IF Hears(t, "arp") THEN "mac" ELSE "",
                       name |-> IF Hears(t, "netbios") THEN "netbios"
                                ELSE IF Keys(t) # {} THEN "sysName" ELSE "",
                       snmp |-> IF Keys(t) = {} THEN 0 ELSE Least(Keys(t))]
  BY <1>3, <1>5, <1>6 DEF from_parts
<1>8. QED
  BY <1>7 DEF Found, snmp

\* So does an attempt with a credential.
LEMMA SnmpTells ==
    ASSUME TypeOK, NEW t \in 1..Len(tasks), TaskInv(t), discover_snmp_target(t)
    PROVE  TaskInv(t)'
<1> DEFINE task == tasks[t]
           hit == task.credential \in Answers(t).snmp \ Malformed
           At(p, d, n) == [task EXCEPT !.pc = p, !.credential = d, !.snmp = n]
<1>1. PICK c : c = task.credential
  OBVIOUS
<1>2. PICK n : n = Len(methods) + 1
  OBVIOUS
<1>3. /\ Steady(t) /\ task.pc = "snmp"
      /\ \/ /\ c \notin Credential /\ lost' = lost
            /\ tasks'[t] = At("finished", c, task.snmp)
         \/ c \in Credential /\ hit /\ lost' = lost /\ tasks'[t] = At("finished", c, c)
         \/ /\ c \in Credential /\ ~hit /\ lost' = lost
            /\ tasks'[t] = At("snmp", c + 1, task.snmp)
         \/ /\ c \in Credential /\ hit /\ lost' = lost \cup {<<t, "snmp", c>>}
            /\ tasks'[t] = At("snmp", c + 1, task.snmp)
  BY <1>1, SnmpFacts
<1>4. task \in TaskType /\ c \in Nat \ {0}
  <2>1. task \in TaskType
    BY DEF TypeOK
  <2>2. QED
    BY <1>1, <2>1, TaskFields
<1>5. Told(t, n, c) /\ task.snmp = 0
  BY <1>1, <1>2, <1>3 DEF TaskInv
<1>6. /\ Keys(t) \subseteq Credential /\ Credential \subseteq Nat \ {0}
      /\ \A d \in Keys(t) : ~(d < c)
      /\ hit => c \in Credential
  <2>1. Keys(t) \subseteq Credential /\ Credential \subseteq Nat \ {0}
        /\ Answers(t).snmp \subseteq Credential
    BY HostFacts
  <2>2. QED
    BY <1>1, <1>5, <2>1 DEF Told
<1>7. <<t, "snmp", c>> \notin lost
  <2>1. CASE c \in Credential
    <3>1. <<t, "snmp", c>> \in lost => c < c
      BY <1>5, <2>1 DEF Told
    <3>2. QED
      BY <1>4, <3>1
  <2>2. CASE c \notin Credential
    <3>1. c \notin 0..NumCredentials
      BY <1>4, <2>2 DEF Credential
    <3>2. QED
      BY <3>1 DEF TypeOK
  <2>3. QED
    BY <2>1, <2>2
<1>8. hit <=> c \in Keys(t)
  BY <1>1, <1>7 DEF Keys
<1>9. UNCHANGED <<network, icmp, methods>> /\ tasks'[t].address = task.address
  BY <1>3 DEF Steady
<1>10. ASSUME NEW k \in 0..NumCredentials, lost' = lost, tasks'[t] = At("finished", c, k),
              k = IF Keys(t) = {} THEN 0 ELSE Least(Keys(t)), Keys(t) # {} => k # 0
       PROVE  TaskInv(t)'
  <2>1. PICK x : x = At("finished", c, k)
    OBVIOUS
  <2>2. /\ x \in TaskType /\ x.address = task.address /\ x.found_by = task.found_by
        /\ x.mac = task.mac /\ x.name = task.name /\ x.snmp = k /\ x.pc = "finished"
    BY <1>4, <2>1 DEF TaskType
  <2>3. from_parts(x) = Found(t)
    BY <1>2, <1>5, <1>10, <2>2, FoundAll
  <2>4. Apart(t)
    BY <1>9, <1>10 DEF Apart
  <2>5. Found(t)' = Found(t)
    BY <2>4, SameFound
  <2>6. tasks'[t] = x
    BY <1>10, <2>1
  <2>7. from_parts(tasks[t])' = from_parts(x)
    BY <2>6 DEF from_parts
  <2>8. QED
    BY <2>2, <2>3, <2>5, <2>6, <2>7 DEF TaskInv
<1>11. ASSUME tasks'[t] = At("snmp", c + 1, task.snmp), Apart(t) \/ Hits(t)' = Hits(t),
              \A k \in 1..Len(methods) : <<t, methods[k], 0>> \in lost'
                  => <<t, methods[k], 0>> \in lost,
              \A d : <<t, "snmp", d>> \in lost' => d = c \/ <<t, "snmp", d>> \in lost,
              Keys(t)' = Keys(t) \ {c}
       PROVE  TaskInv(t)'
  <2>1. Hits(t)' = Hits(t) /\ methods' = methods
    BY <1>9, <1>11, SameHits
  <2>2. PICK d : d = c + 1
    OBVIOUS
  <2>3. /\ tasks'[t].pc = "snmp" /\ tasks'[t].credential = d /\ tasks'[t].snmp = 0
        /\ tasks'[t].found_by = task.found_by /\ tasks'[t].mac = task.mac
        /\ tasks'[t].name = task.name
    BY <1>4, <1>5, <1>11, <2>2 DEF TaskType
  <2>4. \A e \in Credential : e < c \/ e = c => e < d
    BY <1>4, <1>6, <2>2
  <2>5. \A e \in Keys(t)' : ~(e < d)
    <3>1. \A e \in Keys(t) \ {c} : e \in Nat /\ ~(e < c) /\ e # c
      BY <1>6
    <3>2. QED
      BY <1>4, <1>11, <2>2, <3>1
  <2>6. (Heard(Hits(t), methods)[n - 1])' = Heard(Hits(t), methods)[n - 1]
    BY <2>1
  <2>7. Told(t, n, d)'
    BY <1>5, <1>11, <2>1, <2>3, <2>4, <2>5, <2>6 DEF Told
  <2>8. Told(t, Len(methods) + 1, tasks[t].credential)'
    BY <1>2, <2>1, <2>3, <2>7 DEF Told
  <2>9. QED
    BY <2>3, <2>8 DEF TaskInv
<1>12. CASE c \notin Credential /\ lost' = lost /\ tasks'[t] = At("finished", c, task.snmp)
  <2>1. \A d \in Credential : d < c
    BY <1>4, <1>12, DiscoveryAssumption, CredentialsAssumption DEF Credential
  <2>2. Keys(t) = {}
    BY <1>6, <2>1
  <2>3. 0 \in 0..NumCredentials
    BY DiscoveryAssumption, CredentialsAssumption
  <2>4. QED
    BY <1>5, <1>10, <1>12, <2>2, <2>3
<1>13. CASE c \in Credential /\ hit /\ lost' = lost /\ tasks'[t] = At("finished", c, c)
  <2>1. c \in Keys(t) /\ \A d \in Keys(t) : c <= d /\ d \in Nat /\ c \in Nat
    BY <1>4, <1>6, <1>8, <1>13
  <2>2. \A d \in Keys(t) : (\A e \in Keys(t) : d <= e) => d = c
    BY <2>1
  <2>3. c = Least(Keys(t))
    BY <2>1, <2>2 DEF Least
  <2>4. c \in 0..NumCredentials /\ c # 0
    BY <1>4, <1>13 DEF Credential
  <2>5. QED
    BY <1>10, <1>13, <2>1, <2>3, <2>4
<1>14. CASE /\ c \in Credential /\ ~hit /\ lost' = lost
            /\ tasks'[t] = At("snmp", c + 1, task.snmp)
  <2>1. Apart(t)
    BY <1>9, <1>14 DEF Apart
  <2>2. Keys(t)' = Keys(t) \ {c}
    BY <1>8, <1>14, <2>1, SameHits
  <2>3. QED
    BY <1>11, <1>14, <2>1, <2>2
<1>15. CASE /\ c \in Credential /\ hit /\ lost' = lost \cup {<<t, "snmp", c>>}
            /\ tasks'[t] = At("snmp", c + 1, task.snmp)
  <2>1. Answers(t)' = Answers(t)
    BY <1>9 DEF Answers
  <2>2. \A k \in 1..Len(methods) : methods[k] # "snmp"
    BY MethodFacts
  <2>3. \A k \in 1..Len(methods) :
        <<t, methods[k], 0>> \in lost' <=> <<t, methods[k], 0>> \in lost
    BY <1>15, <2>2
  <2>4. \A k \in 1..Len(methods) : Hit(t, methods[k])' <=> Hit(t, methods[k])
    BY <1>9, <2>1, <2>3 DEF Hit
  <2>5. Hits(t)' = Hits(t)
    BY <1>9, <2>4 DEF Hits
  <2>6. \A d : <<t, "snmp", d>> \in lost' <=> d = c \/ <<t, "snmp", d>> \in lost
    BY <1>15
  <2>7. Keys(t)' = Keys(t) \ {c}
    BY <2>1, <2>6 DEF Keys
  <2>8. QED
    BY <1>11, <1>15, <2>3, <2>5, <2>6, <2>7
<1>16. QED
  BY <1>3, <1>12, <1>13, <1>14, <1>15
-----------------------------------------------------------------------------
(* Told and done with: what the other steps of a task leave as it was.      *)
LEMMA MarkTells ==
    ASSUME TypeOK, NEW t \in 1..Len(tasks), TaskInv(t), Apart(t),
           \/ tasks[t].pc = "queued" /\ tasks'[t] = [tasks[t] EXCEPT !.pc = "probe"]
           \/ tasks[t].pc = "finished" /\ tasks'[t] = [tasks[t] EXCEPT !.pc = "joined"]
    PROVE  TaskInv(t)'
<1> DEFINE task == tasks[t]
<1>1. task \in TaskType
  BY DEF TypeOK
<1>2. methods' = methods /\ icmp' = icmp /\ Found(t)' = Found(t)
  BY SameFound DEF Apart
<1>3. CASE task.pc = "queued" /\ tasks'[t] = [task EXCEPT !.pc = "probe"]
  <2>1. PICK n : n = task.method
    OBVIOUS
  <2>2. /\ tasks'[t].pc = "probe" /\ tasks'[t].method = n
        /\ tasks'[t].left = task.left /\ tasks'[t].credential = task.credential
        /\ tasks'[t].snmp = task.snmp /\ tasks'[t].found_by = task.found_by
        /\ tasks'[t].mac = task.mac /\ tasks'[t].name = task.name
    BY <1>1, <1>3, <2>1 DEF TaskType
  <2>3. /\ Told(t, n, 1) /\ task.left = Timeout /\ task.credential = 1 /\ task.snmp = 0
    BY <1>3, <2>1 DEF TaskInv
  <2>4. Told(t, n, 1)'
    BY <2>2, <2>3, SameTold
  <2>5. Told(t, tasks[t].method, 1)'
    BY <2>2, <2>4 DEF Told
  <2> HIDE DEF task
  <2>6. QED
    BY <1>2, <2>2, <2>3, <2>5 DEF TaskInv
<1>4. CASE task.pc = "finished" /\ tasks'[t] = [task EXCEPT !.pc = "joined"]
  <2>1. /\ tasks'[t].pc = "joined" /\ tasks'[t].address = task.address
        /\ tasks'[t].found_by = task.found_by /\ tasks'[t].mac = task.mac
        /\ tasks'[t].name = task.name /\ tasks'[t].snmp = task.snmp
    BY <1>1, <1>4 DEF TaskType
  <2>2. from_parts(tasks[t])' = from_parts(task)
    BY <2>1 DEF from_parts
  <2>3. from_parts(task) = Found(t)
    BY <1>4 DEF TaskInv
  <2>4. QED
    BY <1>2, <2>1, <2>2, <2>3 DEF TaskInv
<1>5. QED
  BY <1>3, <1>4

(* A task that has just been spawned has been told nothing.                 *)
LEMMA NewTask ==
    ASSUME TypeOK, RangeInv, Spawn, NEW t, t = Len(tasks) + 1
    PROVE  TaskInv(t)' /\ t \notin panicked'
<1> DEFINE N == Len(tasks)
<1>1. t = N + 1
  OBVIOUS
<1>2. N \in Nat /\ t \notin 1..N /\ tasks'[t] = Task(next) /\ UNCHANGED <<methods, lost>>
  <2>1. tasks \in Seq(TaskType)
    BY DEF TypeOK
  <2>2. tasks' = Append(tasks, Task(next)) /\ UNCHANGED <<methods, lost>>
    BY SpawnStep
  <2>3. QED
    BY <1>1, <2>1, <2>2
<1>3. \A m, c : <<t, m, c>> \notin lost'
  BY <1>2 DEF TypeOK
<1>4. /\ tasks'[t].pc = "queued" /\ tasks'[t].method = 1 /\ tasks'[t].credential = 1
      /\ tasks'[t].left = Timeout /\ tasks'[t].found_by = <<>> /\ tasks'[t].mac = ""
      /\ tasks'[t].name = "" /\ tasks'[t].snmp = 0
  <2>1. PICK x : x = Task(next)
    OBVIOUS
  <2>2. /\ x.pc = "queued" /\ x.method = 1 /\ x.credential = 1 /\ x.left = Timeout
        /\ x.found_by = <<>> /\ x.mac = "" /\ x.name = "" /\ x.snmp = 0
    BY <2>1 DEF Task
  <2>3. QED
    BY <1>2, <2>1, <2>2
<1>5. Heard(Hits(t)', methods')[0] = <<>>
  <2>1. Len(methods') \in Nat
    BY <1>2, MethodFacts
  <2>2. QED
    BY <2>1, HeardNext
<1>6. \A k \in Hits(t)' : ~(k < 1)
  <2>1. \A k \in 1..Len(methods') : ~(k < 1)
    BY <1>2, MethodFacts
  <2>2. QED
    BY <2>1 DEF Hits
<1>7. \A d \in Keys(t)' : ~(d < 1)
  <2>1. \A d \in Keys(t)' : d \in Answers(t)'.snmp
    BY DEF Keys
  <2>2. TypeOK'
    BY StepType DEF Next
  <2>3. Answers(t)'.snmp \subseteq Credential
    BY <2>2, DiscoveryAssumption DEF TypeOK, Answers
  <2>4. \A d \in Credential : ~(d < 1)
    BY DiscoveryAssumption DEF Credential
  <2>5. QED
    BY <2>1, <2>3, <2>4
<1>8. PICK n : n = 1 /\ n - 1 = 0
  OBVIOUS
<1>9. Told(t, n, 1)'
  BY <1>3, <1>4, <1>5, <1>6, <1>7, <1>8 DEF Told
<1>10. Told(t, tasks[t].method, 1)'
  BY <1>4, <1>8, <1>9 DEF Told
<1>11. TaskInv(t)'
  BY <1>4, <1>10 DEF TaskInv
<1>12. t \notin panicked'
  BY <1>2, SpawnStep DEF TypeOK
<1>13. QED
  BY <1>11, <1>12

(* A step of one task, or of none, leaves the others apart.                 *)
LEMMA Elsewhere ==
    ASSUME TypeOK, NEW t \in 1..Len(tasks), Work(t) \/ Panic(t) \/ Join(t),
           NEW u \in 1..Len(tasks), u # t
    PROVE  Apart(u) /\ tasks'[u] = tasks[u] /\ (u \in panicked' <=> u \in panicked)
<1>1. Steady(t)
  BY Steadily
<1>2. tasks'[u] = tasks[u] /\ UNCHANGED <<network, icmp, methods>>
  BY <1>1 DEF Steady
<1>3. \A m, c : <<u, m, c>> \in lost' <=> <<u, m, c>> \in lost
  BY DEF Work, Acquire, Probe, discover_snmp_target, Panic, Join
<1>4. u \in panicked' <=> u \in panicked
  BY DEF Work, Acquire, Probe, discover_snmp_target, Panic, Join
<1>5. QED
  BY <1>2, <1>3, <1>4 DEF Apart

(* What a task has told stays true of it, whoever takes the step.           *)
LEMMA StepTask ==
    ASSUME IInv, [Next]_vars, NEW t \in 1..Len(tasks'), t \notin panicked'
    PROVE  TaskInv(t)'
<1>1. TypeOK /\ RangeInv /\ \A u \in 1..Len(tasks) : u \in panicked \/ TaskInv(u)
  BY DEF IInv
<1>2. ASSUME t \in 1..Len(tasks), tasks'[t] = tasks[t], panicked' = panicked,
             UNCHANGED <<network, icmp, methods, lost>>
      PROVE  TaskInv(t)'
  <2>1. Apart(t)
    BY <1>2 DEF Apart
  <2>2. QED
    BY <1>1, <1>2, <2>1, SameTask
<1>3. CASE ParseRanges
  <2>1. tasks' = <<>>
    BY <1>1, <1>3 DEF ParseRanges, RangeInv
  <2>2. QED
    BY <2>1
<1>4. CASE UNCHANGED vars \/ Spawned \/ Report
  BY <1>2, <1>4 DEF vars, Spawned, Report
<1>5. CASE Spawn
  <2>1. tasks \in Seq(TaskType) /\ tasks' = Append(tasks, Task(next))
    BY <1>1, <1>5, SpawnStep DEF TypeOK
  <2>2. t = Len(tasks) + 1 \/ (t \in 1..Len(tasks) /\ tasks'[t] = tasks[t])
    BY <2>1
  <2>3. UNCHANGED <<network, icmp, methods, lost, panicked>>
    BY <1>1, <1>5, SpawnStep
  <2>4. QED
    BY <1>1, <1>2, <1>5, <2>2, <2>3, NewTask
<1>6. ASSUME NEW u \in 1..Len(tasks), Work(u) \/ Panic(u) \/ Join(u)
      PROVE  TaskInv(t)'
  <2>1. Steady(u)
    BY <1>1, <1>6, Steadily
  <2>2. t \in 1..Len(tasks)
    BY <2>1 DEF Steady
  <2>3. CASE t # u
    BY <1>1, <1>6, <2>2, <2>3, Elsewhere, SameTask
  <2>4. CASE t = u
    <3>1. TaskInv(t)
      <4>1. t \notin panicked
        BY <1>6 DEF Work, Acquire, Probe, discover_snmp_target, Panic, Join, TaskUnchanged
      <4>2. QED
        BY <1>1, <2>2, <4>1
    <3>2. ~Panic(t)
      BY DEF Panic
    <3>3. CASE Probe(t)
      BY <1>1, <2>2, <3>1, <3>3, ProbeTells
    <3>4. CASE discover_snmp_target(t)
      BY <1>1, <2>2, <3>1, <3>4, SnmpTells
    <3>5. CASE Acquire(t) \/ Join(t)
      <4>1. lost' = lost
        BY <3>5 DEF Acquire, Join
      <4>2. Apart(t)
        BY <2>1, <2>4, <4>1 DEF Apart, Steady
      <4>3. \/ tasks[t].pc = "queued" /\ tasks'[t] = [tasks[t] EXCEPT !.pc = "probe"]
            \/ tasks[t].pc = "finished" /\ tasks'[t] = [tasks[t] EXCEPT !.pc = "joined"]
        <5>1. CASE Acquire(t)
          BY <1>1, <2>2, <5>1, Marked DEF Acquire, TaskUnchanged
        <5>2. CASE Join(t)
          BY <1>1, <2>2, <5>2, Marked DEF Join
        <5>3. QED
          BY <3>5, <5>1, <5>2
      <4>4. QED
        BY <1>1, <2>2, <3>1, <4>2, <4>3, MarkTells
    <3>6. QED
      BY <1>6, <2>4, <3>2, <3>3, <3>4, <3>5 DEF Work
  <2>5. QED
    BY <2>3, <2>4
<1>7. QED
  BY <1>3, <1>4, <1>5, <1>6 DEF Next, Terminated

(* A device is reported when its task is joined, and only then.             *)
LEMMA StepJoin ==
    ASSUME IInv, [Next]_vars, NEW t \in 1..Len(tasks')
    PROVE  JoinInv(t)'
<1>1. /\ TypeOK /\ RangeInv
      /\ \A u \in 1..Len(tasks) : JoinInv(u) /\ (u \in panicked \/ TaskInv(u))
  BY DEF IInv
<1>2. ASSUME t \in 1..Len(tasks), Apart(t), tasks'[t] = tasks[t],
             t \in panicked' <=> t \in panicked,
             Reported(t)' = Reported(t),
             phase' = "done" => phase = "done" \/ tasks[t].pc = "joined"
      PROVE  JoinInv(t)'
  <2>1. JoinInv(t) /\ Found(t)' = Found(t)
    BY <1>1, <1>2, SameFound
  <2>2. QED
    BY <1>2, <2>1 DEF JoinInv
<1>3. CASE ParseRanges
  <2>1. tasks' = <<>>
    BY <1>1, <1>3 DEF ParseRanges, RangeInv
  <2>2. QED
    BY <2>1
<1>4. CASE UNCHANGED vars \/ Spawned \/ Report
  <2>1. /\ UNCHANGED <<network, icmp, methods, lost, tasks, devices, panicked>>
        /\ phase' = "done" => phase = "done" \/ tasks[t].pc = "joined"
    BY <1>4 DEF vars, main, Spawned, Report
  <2>2. Apart(t) /\ Reported(t)' = Reported(t)
    BY <2>1 DEF Apart, Reported
  <2>3. QED
    BY <1>2, <2>1, <2>2
<1>5. CASE Spawn
  <2>1. tasks \in Seq(TaskType) /\ tasks' = Append(tasks, Task(next))
    BY <1>1, <1>5, SpawnStep DEF TypeOK
  <2>2. /\ UNCHANGED <<network, icmp, methods, lost, panicked, devices>>
        /\ phase' = "spawn" /\ devices = {}
    BY <1>1, <1>5, SpawnStep DEF RangeInv
  <2>3. CASE t = Len(tasks) + 1
    <3>1. tasks'[t] = Task(next)
      BY <2>1, <2>3
    <3>2. PICK x : x = Task(next)
      OBVIOUS
    <3>3. x.pc = "queued"
      BY <3>2 DEF Task
    <3>4. Reported(t)' = {}
      BY <2>2 DEF Reported
    <3>5. t \notin panicked'
      BY <1>1, <1>5, <2>3, NewTask
    <3>6. QED
      BY <2>2, <3>1, <3>2, <3>3, <3>4, <3>5 DEF JoinInv
  <2>4. CASE t \in 1..Len(tasks) /\ tasks'[t] = tasks[t]
    <3>1. Apart(t) /\ Reported(t)' = Reported(t)
      BY <2>2, <2>4 DEF Apart, Reported
    <3>2. QED
      BY <1>2, <2>2, <2>4, <3>1
  <2>5. QED
    BY <2>1, <2>3, <2>4
<1>6. ASSUME NEW u \in 1..Len(tasks), Work(u) \/ Panic(u) \/ Join(u)
      PROVE  JoinInv(t)'
  <2>1. Steady(u)
    BY <1>1, <1>6, Steadily
  <2>2. t \in 1..Len(tasks) /\ phase' = phase
    BY <2>1 DEF Steady, main
  <2>3. CASE t # u
    <3>1. Apart(t) /\ tasks'[t] = tasks[t] /\ (t \in panicked' <=> t \in panicked)
      BY <1>1, <1>6, <2>2, <2>3, Elsewhere
    <3>2. \A d : d.task = t => (d \in devices' <=> d \in devices)
      BY <1>6, <2>3 DEF Work, Acquire, Probe, discover_snmp_target, Panic, Join, TaskUnchanged
    <3>3. Reported(t)' = Reported(t)
      <4>1. Reported(t)' = {d \in devices' : d.task = t}
             /\ Reported(t) = {d \in devices : d.task = t}
        BY DEF Reported
      <4>2. QED
        BY <3>2, <4>1
    <3>4. QED
      BY <1>2, <2>2, <3>1, <3>3
  <2>4. CASE t = u
    <3>1. JoinInv(t) /\ tasks[t] \in TaskType
      <4>1. tasks[t] \in TaskType
        BY <1>1, <2>2 DEF TypeOK
      <4>2. QED
        BY <1>1, <2>2, <4>1
    <3>2. tasks[t].pc # "joined"
      BY <1>6, <2>4 DEF Work, Acquire, Probe, discover_snmp_target, Panic, AtWork, Join
    <3>3. Reported(t) = {} /\ phase # "done"
      BY <3>1, <3>2 DEF JoinInv
    <3>4. ASSUME devices' = devices, tasks'[t].pc # "joined",
                 t \in panicked' => tasks'[t].pc = "finished"
          PROVE  JoinInv(t)'
      <4>1. Reported(t)' = {}
        BY <3>3, <3>4 DEF Reported
      <4>2. QED
        BY <2>2, <3>3, <3>4, <4>1 DEF JoinInv
    <3>5. CASE Work(t)
      <4>1. devices' = devices /\ panicked' = panicked
        BY <3>5 DEF Work, Acquire, Probe, discover_snmp_target, TaskUnchanged
      <4>2. t \notin panicked
        BY <3>1, <3>5 DEF Work, Acquire, Probe, discover_snmp_target, JoinInv
      <4>3. tasks'[t].pc # "joined"
        <5>1. CASE Acquire(t)
          <6>1. tasks'[t] = [tasks[t] EXCEPT !.pc = "probe"]
            BY <1>1, <2>2, <5>1, Marked DEF Acquire, TaskUnchanged
          <6>2. QED
            BY <3>1, <6>1 DEF TaskType
        <5>2. CASE Probe(t)
          BY <1>1, <2>2, <5>2, ProbePc
        <5>3. CASE discover_snmp_target(t)
          BY <1>1, <2>2, <5>3, SnmpPc
        <5>4. QED
          BY <3>5, <5>1, <5>2, <5>3 DEF Work
      <4>4. QED
        BY <3>4, <4>1, <4>2, <4>3
    <3>6. CASE Panic(t)
      <4>1. tasks'[t] = [tasks[t] EXCEPT !.pc = "finished"]
        BY <1>1, <2>2, <3>6, Marked DEF Panic, TaskUnchanged
      <4>2. tasks'[t].pc = "finished"
        BY <3>1, <4>1 DEF TaskType
      <4>3. QED
        BY <3>4, <3>6, <4>2 DEF Panic, TaskUnchanged
    <3>7. CASE Join(t)
      <4>1. tasks'[t] = [tasks[t] EXCEPT !.pc = "joined"]
        BY <1>1, <2>2, <3>7, Marked DEF Join
      <4>2. tasks'[t].pc = "joined"
        BY <3>1, <4>1 DEF TaskType
      <4>3. /\ panicked' = panicked /\ lost' = lost /\ tasks[t].pc = "finished"
            /\ devices' = IF t \in panicked \/ from_parts(tasks[t]).found_by = <<>>
                            THEN devices
                          ELSE devices \cup {[task |-> t, device |-> from_parts(tasks[t])]}
        BY <3>7 DEF Join
      <4>4. Found(t)' = Found(t)
        <5>1. Apart(t)
          BY <2>1, <2>2, <4>3 DEF Apart, Steady
        <5>2. QED
          BY <5>1, SameFound
      <4>5. t \notin panicked => from_parts(tasks[t]) = Found(t)
        BY <1>1, <2>2, <4>3 DEF TaskInv
      <4>6. CASE t \in panicked \/ Found(t).found_by = <<>>
        <5>1. Reported(t)' = {}
          BY <3>3, <4>3, <4>5, <4>6 DEF Reported
        <5>2. QED
          BY <2>2, <3>3, <4>2, <4>3, <4>4, <4>6, <5>1 DEF JoinInv
      <4>7. CASE ~(t \in panicked \/ Found(t).found_by = <<>>)
        <5> DEFINE one == [task |-> t, device |-> Found(t)]
        <5>1. one.task = t
          OBVIOUS
        <5> HIDE DEF one
        <5>2. devices' = devices \cup {one}
          BY <4>3, <4>5, <4>7 DEF one
        <5>3. Reported(t)' = {one}
          BY <3>3, <5>1, <5>2 DEF Reported
        <5>4. QED
          BY <2>2, <3>3, <4>2, <4>3, <4>4, <4>7, <5>3 DEF JoinInv, one
      <4>8. QED
        BY <4>6, <4>7
    <3>8. QED
      BY <1>6, <2>4, <3>5, <3>6, <3>7
  <2>5. QED
    BY <2>3, <2>4
<1>7. QED
  BY <1>3, <1>4, <1>5, <1>6 DEF Next, Terminated
-----------------------------------------------------------------------------
\* Every step preserves the invariant.
LEMMA StepInv == IInv /\ [Next]_vars => IInv'
<1> SUFFICES ASSUME IInv, [Next]_vars PROVE IInv'
  OBVIOUS
<1>1. TypeOK' /\ RangeInv' /\ SpawnInv'
  BY StepType, StepRange, StepSpawn DEF IInv
<1>2. \A t \in 1..Len(tasks') : JoinInv(t)' /\ (t \in panicked' \/ TaskInv(t)')
  BY StepTask, StepJoin
<1>3. QED
  BY <1>1, <1>2 DEF IInv

(* The invariant that carries the proof: what each task has been told, and  *)
(* where in the ranges each task comes from.                                *)
THEOREM Invariance == Spec => []IInv
<1>1. Init => IInv
  BY InitInv
<1>2. IInv /\ [Next]_vars => IInv'
  BY StepInv
<1>3. QED
  BY <1>1, <1>2, PTL DEF Spec

(* A scan that ends has looked at each address once for each specification  *)
(* that covers it, and reports of each what its host answered to.           *)
THEOREM ScanFaithfulHolds == Spec => []ScanFaithful
<1>1. IInv => ScanFaithful
  <2>1. SUFFICES ASSUME IInv, phase = "done" PROVE ScanFaithful
    BY DEF ScanFaithful
  <2>2. \A a \in Address :
           Cardinality({t \in 1..Len(tasks) : tasks[t].address = a})
               = Cardinality({k \in 1..Len(args) : Covers(args[k], a)})
    BY <2>1, Counted DEF IInv
  <2>3. ASSUME NEW t \in 1..Len(tasks)
        PROVE  IF t \in panicked \/ Found(t).found_by = <<>> THEN Reported(t) = {}
               ELSE Reported(t) = {[task |-> t, device |-> Found(t)]}
    BY <2>1 DEF IInv, JoinInv
  <2>4. QED
    BY <2>2, <2>3 DEF ScanFaithful
<1>2. QED
  BY <1>1, Invariance, PTL
=============================================================================

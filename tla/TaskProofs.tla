----------------------------- MODULE TaskProofs -----------------------------
(***************************************************************************)
(* Theorems about the tasks that keep what they do on the disk: deployment  *)
(* and the inventory that is sent as what has changed.                      *)
(***************************************************************************)
EXTENDS Deploy, DeltaInventory, SequenceTheorems, TLAPS

(***************************************************************************)
(* Deployment, for any orders, any disks, any answers of the mirrors and    *)
(* any changes by other programs: the actions begin on files that were      *)
(* verified, and the report is true of what was done.                       *)
(***************************************************************************)

Step == {"store", "action"} \X Nat

StepsStored == Steps(Len(order.files), "store")

\* The first n files are as verified, or were replaced since.
Replaced(k, n) ==
    \/ order.files[k].path \in touched
    \/ \E l \in (k + 1)..n : order.files[l].path = order.files[k].path
AsVerified(k) ==
    LET path == order.files[k].path
    IN IsFile(path) /\ disk[path] = order.files[k].sha512
Stored(n) == \A k \in 1..n : Replaced(k, n) \/ AsVerified(k)

\* While it runs, the order is at the place its history says.
Checking ==
    /\ Len(passed) = at - 1 /\ at <= Len(order.checks) + 1
    /\ done = <<>> /\ results = <<>>
Downloading ==
    /\ proceed /\ at <= Len(order.files) + 1
    /\ done = Steps(at - 1, "store") /\ results = <<>>
    /\ Stored(at - 1)
Running ==
    /\ proceed /\ at <= Len(order.actions) + 1
    /\ Len(results) = at - 1 /\ \A k \in 1..Len(results) : results[k]
    /\ done = StepsStored \o Steps(at - 1, "action")
    /\ results = <<>> => Stored(Len(order.files))

DeployInv ==
    /\ DeployTypeOK
    /\ phase # "done" => report = "" /\ ~followed
    /\ phase = "check" => Checking
    /\ phase = "fetch" => Downloading
    /\ phase = "act" => Running
    /\ ReportAccounts
-----------------------------------------------------------------------------
(* The steps of a kind up to a number are a sequence of that length.        *)
LEMMA StepsType ==
    ASSUME NEW n \in Nat, NEW kind \in {"store", "action"}
    PROVE  /\ Steps(n, kind) \in Seq(Step) /\ Len(Steps(n, kind)) = n
           /\ \A k \in 1..n : Steps(n, kind)[k] = <<kind, k>>
<1>1. \A k \in 1..n : <<kind, k>> \in Step
  BY DEF Step
<1>2. [k \in 1..n |-> <<kind, k>>] \in Seq(Step)
  BY <1>1
<1>3. QED
  BY <1>2 DEF Steps

(* No step.                                                                *)
LEMMA StepsNone ==
    ASSUME NEW kind \in {"store", "action"}
    PROVE  Steps(0, kind) = <<>>
<1>1. Steps(0, kind) \in Seq(Step) /\ Len(Steps(0, kind)) = 0
  BY StepsType
<1>2. QED
  BY <1>1, EmptySeq

(* The next step of a kind is appended to those before it.                  *)
LEMMA StepsAppend ==
    ASSUME NEW n \in Nat, NEW kind \in {"store", "action"}
    PROVE  Append(Steps(n, kind), <<kind, n + 1>>) = Steps(n + 1, kind)
<1> DEFINE s == Append(Steps(n, kind), <<kind, n + 1>>)
           t == Steps(n + 1, kind)
<1>1. /\ Steps(n, kind) \in Seq(Step) /\ Len(Steps(n, kind)) = n
      /\ \A k \in 1..n : Steps(n, kind)[k] = <<kind, k>>
  BY StepsType
<1>2. <<kind, n + 1>> \in Step
  BY DEF Step
<1>3. /\ s \in Seq(Step) /\ Len(s) = n + 1 /\ s[n + 1] = <<kind, n + 1>>
      /\ \A k \in 1..n : s[k] = Steps(n, kind)[k]
  BY <1>1, <1>2, AppendProperties
<1>4. /\ t \in Seq(Step) /\ Len(t) = n + 1
      /\ \A k \in 1..(n + 1) : t[k] = <<kind, k>>
  <2>1. n + 1 \in Nat
    OBVIOUS
  <2>2. QED
    BY <2>1, StepsType
<1> HIDE DEF s, t
<1>5. ASSUME NEW k \in 1..Len(s) PROVE s[k] = t[k]
  <2>1. CASE k = n + 1
    BY <1>3, <1>4, <2>1
  <2>2. CASE k \in 1..n
    BY <1>1, <1>3, <1>4, <2>2
  <2>3. QED
    BY <1>3, <2>1, <2>2
<1>6. s = t
  BY <1>3, <1>4, <1>5, SeqEqual
<1>7. QED
  BY <1>6, Zenon DEF s, t

(* The next action is appended to what was done before it.                  *)
LEMMA ActionAppend ==
    ASSUME NEW f \in Nat, NEW n \in Nat
    PROVE  Append(Steps(f, "store") \o Steps(n, "action"), <<"action", n + 1>>)
             = Steps(f, "store") \o Steps(n + 1, "action")
<1> DEFINE s == Steps(f, "store")
           t == Steps(n, "action")
           e == <<"action", n + 1>>
<1>1. s \in Seq(Step) /\ t \in Seq(Step)
  BY StepsType
<1>2. e \in Step
  BY DEF Step
<1>3. Append(t, e) = Steps(n + 1, "action")
  BY StepsAppend
<1> HIDE DEF s, t, e
<1>4. <<e>> \in Seq(Step) /\ s \o t \in Seq(Step)
  BY <1>1, <1>2, ConcatProperties
<1>5. Append(s \o t, e) = (s \o t) \o <<e>>
  BY <1>2, <1>4, AppendIsConcat
<1>6. Append(t, e) = t \o <<e>>
  BY <1>1, <1>2, AppendIsConcat
<1>7. (s \o t) \o <<e>> = s \o (t \o <<e>>)
  BY <1>1, <1>4, ConcatAssociative
<1>8. Append(s \o t, e) = s \o Steps(n + 1, "action")
  BY <1>3, <1>5, <1>6, <1>7
<1>9. QED
  BY <1>8 DEF s, t, e

(* The order that is carried out is one the server may send.                *)
LEMMA OrderType ==
    ASSUME DeployTypeOK
    PROVE  /\ Len(order.checks) \in Nat /\ Len(order.files) \in Nat
           /\ Len(order.actions) \in Nat
           /\ \A k \in 1..Len(order.files) : order.files[k].sha512 # Dir
           /\ order.run_software_inventory \in BOOLEAN
BY DeployAssumption DEF DeployTypeOK, IsOrder

(* A check holds or fails.                                                 *)
LEMMA CheckType ==
    ASSUME NEW check
    PROVE  evaluate_one(check) \in BOOLEAN
BY DEF evaluate_one

(* Whether a command succeeded is known.                                   *)
LEMMA OutputType ==
    ASSUME NEW checks, NEW output
    PROVE  evaluate_checks(checks, output) \in BOOLEAN
BY DEF evaluate_checks

(* A file of another path is left alone by a write.                         *)
LEMMA WriteOther ==
    ASSUME NEW path, NEW what, disk' = With(path, what)
    PROVE  /\ path \in DOMAIN disk' /\ disk'[path] = what
           /\ \A p \in DOMAIN disk \ {path} : p \in DOMAIN disk' /\ disk'[p] = disk[p]
BY DEF With

(* A file of another path is left alone by a removal.                       *)
LEMMA RemoveOther ==
    ASSUME NEW path, disk' = Without({path})
    PROVE  \A p \in DOMAIN disk \ {path} : p \in DOMAIN disk' /\ disk'[p] = disk[p]
BY DEF Without

(* What others change is known to be touched: the rest stays as verified.    *)
LEMMA StoredStays ==
    ASSUME NEW n \in Nat, Stored(n), NEW path, order' = order,
           touched' = touched \cup {path},
           \A p \in DOMAIN disk \ {path} : p \in DOMAIN disk' /\ disk'[p] = disk[p]
    PROVE  Stored(n)'
<1> SUFFICES ASSUME NEW k \in 1..n
             PROVE  Replaced(k, n)' \/ AsVerified(k)'
  BY DEF Stored
<1>1. CASE Replaced(k, n)
  BY <1>1 DEF Replaced
<1>2. CASE AsVerified(k)
  BY <1>2 DEF AsVerified, IsFile, Exists, Replaced
<1>3. QED
  BY <1>1, <1>2 DEF Stored

(* A file that is verified and stored is one more.                          *)
LEMMA StoredNext ==
    ASSUME DeployTypeOK, Downloading, Store, NEW n, n = at
    PROVE  Stored(n)'
<1>1. /\ at \in 1..Len(order.files) /\ Len(order.files) \in Nat
      /\ order' = order /\ touched' = touched
      /\ disk' = With(File.path, parts) /\ parts = File.sha512 /\ Stored(n - 1)
  BY OrderType DEF DeployTypeOK, Store, Whole, Fetching, Verified, Downloading, outcome,
                   NextFile
<1>2. parts # Dir
  BY <1>1, OrderType DEF File
<1>3. /\ File.path \in DOMAIN disk' /\ disk'[File.path] = parts
      /\ \A p \in DOMAIN disk \ {File.path} : p \in DOMAIN disk' /\ disk'[p] = disk[p]
  BY <1>1, WriteOther
<1> SUFFICES ASSUME NEW k \in 1..n
             PROVE  Replaced(k, n)' \/ AsVerified(k)'
  BY DEF Stored
<1>4. CASE k = n
  BY <1>1, <1>2, <1>3, <1>4 DEF AsVerified, IsFile, Exists, File
<1>5. CASE k # n
  <2>1. k \in 1..(n - 1) /\ n \in (k + 1)..n /\ n \in Nat
    BY <1>1, <1>5
  <2>2. CASE order.files[k].path = File.path
    BY <1>1, <2>1, <2>2 DEF Replaced, File
  <2>3. CASE Replaced(k, n - 1)
    BY <1>1, <2>1, <2>3 DEF Replaced
  <2>4. CASE AsVerified(k) /\ order.files[k].path # File.path
    BY <1>1, <1>3, <2>4 DEF AsVerified, IsFile, Exists
  <2>5. QED
    BY <1>1, <2>1, <2>2, <2>3, <2>4 DEF Stored
<1>6. QED
  BY <1>4, <1>5
-----------------------------------------------------------------------------
(* An order is taken on in a state of the invariant.                        *)
THEOREM DeployInitInv == DeployInit => DeployInv
<1> SUFFICES ASSUME DeployInit PROVE DeployInv
  OBVIOUS
<1>1. DeployTypeOK
  <2>1. /\ <<>> \in Seq(Served) /\ <<>> \in Seq(BOOLEAN)
        /\ <<>> \in Seq({"store", "action"} \X Nat)
    BY EmptySeq
  <2>2. /\ order \in Orders /\ phase = "check" /\ parts = <<>> /\ passed = <<>>
        /\ results = <<>> /\ report = "" /\ followed = FALSE /\ done = <<>>
    BY DEF DeployInit
  <2>3. at = 1 /\ mirror = 1 /\ intruded = 0
    BY DEF DeployInit
  <2>4. at \in Nat /\ at >= 1 /\ mirror \in Nat /\ intruded \in 0..MaxIntrusions
    BY <2>3, DeployAssumption
  <2>5. QED
    BY <2>1, <2>2, <2>4 DEF DeployTypeOK, Reports
<1>2. Len(order.checks) \in Nat
  BY <1>1, OrderType
<1>3. Checking
  <2>1. passed = <<>> /\ Len(passed) = 0 /\ at = 1 /\ done = <<>> /\ results = <<>>
    BY <1>1, EmptySeq DEF DeployInit, DeployTypeOK
  <2>2. QED
    BY <1>2, <2>1 DEF Checking
<1>4. QED
  BY <1>1, <1>3 DEF DeployInit, DeployInv, ReportAccounts

(* The variables keep their types.                                         *)
LEMMA TypeStep ==
    ASSUME DeployTypeOK, [DeployNext]_deploy_vars
    PROVE  DeployTypeOK'
<1> USE DEF DeployTypeOK
<1>1. CASE EvaluateCheck
  <2>1. passed' \in Seq(BOOLEAN) /\ at' \in Nat /\ at' >= 1
    BY <1>1, CheckType, AppendProperties DEF EvaluateCheck
  <2>2. QED
    BY <1>1, <2>1 DEF EvaluateCheck
<1>2. CASE Checked
  <2>1. \/ phase' = "fetch" /\ at' = 1 /\ report' = report
        \/ phase' = "done" /\ at' = at /\ report' = "refused"
    BY <1>2 DEF Checked, Report
  <2>2. /\ at' \in Nat /\ at' >= 1 /\ phase' \in {"check", "fetch", "act", "done"}
        /\ report' \in Reports
    <3>1. at' \in Nat /\ at' >= 1
      BY <2>1
    <3>2. phase' \in {"check", "fetch", "act", "done"} /\ report' \in Reports
      BY <2>1 DEF Reports
    <3>3. QED
      BY <3>1, <3>2
  <2>3. QED
    BY <1>2, <2>2 DEF Checked
<1>3. CASE FetchPart
  <2>1. \A part \in Served : Append(parts, part) \in Seq(Served)
    BY AppendProperties
  <2>2. parts' \in Seq(Served) /\ (mirror' = mirror \/ mirror' = 1)
    BY <1>3, <2>1 DEF FetchPart
  <2>3. phase' \in {"fetch", "done"} /\ report' \in Reports
    BY <1>3 DEF FetchPart, Fetching, Report, Reports
  <2>4. QED
    BY <1>3, <2>2, <2>3 DEF FetchPart
<1>4. CASE FetchFails
  <2>1. mirror' = mirror \/ mirror' = mirror + 1
    BY <1>4 DEF FetchFails
  <2>2. phase' \in {"fetch", "done"} /\ report' \in Reports
    BY <1>4 DEF FetchFails, Fetching, Report, Reports
  <2>3. QED
    BY <1>4, <2>1, <2>2 DEF FetchFails
<1>5. CASE Mismatch
  BY <1>5 DEF Mismatch, Whole, Fetching, Report, Reports
<1>6. CASE Store
  <2>1. <<"store", at>> \in {"store", "action"} \X Nat
    OBVIOUS
  <2>2. done' \in Seq({"store", "action"} \X Nat)
    BY <1>6, <2>1, AppendProperties DEF Store
  <2>3. parts' \in Seq(Served)
    BY <1>6, EmptySeq DEF Store, NextFile
  <2>4. QED
    BY <1>6, <2>2, <2>3 DEF Store, NextFile, outcome
<1>7. CASE StoreFails
  BY <1>7 DEF StoreFails, WriteFailed, Report, Reports
<1>8. CASE Fetched
  BY <1>8 DEF Fetched, outcome
<1>9. ASSUME NEW success \in BOOLEAN, Result(success),
             done' = Append(done, <<"action", at>>),
             UNCHANGED <<order, parts, mirror, passed, followed, intruded>>
      PROVE  DeployTypeOK'
  <2>1. <<"action", at>> \in {"store", "action"} \X Nat
    OBVIOUS
  <2>2. done' \in Seq({"store", "action"} \X Nat)
    BY <1>9, <2>1, AppendProperties
  <2>3. results' \in Seq(BOOLEAN)
    BY <1>9, AppendProperties DEF Result
  <2>4. /\ at' = at \/ at' = at + 1
        /\ phase' = phase \/ phase' = "done"
        /\ report' = report \/ report' = "action"
    BY <1>9 DEF Result, Report
  <2>5. /\ at' \in Nat /\ at' >= 1 /\ phase' \in {"check", "fetch", "act", "done"}
        /\ report' \in Reports
    <3>1. at' \in Nat /\ at' >= 1
      BY <2>4
    <3>2. phase' \in {"check", "fetch", "act", "done"}
      BY <2>4
    <3>3. report' \in Reports
      BY <2>4 DEF Reports
    <3>4. QED
      BY <3>1, <3>2, <3>3
  <2>6. QED
    BY <1>9, <2>2, <2>3, <2>5
<1>10. CASE FileAction
  BY <1>9, <1>10 DEF FileAction
<1>11. CASE CommandAction
  BY <1>9, <1>11, OutputType DEF CommandAction
<1>12. CASE SpawnFails
  BY <1>12 DEF SpawnFails, Report, Reports
<1>13. CASE Finish
  BY <1>13, OrderType DEF Finish, Report, Reports
<1>14. CASE Intrude
  BY <1>14, DeployAssumption DEF Intrude, progress, outcome
<1>15. CASE UNCHANGED deploy_vars
  BY <1>15 DEF deploy_vars, progress, outcome
<1>16. QED
  BY <1>1, <1>2, <1>3, <1>4, <1>5, <1>6, <1>7, <1>8, <1>10, <1>11, <1>12, <1>13, <1>14,
     <1>15 DEF DeployNext, Terminated

(* Nothing happened to the files.                                          *)
LEMMA StoredSame ==
    ASSUME NEW n, Stored(n), UNCHANGED <<order, disk, touched>>
    PROVE  Stored(n)'
BY DEF Stored, Replaced, AsVerified, IsFile, Exists

(* An intrusion leaves the other files alone.                              *)
LEMMA IntrudeStored ==
    ASSUME Intrude, NEW n \in Nat, Stored(n)
    PROVE  Stored(n)'
<1>1. PICK i \in Intrusions :
           /\ \/ disk' = With(i.path, i.content)
              \/ disk' = Without({i.path})
           /\ touched' = touched \cup {i.path}
  BY DEF Intrude
<1>2. order' = order
  BY DEF Intrude
<1>3. \A p \in DOMAIN disk \ {i.path} : p \in DOMAIN disk' /\ disk'[p] = disk[p]
  BY <1>1, WriteOther, RemoveOther
<1>4. QED
  BY <1>1, <1>2, <1>3, StoredStays

(* What the result of an action leaves: it goes on after a success and the  *)
(* order ends with a true report after a failure.                           *)
LEMMA ResultStep ==
    ASSUME DeployInv, Acting, NEW success \in BOOLEAN, Result(success),
           done' = Append(done, <<"action", at>>),
           UNCHANGED <<order, parts, mirror, passed, followed>>
    PROVE  /\ phase' # "done" => report' = "" /\ ~followed'
           /\ phase' = "check" => Checking'
           /\ phase' = "fetch" => Downloading'
           /\ phase' = "act" => Running'
           /\ ReportAccounts'
<1>1. /\ at \in Nat /\ at >= 1 /\ results \in Seq(BOOLEAN) /\ Len(results) = at - 1
      /\ \A k \in 1..Len(results) : results[k]
      /\ proceed /\ at <= Len(order.actions) /\ Len(order.files) \in Nat
      /\ Len(order.actions) \in Nat
      /\ phase = "act" /\ report = "" /\ ~followed
      /\ done = StepsStored \o Steps(at - 1, "action")
  BY OrderType DEF DeployInv, DeployTypeOK, Acting, Running
<1>2. /\ results' = Append(results, success) /\ results' # <<>> /\ Len(results') = at
      /\ \A k \in 1..(at - 1) : results'[k] = results[k]
      /\ results'[at] = success
  <2>1. results \in Seq(BOOLEAN) /\ Len(results) = at - 1 /\ at \in Nat
        /\ results' = Append(results, success)
    BY <1>1 DEF Result
  <2>2. /\ results' # <<>> /\ Len(results') = Len(results) + 1
        /\ \A k \in 1..Len(results) : results'[k] = results[k]
        /\ results'[Len(results) + 1] = success
    BY <2>1, AppendProperties
  <2>3. Len(results) + 1 = at
    BY <2>1
  <2>4. QED
    BY <2>1, <2>2, <2>3
<1>3. done' = StepsStored \o Steps(at, "action")
  <2>1. at - 1 \in Nat /\ (at - 1) + 1 = at
    <3>1. at \in Nat /\ at >= 1
      BY <1>1
    <3>2. QED
      BY <3>1
  <2>2. Append(StepsStored \o Steps(at - 1, "action"), <<"action", (at - 1) + 1>>)
          = StepsStored \o Steps((at - 1) + 1, "action")
    BY <1>1, <2>1, ActionAppend DEF StepsStored
  <2>3. Append(StepsStored \o Steps(at - 1, "action"), <<"action", at>>)
          = StepsStored \o Steps(at, "action")
    BY <2>1, <2>2
  <2>4. QED
    BY <1>1, <2>3
<1>4. StepsStored' = StepsStored /\ proceed'
  BY <1>1 DEF StepsStored, proceed
<1>5. CASE success
  <2>1. /\ at' = at + 1 /\ phase' = "act" /\ report' = "" /\ ~followed'
    BY <1>1, <1>5 DEF Result
  <2>2. at' - 1 = at /\ at' <= Len(order'.actions) + 1
    <3>1. at \in Nat /\ at <= Len(order.actions) /\ Len(order.actions) \in Nat
      BY <1>1
    <3>2. at' = at + 1 /\ order' = order
      BY <2>1
    <3>3. QED
      BY <3>1, <3>2
  <2>3. done' = StepsStored' \o Steps(at' - 1, "action")
    BY <1>3, <1>4, <2>2
  <2>4. ASSUME NEW k \in 1..Len(results') PROVE results'[k]
    <3>1. k = at \/ k \in 1..Len(results)
      <4>1. at \in Nat /\ at >= 1 /\ Len(results) = at - 1
        BY <1>1
      <4>2. Len(results') = at
        BY <1>2
      <4>3. QED
        BY <4>1, <4>2
    <3>2. CASE k = at
      BY <1>2, <1>5, <3>2
    <3>3. CASE k \in 1..Len(results)
      BY <1>1, <1>2, <3>3
    <3>4. QED
      BY <3>1, <3>2, <3>3
  <2>5. Running'
    BY <1>2, <1>4, <2>2, <2>3, <2>4 DEF Running
  <2>6. QED
    BY <2>1, <2>5 DEF ReportAccounts
<1>6. CASE ~success
  <2>1. phase' = "done" /\ report' = "action" /\ ~followed' /\ order' = order
    BY <1>1, <1>6 DEF Result, Report
  <2>2. done' = Steps(Len(order'.files), "store") \o Steps(Len(results'), "action")
    BY <1>2, <1>3, <2>1 DEF StepsStored
  <2>3. \A k \in 1..(Len(results') - 1) : results'[k]
    BY <1>1, <1>2
  <2>4. ~(\A k \in 1..Len(results') : results'[k])
    <3>1. at \in Nat /\ at >= 1
      BY <1>1
    <3>2. Len(results') = at /\ ~results'[at]
      BY <1>2, <1>6
    <3>3. QED
      BY <3>1, <3>2
  <2>5. ~\E k \in 1..Len(passed') : ~passed'[k] /\ order'.checks[k].level = "ko"
    BY <1>4 DEF proceed
  <2>6. ReportAccounts'
    BY <2>1, <2>2, <2>3, <2>4, <2>5 DEF ReportAccounts
  <2>7. QED
    BY <2>1, <2>6
<1>7. QED
  BY <1>5, <1>6

(* A download that fails ends the order with what was stored before it.     *)
LEMMA DownloadFails ==
    ASSUME DeployInv, Fetching, Report("download"),
           UNCHANGED <<order, passed, results, followed, done>>
    PROVE  ReportAccounts'
<1>1. /\ at \in Nat /\ at >= 1 /\ at <= Len(order.files) /\ Len(order.files) \in Nat
      /\ proceed /\ ~followed /\ done = Steps(at - 1, "store")
  BY OrderType DEF DeployInv, DeployTypeOK, Fetching, Downloading
<1>2. proceed'
  BY <1>1 DEF proceed
<1>3. at - 1 \in 0..(Len(order.files) - 1)
  BY <1>1
<1>4. phase' = "done" /\ report' = "download" /\ ~followed'
  BY <1>1 DEF Report
<1>5. \E n \in 0..(Len(order'.files) - 1) : done' = Steps(n, "store")
  BY <1>1, <1>3
<1>6. ~\E k \in 1..Len(passed') : ~passed'[k] /\ order'.checks[k].level = "ko"
  BY <1>2 DEF proceed
<1>7. QED
  BY <1>4, <1>5, <1>6 DEF ReportAccounts

(* Every step keeps what the order knows of its place.                      *)
THEOREM DeployStepInv == DeployInv /\ [DeployNext]_deploy_vars => DeployInv'
<1> SUFFICES ASSUME DeployInv, [DeployNext]_deploy_vars PROVE DeployInv'
  OBVIOUS
<1>1. DeployTypeOK /\ DeployTypeOK'
  BY TypeStep DEF DeployInv
<1>2. /\ at \in Nat /\ at >= 1 /\ Len(order.checks) \in Nat /\ Len(order.files) \in Nat
      /\ Len(order.actions) \in Nat
  BY <1>1, OrderType DEF DeployTypeOK
<1>3. CASE EvaluateCheck
  <2>1. /\ phase' = "check" /\ report' = "" /\ ~followed' /\ order' = order
        /\ Checking /\ at <= Len(order.checks) /\ at' = at + 1
        /\ done' = done /\ results' = results
    BY <1>3 DEF EvaluateCheck, DeployInv
  <2>2. Len(passed') = Len(passed) + 1
    BY <1>1, <1>3, CheckType, AppendProperties DEF EvaluateCheck, DeployTypeOK
  <2>3. Len(passed') = at' - 1 /\ at' <= Len(order'.checks) + 1
    <3>1. at \in Nat /\ Len(order.checks) \in Nat
      BY <1>2
    <3>2. Len(passed) = at - 1 /\ at <= Len(order.checks) /\ at' = at + 1 /\ order' = order
      BY <2>1 DEF Checking
    <3>3. QED
      BY <2>2, <3>1, <3>2
  <2>4. Checking'
    BY <2>1, <2>3 DEF Checking
  <2>5. QED
    BY <1>1, <2>1, <2>4 DEF DeployInv, ReportAccounts
<1>4. CASE Checked
  <2>1. Checking /\ report = "" /\ ~followed
    BY <1>4 DEF Checked, DeployInv
  <2>2. CASE proceed
    <3>1. /\ phase' = "fetch" /\ at' = 1 /\ report' = "" /\ ~followed'
          /\ UNCHANGED <<order, disk, touched, passed, done, results>>
      BY <1>4, <2>1, <2>2 DEF Checked
    <3>2. proceed' /\ done' = <<>> /\ results' = <<>> /\ Len(order'.files) \in Nat
      BY <1>2, <2>1, <2>2, <3>1 DEF proceed, Checking
    <3>3. at' - 1 = 0 /\ at' <= Len(order'.files) + 1 /\ 1..(at' - 1) = {}
      <4>1. at' = 1
        BY <3>1
      <4>2. Len(order'.files) \in Nat
        BY <3>2
      <4>3. QED
        BY <4>1, <4>2
    <3>4. done' = Steps(at' - 1, "store")
      BY <3>2, <3>3, StepsNone
    <3>5. Stored(at - 1)'
      BY <3>3 DEF Stored
    <3>6. Downloading'
      BY <3>2, <3>3, <3>4, <3>5 DEF Downloading
    <3>7. QED
      BY <1>1, <3>1, <3>6 DEF DeployInv, ReportAccounts
  <2>3. CASE ~proceed
    <3>1. /\ phase' = "done" /\ report' = "refused" /\ ~followed' /\ done' = <<>>
          /\ UNCHANGED <<order, passed>>
      BY <1>4, <2>1, <2>3 DEF Checked, Report, Checking
    <3>2. \E k \in 1..Len(passed') : ~passed'[k] /\ order'.checks[k].level = "ko"
      BY <2>3, <3>1 DEF proceed
    <3>3. ReportAccounts'
      BY <3>1, <3>2 DEF ReportAccounts
    <3>4. QED
      BY <1>1, <3>1, <3>3 DEF DeployInv
  <2>4. QED
    BY <2>2, <2>3
<1>5. ASSUME Fetching, phase' = "fetch", at' = at,
             UNCHANGED <<order, disk, passed, results, report, followed, done, touched>>
      PROVE  DeployInv'
  <2>1. Downloading /\ report = "" /\ ~followed
    BY <1>5 DEF Fetching, DeployInv
  <2>2. Stored(at - 1)'
    BY <1>5, <2>1, StoredSame DEF Downloading, Stored, Replaced, AsVerified, IsFile, Exists
  <2>3. Downloading'
    BY <1>5, <2>1, <2>2 DEF Downloading, proceed
  <2>4. QED
    BY <1>1, <1>5, <2>1, <2>3 DEF DeployInv, ReportAccounts
<1>6. ASSUME Fetching, Report("download"),
             UNCHANGED <<order, passed, results, followed, done>>
      PROVE  DeployInv'
  <2>1. ReportAccounts' /\ phase' = "done"
    BY <1>6, DownloadFails DEF Report
  <2>2. QED
    BY <1>1, <2>1 DEF DeployInv
<1>7. CASE FetchPart
  BY <1>5, <1>6, <1>7 DEF FetchPart, Fetching, Report
<1>8. CASE FetchFails
  BY <1>5, <1>6, <1>8 DEF FetchFails, Fetching, Report
<1>9. CASE Mismatch
  BY <1>6, <1>9 DEF Mismatch, Whole
<1>10. CASE Store
  <2>1. /\ Downloading /\ report = "" /\ ~followed /\ phase' = "fetch" /\ report' = ""
        /\ ~followed' /\ at' = at + 1 /\ at <= Len(order.files)
        /\ UNCHANGED <<order, passed, results>> /\ done' = Append(done, <<"store", at>>)
    BY <1>10 DEF Store, Whole, Fetching, DeployInv, NextFile, outcome
  <2>2. Stored(at - 1)'
    <3>1. PICK n : n = at
      OBVIOUS
    <3>2. Stored(n)'
      BY <1>1, <1>10, <2>1, <3>1, StoredNext
    <3>3. (at - 1)' = n
      <4>1. at \in Nat /\ at' = at + 1
        BY <1>2, <2>1
      <4>2. QED
        BY <3>1, <4>1
    <3>4. QED
      BY <3>2, <3>3
  <2>3. done' = Steps(at' - 1, "store") /\ at' <= Len(order'.files) + 1
    <3>1. at - 1 \in Nat /\ (at - 1) + 1 = at /\ at' - 1 = at
      <4>1. at \in Nat /\ at >= 1 /\ at' = at + 1
        BY <1>2, <2>1
      <4>2. QED
        BY <4>1
    <3>2. Append(Steps(at - 1, "store"), <<"store", (at - 1) + 1>>)
            = Steps((at - 1) + 1, "store")
      BY <3>1, StepsAppend
    <3>3. Append(Steps(at - 1, "store"), <<"store", at>>) = Steps(at, "store")
      BY <3>1, <3>2
    <3>4. done' = Steps(at' - 1, "store")
      BY <2>1, <3>1, <3>3 DEF Downloading
    <3>5. at' <= Len(order'.files) + 1
      <4>1. at \in Nat /\ Len(order.files) \in Nat
        BY <1>2
      <4>2. at' = at + 1 /\ at <= Len(order.files) /\ order' = order
        BY <2>1
      <4>3. QED
        BY <4>1, <4>2
    <3>6. QED
      BY <3>4, <3>5
  <2>4. Downloading'
    BY <2>1, <2>2, <2>3 DEF Downloading, proceed
  <2>5. QED
    BY <1>1, <2>1, <2>4 DEF DeployInv, ReportAccounts
<1>11. CASE StoreFails
  BY <1>6, <1>11 DEF StoreFails, Whole, WriteFailed
<1>12. CASE Fetched
  <2>1. /\ Downloading /\ report = "" /\ ~followed /\ phase' = "act" /\ report' = ""
        /\ ~followed' /\ at' = 1 /\ at > Len(order.files)
        /\ UNCHANGED <<order, disk, touched, passed, results, done>>
    BY <1>12 DEF Fetched, DeployInv, outcome
  <2>2. at - 1 = Len(order.files) /\ at' - 1 = 0 /\ at' <= Len(order.actions) + 1
    <3>1. at \in Nat /\ Len(order.files) \in Nat /\ Len(order.actions) \in Nat
      BY <1>2
    <3>2. at > Len(order.files) /\ at <= Len(order.files) + 1 /\ at' = 1
      BY <2>1 DEF Downloading
    <3>3. QED
      BY <3>1, <3>2
  <2>3. Stored(Len(order.files))'
    BY <2>1, <2>2 DEF Downloading, Stored, Replaced, AsVerified, IsFile, Exists
  <2>4. done' = StepsStored' \o Steps(at' - 1, "action")
    <3>1. done' = StepsStored' /\ StepsStored \in Seq(Step) /\ StepsStored' = StepsStored
      BY <1>2, <2>1, <2>2, StepsType DEF Downloading, StepsStored
    <3>2. Steps(at' - 1, "action") = <<>>
      BY <2>2, StepsNone
    <3>3. QED
      BY <3>1, <3>2, ConcatEmptySeq
  <2>5. results' = <<>> /\ Len(results') = 0
    BY <2>1, EmptySeq DEF Downloading
  <2>6. Running'
    <3>1. proceed' /\ at' <= Len(order'.actions) + 1
      BY <2>1, <2>2 DEF Downloading, proceed
    <3>2. Len(results') = at' - 1 /\ \A k \in 1..Len(results') : results'[k]
      BY <2>2, <2>5
    <3>3. QED
      BY <2>3, <2>4, <3>1, <3>2 DEF Running
  <2>7. QED
    BY <1>1, <2>1, <2>6 DEF DeployInv, ReportAccounts
<1>13. CASE FileAction \/ CommandAction
  <2>1. PICK success \in BOOLEAN : Result(success)
    <3>1. CASE FileAction
      BY <3>1 DEF FileAction
    <3>2. CASE CommandAction
      <4>1. PICK output : Result(evaluate_checks(Action.ret_checks, output))
        BY <3>2 DEF CommandAction
      <4>2. evaluate_checks(Action.ret_checks, output) \in BOOLEAN
        BY OutputType
      <4>3. QED
        BY <4>1, <4>2
    <3>3. QED
      BY <1>13, <3>1, <3>2
  <2>2. /\ Acting /\ done' = Append(done, <<"action", at>>)
        /\ UNCHANGED <<order, parts, mirror, passed, followed>>
    BY <1>13 DEF FileAction, CommandAction
  <2>3. QED
    BY <1>1, <2>1, <2>2, ResultStep DEF DeployInv
<1>14. CASE SpawnFails \/ Finish
  <2>1. /\ Running /\ ~followed /\ phase' = "done"
        /\ UNCHANGED <<order, passed, results, done>>
    BY <1>14 DEF SpawnFails, Finish, Acting, DeployInv, Report
  <2>2. Len(results) = at - 1 /\ \A k \in 1..Len(results) : results[k]
    BY <2>1 DEF Running
  <2>3. done' = Steps(Len(order'.files), "store") \o Steps(Len(results'), "action")
    BY <2>1, <2>2 DEF Running, StepsStored
  <2>4. ~\E k \in 1..Len(passed') : ~passed'[k] /\ order'.checks[k].level = "ko"
    BY <2>1 DEF Running, proceed
  <2>5. CASE SpawnFails
    <3>1. report' = "error" /\ ~followed'
      BY <2>1, <2>5 DEF SpawnFails, Report
    <3>2. ReportAccounts'
      BY <2>1, <2>2, <2>3, <2>4, <3>1 DEF ReportAccounts
    <3>3. QED
      BY <1>1, <2>1, <3>2 DEF DeployInv
  <2>6. CASE Finish
    <3>1. report' = "ok" /\ followed' = order'.run_software_inventory
      BY <2>6 DEF Finish, Report
    <3>2. Len(results') = Len(order'.actions)
      BY <1>2, <2>1, <2>2, <2>6 DEF Finish, Running
    <3>3. ReportAccounts'
      BY <2>1, <2>2, <2>3, <2>4, <3>1, <3>2 DEF ReportAccounts
    <3>4. QED
      BY <1>1, <2>1, <3>3 DEF DeployInv
  <2>7. QED
    BY <1>14, <2>5, <2>6
<1>15. CASE Intrude
  <2>1. UNCHANGED <<order, phase, at, passed, results, report, followed, done>>
        /\ phase # "done"
    BY <1>15 DEF Intrude, progress, outcome
  <2>2. ASSUME NEW n \in Nat, Stored(n) PROVE Stored(n)'
    BY <1>15, <2>2, IntrudeStored
  <2>3. phase = "fetch" => Downloading'
    <3>1. at - 1 \in Nat /\ (at - 1)' = at - 1
      BY <1>2, <2>1
    <3>2. QED
      BY <2>1, <2>2, <3>1 DEF DeployInv, Downloading, proceed
  <2>4. phase = "act" => Running'
    BY <1>2, <2>1, <2>2 DEF DeployInv, Running, proceed, StepsStored
  <2>5. QED
    BY <1>1, <2>1, <2>3, <2>4 DEF DeployInv, Checking, ReportAccounts
<1>16. CASE UNCHANGED deploy_vars
  <2>1. UNCHANGED <<order, disk, phase, at, passed, results, report, followed, done, touched>>
    BY <1>16 DEF deploy_vars, progress, outcome
  <2>2. QED
    BY <1>1, <2>1 DEF DeployInv, Checking, Downloading, Running, ReportAccounts, Stored,
                      Replaced, AsVerified, IsFile, Exists, proceed, StepsStored
<1>17. QED
  BY <1>3, <1>4, <1>7, <1>8, <1>9, <1>10, <1>11, <1>12, <1>13, <1>14, <1>15, <1>16
  DEF DeployNext, Terminated

(* The invariant holds in every state an order reaches.                     *)
THEOREM DeployInvariance == DeploySpec => []DeployInv
BY DeployInitInv, DeployStepInv, PTL DEF DeploySpec

(* The variables have their types.                                         *)
THEOREM DeployTypeCorrect == DeploySpec => []DeployTypeOK
<1>1. DeployInv => DeployTypeOK
  BY DEF DeployInv
<1>2. QED
  BY <1>1, DeployInvariance, PTL

(* However many files an order has and whatever the mirrors answer, its      *)
(* actions begin with every file as its digest says, unless another program  *)
(* or a later file replaced it.                                              *)
THEOREM VerifiedFirst == DeploySpec => []ActionsOnVerified
<1>1. DeployInv => ActionsOnVerified
  BY DEF DeployInv, Running, ActionsOnVerified, Stored, Replaced, AsVerified
<1>2. QED
  BY <1>1, DeployInvariance, PTL

(* The report the server is sent is true of what was done to the machine.    *)
THEOREM TrueReport == DeploySpec => []ReportAccounts
<1>1. DeployInv => ReportAccounts
  BY DEF DeployInv
<1>2. QED
  BY <1>1, DeployInvariance, PTL

-----------------------------------------------------------------------------
(***************************************************************************)
(* The delta inventory, for every set of sections, values and checksums,    *)
(* any number of servers and any postpone bound.                            *)
(***************************************************************************)

USE DataAssumption, ContentAssumption, ConfigAssumption
-----------------------------------------------------------------------------
(* The pure operators of delta.rs. *)

\* Hashing the sections of a content yields checksums, present where they are.
LEMMA SumsOfContent ==
    ASSUME NEW c \in Content
    PROVE  /\ section_checksums(c) \in Sums
           /\ \A s \in Section : section_checksums(c)[s] = SumOf(c[s])
           /\ \A s \in Section : section_checksums(c)[s] = Missing <=> c[s] = Missing
<1>1. \A s \in Section : c[s] \in Value \cup {Missing}
  BY DEF Content
<1>2. \A s \in Section : /\ SumOf(c[s]) \in Digest \cup {Missing}
                         /\ SumOf(c[s]) = Missing <=> c[s] = Missing
  BY <1>1 DEF SumOf
<1>3. QED
  BY <1>2 DEF section_checksums, Sums

\* `plan` covers what was collected and records its checksums; it goes partial
\* only over an existing state, with the sections that differ from it.
LEMMA PlanFacts ==
    ASSUME NEW c \in Content,
           NEW prev \in [kind : {"absent", "torn", "saved"}, state : InventoryState]
    PROVE  /\ plan(c, prev) \in DeltaPlan
           /\ plan(c, prev).content = c
           /\ plan(c, prev).state.checksums = section_checksums(c)
           /\ plan(c, prev).changed \subseteq Present(c)
           /\ plan(c, prev).mode = "partial" =>
                 /\ prev.kind # "absent"
                 /\ plan(c, prev).changed = Changed(c, prev)
<1>1. section_checksums(c) \in Sums
  BY SumsOfContent
<1>2. /\ Present(c) \subseteq Section
      /\ Changed(c, prev) \subseteq Present(c)
  BY DEF Present, Changed
<1>3. CASE ForceFull(prev)
  <2>1. plan(c, prev) = [mode |-> "full", content |-> c, changed |-> Present(c),
                         state |-> [checksums |-> section_checksums(c), since_full |-> 0]]
    BY <1>3 DEF plan
  <2>2. QED
    BY <2>1, <1>1, <1>2 DEF DeltaPlan, InventoryState
<1>4. CASE ~ForceFull(prev)
  <2>1. plan(c, prev) = [mode |-> "partial", content |-> c, changed |-> Changed(c, prev),
                         state |-> [checksums |-> section_checksums(c),
                                    since_full |-> prev.state.since_full + 1]]
    BY <1>4 DEF plan
  <2>2. prev.kind # "absent" /\ prev.state.since_full + 1 \in 0..MaxPostpone
    BY <1>4 DEF ForceFull, InventoryState
  <2>3. QED
    BY <2>1, <2>2, <1>1, <1>2 DEF DeltaPlan, InventoryState
<1>5. QED
  BY <1>3, <1>4

\* A server's copy stays a content under any submission.
LEMMA MergeTyped ==
    ASSUME NEW held \in Content, NEW p \in DeltaPlan
    PROVE  Merge(held, p) \in Content
  BY DEF Merge, Content, DeltaPlan

\* A server that holds an inventory is not emptied by a partial one.
LEMMA MergeKeepsBaseline ==
    ASSUME NEW held \in Content, NEW p \in DeltaPlan,
           p.changed \subseteq Present(p.content), p.content \in Contents,
           p.mode = "partial" => held # Nothing
    PROVE  Merge(held, p) # Nothing
<1>1. CASE p.mode = "full"
  BY <1>1 DEF Merge, Nothing
<1>2. CASE p.mode = "partial"
  <2>1. PICK s \in Section : held[s] # Missing
    <3>1. held = [s \in Section |-> held[s]]
      BY DEF Content
    <3>2. QED
      BY <3>1, <1>2 DEF Nothing
  <2>2. Merge(held, p)[s] = IF s \in p.changed THEN p.content[s] ELSE held[s]
    BY <1>2 DEF Merge
  <2>3. Merge(held, p)[s] # Missing
    BY <2>1, <2>2 DEF Present
  <2>4. QED
    BY <2>3 DEF Nothing
<1>3. QED
  BY <1>1, <1>2 DEF DeltaPlan

\* A partial brings a server that agrees with what it leaves out into full
\* agreement with the checksums of the plan.
LEMMA PartialAgrees ==
    ASSUME NEW held \in Content, NEW p \in DeltaPlan, p.mode = "partial",
           p.state.checksums = section_checksums(p.content),
           \A s \in Section \ p.changed :
               p.state.checksums[s] # Missing => SumOf(held[s]) = p.state.checksums[s]
    PROVE  Agrees(Merge(held, p), p.state.checksums)
<1>1. p.content \in Content
  BY DEF DeltaPlan
<1>2. SUFFICES ASSUME NEW s \in Section, p.state.checksums[s] # Missing
               PROVE  SumOf(Merge(held, p)[s]) = p.state.checksums[s]
  BY DEF Agrees
<1>3. Merge(held, p)[s] = IF s \in p.changed THEN p.content[s] ELSE held[s]
  BY DEF Merge
<1>4. p.state.checksums[s] = SumOf(p.content[s])
  BY <1>1, SumsOfContent
<1>5. QED
  BY <1>2, <1>3, <1>4

\* A full inventory puts a server in agreement with the checksums of the plan.
LEMMA FullAgrees ==
    ASSUME NEW c \in Content
    PROVE  Agrees(c, section_checksums(c))
  BY SumsOfContent DEF Agrees
-----------------------------------------------------------------------------
(* The inductive invariant. *)

\* The first state: nothing saved, no run, no server knows the device.
LEMMA InitInv == Init => IInv
<1> SUFFICES ASSUME Init PROVE IInv
  OBVIOUS
<1>1. Nothing \in Content /\ Nothing \in Sums
  BY DEF Nothing, Content, Sums
<1>2. TypeOK
  <2>1. file \in [kind : {"absent", "torn", "saved"}, state : InventoryState]
    BY <1>1 DEF Init, Absent, InventoryState
  <2>2. run \in DeltaPlan
    BY <1>1 DEF Init, NoRun, DeltaPlan, InventoryState
  <2>3. view \in [Server -> Content]
    BY <1>1 DEF Init
  <2>4. next \in 1..(NumServers + 1) /\ active \in InitialServers..NumServers
    BY DEF Init
  <2>5. content \in Contents /\ pc \in {"idle", "submit", "save"} /\ diverged \in BOOLEAN
    BY DEF Init
  <2>6. QED
    BY <2>1, <2>2, <2>3, <2>4, <2>5 DEF TypeOK
<1>3. QED
  BY <1>2 DEF Init, IInv, RunInv, SentInv, UnsentInv, FileInv, BaselineInv, Absent

\* A run that stops leaves the program where the next one starts.
LEMMA AbandonTyped ==
    ASSUME TypeOK, Abandon
    PROVE  pc' = "idle" /\ run' \in DeltaPlan /\ next' = 1
<1>1. Nothing \in Content /\ Nothing \in Sums
  BY DEF Nothing, Content, Sums
<1>2. QED
  BY <1>1 DEF Abandon, NoRun, DeltaPlan, InventoryState

\* What Apply does to the server the loop has reached and to the others.
LEMMA ApplyFacts ==
    ASSUME IInv, Apply, pc = "submit"
    PROVE  /\ next \in 1..active /\ next \in Server
           /\ view' \in [Server -> Content]
           /\ view'[next] = Merge(view[next], run)
           /\ \A i \in Server \ {next} : view'[i] = view[i]
           /\ \A i \in 1..InitialServers :
                 (run.mode = "partial" \/ view[i] # Nothing) => view'[i] # Nothing
<1>1. next \in 1..active /\ next \in Server
  BY DEF IInv, TypeOK, RunInv, Server
<1>2. view[next] \in Content /\ run \in DeltaPlan /\ view \in [Server -> Content]
  BY <1>1 DEF IInv, TypeOK
<1>3. Merge(view[next], run) \in Content
  BY <1>2, MergeTyped
<1>4. view' = [view EXCEPT ![next] = Merge(view[next], run)]
  BY DEF Apply
<1>5. /\ view' \in [Server -> Content]
      /\ view'[next] = Merge(view[next], run)
      /\ \A i \in Server \ {next} : view'[i] = view[i]
  BY <1>1, <1>2, <1>3, <1>4
<1>6. ASSUME NEW i \in 1..InitialServers,
             run.mode = "partial" \/ view[i] # Nothing
      PROVE  view'[i] # Nothing
  <2>1. view[i] # Nothing
    BY <1>6 DEF IInv, BaselineInv
  <2>2. i \in Server
    BY DEF Server
  <2>3. CASE i = next
    <3>1. run.changed \subseteq Present(run.content) /\ run.content \in Contents
      BY DEF IInv, RunInv
    <3>2. Merge(view[next], run) # Nothing
      BY <3>1, <2>1, <2>3, <1>2, MergeKeepsBaseline
    <3>3. QED
      BY <3>2, <2>3, <1>5
  <2>4. CASE i # next
    BY <2>4, <2>1, <2>2, <1>5
  <2>5. QED
    BY <2>3, <2>4
<1>7. QED
  BY <1>1, <1>5, <1>6

\* The device, the configuration and the maintenance of other runs.
LEMMA StepEnvironment ==
    ASSUME IInv, ContentChanges \/ AddServer \/ prune_stale
    PROVE  IInv'
<1>1. CASE ContentChanges
  <2>1. TypeOK'
    BY <1>1 DEF ContentChanges, IInv, TypeOK
  <2>2. QED
    BY <1>1, <2>1 DEF ContentChanges, IInv, RunInv, SentInv, UnsentInv, FileInv, BaselineInv
<1>2. CASE AddServer
  <2>1. TypeOK'
    BY <1>2 DEF AddServer, IInv, TypeOK
  <2>2. RunInv'
    BY <1>2 DEF AddServer, IInv, RunInv
  <2>3. QED
    BY <1>2, <2>1, <2>2 DEF AddServer, IInv, SentInv, UnsentInv, FileInv, BaselineInv
<1>3. CASE prune_stale
  <2>1. Absent \in [kind : {"absent", "torn", "saved"}, state : InventoryState]
    BY DEF Absent, InventoryState, Nothing, Sums
  <2>2. TypeOK'
    BY <1>3, <2>1 DEF prune_stale, IInv, TypeOK
  <2>3. FileInv' /\ BaselineInv'
    BY <1>3 DEF prune_stale, IInv, FileInv, BaselineInv, Absent
  <2>4. QED
    BY <1>3, <2>2, <2>3 DEF prune_stale, IInv, RunInv, SentInv, UnsentInv, Absent
<1>4. QED
  BY <1>1, <1>2, <1>3

\* load_state and plan: what a partial leaves out, the servers agree on.
LEMMA StepStart ==
    ASSUME IInv, StartRun
    PROVE  IInv'
<1>1. /\ content \in Content
      /\ content \in Contents
      /\ file \in [kind : {"absent", "torn", "saved"}, state : InventoryState]
  BY DEF IInv, TypeOK
<1>2. /\ run' \in DeltaPlan
      /\ run'.content = content
      /\ run'.state.checksums = section_checksums(content)
      /\ run'.changed \subseteq Present(content)
      /\ run'.mode = "partial" =>
            /\ file.kind # "absent"
            /\ run'.changed = Changed(content, file)
  BY <1>1, PlanFacts DEF StartRun
<1>3. pc = "idle" /\ pc' = "submit" /\ next = 1 /\ next' = 1 /\ file.kind # "torn"
  BY DEF StartRun, IInv, RunInv
<1>4. TypeOK'
  BY <1>2 DEF StartRun, IInv, TypeOK
<1>5. RunInv'
  <2>1. 1 <= active
    BY DEF IInv, TypeOK
  <2>2. QED
    BY <1>1, <1>2, <1>3, <2>1 DEF StartRun, RunInv
<1>6. SentInv'
  BY <1>3 DEF StartRun, SentInv
<1>7. UnsentInv'
  <2>1. SUFFICES ASSUME run'.mode = "partial", ~diverged, NEW i \in 1..active,
                        NEW s \in Section \ run'.changed,
                        run'.state.checksums[s] # Missing
                 PROVE  SumOf(view[i][s]) = run'.state.checksums[s]
    BY <1>3 DEF UnsentInv, StartRun
  <2>2. file.kind = "saved"
    BY <1>1, <1>2, <1>3, <2>1
  <2>3. content[s] # Missing
    BY <1>1, <1>2, <2>1, SumsOfContent
  <2>4. file.state.checksums[s] = section_checksums(content)[s]
    BY <1>2, <2>1, <2>3 DEF Changed, Present
  <2>5. Agrees(view[i], file.state.checksums)
    BY <1>3, <2>1, <2>2 DEF IInv, FileInv
  <2>6. QED
    BY <1>2, <2>1, <2>4, <2>5 DEF Agrees
<1>8. FileInv'
  BY <1>3 DEF StartRun, IInv, FileInv
<1>9. BaselineInv'
  <2>1. run'.mode = "partial" => file.kind = "saved"
    BY <1>1, <1>2, <1>3
  <2>2. QED
    BY <2>1 DEF StartRun, IInv, BaselineInv
<1>10. QED
  BY <1>4, <1>5, <1>6, <1>7, <1>8, <1>9 DEF IInv

\* One more server in agreement with the plan.
LEMMA StepSubmitOk ==
    ASSUME IInv, SubmitOk
    PROVE  IInv'
<1>1. pc = "submit" /\ Apply /\ TypeOK /\ next' = next + 1
  BY DEF SubmitOk, IInv
<1>2. /\ next \in 1..active
      /\ next \in Server
      /\ view' \in [Server -> Content]
      /\ view'[next] = Merge(view[next], run)
      /\ \A i \in Server \ {next} : view'[i] = view[i]
      /\ \A i \in 1..InitialServers :
            (run.mode = "partial" \/ view[i] # Nothing) => view'[i] # Nothing
  BY <1>1, ApplyFacts
<1>3. /\ next \in Nat /\ active \in Nat /\ active <= NumServers
      /\ 1..active \subseteq Server
  BY DEF IInv, TypeOK, Server
<1>4. /\ run \in DeltaPlan
      /\ run.content \in Content
      /\ run.state.checksums = section_checksums(run.content)
      /\ view[next] \in Content
  BY <1>1, <1>2 DEF IInv, TypeOK, RunInv, DeltaPlan
<1>5. TypeOK'
  <2>1. next' \in 1..(NumServers + 1) /\ pc' \in {"idle", "submit", "save"}
    BY <1>2, <1>3 DEF SubmitOk
  <2>2. QED
    BY <2>1, <1>1, <1>2 DEF SubmitOk, TypeOK
<1>6. RunInv'
  BY <1>1, <1>2, <1>3 DEF SubmitOk, IInv, RunInv
<1>7. SentInv'
  <2>1. SUFFICES ASSUME NEW i \in 1..next
                 PROVE  /\ run.mode = "full" => view'[i] = run.content
                        /\ (run.mode = "partial" /\ ~diverged) =>
                              Agrees(view'[i], run.state.checksums)
    BY <1>3, <1>1 DEF SubmitOk, SentInv
  <2>2. CASE i = next
    <3>1. run.mode = "full" => view'[i] = run.content
      BY <2>2, <1>2 DEF Merge
    <3>2. ASSUME run.mode = "partial", ~diverged
          PROVE  Agrees(view'[i], run.state.checksums)
      <4>1. \A s \in Section \ run.changed :
               run.state.checksums[s] # Missing =>
                   SumOf(view[next][s]) = run.state.checksums[s]
        BY <1>1, <1>2, <1>3, <3>2 DEF IInv, UnsentInv
      <4>2. QED
        BY <4>1, <3>2, <2>2, <1>2, <1>4, PartialAgrees
    <3>3. QED
      BY <3>1, <3>2
  <2>3. CASE i # next
    <3>1. i \in 1..(next - 1) /\ i \in Server \ {next}
      BY <2>3, <1>2, <1>3
    <3>2. view'[i] = view[i]
      BY <3>1, <1>2
    <3>3. QED
      BY <3>1, <3>2, <1>1 DEF IInv, SentInv
  <2>4. QED
    BY <2>2, <2>3
<1>8. UnsentInv'
  <2>1. SUFFICES ASSUME run.mode = "partial", ~diverged, NEW i \in (next + 1)..active,
                        NEW s \in Section \ run.changed,
                        run.state.checksums[s] # Missing
                 PROVE  SumOf(view'[i][s]) = run.state.checksums[s]
    BY <1>1 DEF SubmitOk, UnsentInv
  <2>2. i \in next..active /\ i \in Server \ {next}
    BY <1>2, <1>3
  <2>3. view'[i] = view[i]
    BY <2>2, <1>2
  <2>4. QED
    BY <2>1, <2>2, <2>3, <1>1 DEF IInv, UnsentInv
<1>9. FileInv'
  <2>1. next' # 1
    BY <1>1, <1>2
  <2>2. QED
    BY <2>1 DEF FileInv
<1>10. BaselineInv'
  <2>1. SUFFICES ASSUME file.kind = "saved" \/ run.mode = "partial",
                        NEW i \in 1..InitialServers
                 PROVE  view'[i] # Nothing
    BY DEF SubmitOk, BaselineInv
  <2>2. run.mode = "partial" \/ view[i] # Nothing
    BY <2>1 DEF IInv, BaselineInv
  <2>3. QED
    BY <2>2, <1>2
<1>11. QED
  BY <1>5, <1>6, <1>7, <1>8, <1>9, <1>10 DEF IInv

\* A run that fails before reaching a server leaves the state file right;
\* one that reached some is recorded in diverged.
LEMMA StepSubmitFails ==
    ASSUME IInv, SubmitFails
    PROVE  IInv'
<1>1. pc' = "idle" /\ run' \in DeltaPlan /\ next' = 1
  BY AbandonTyped DEF SubmitFails, IInv
<1>2. next \in Nat /\ next >= 1
  BY DEF IInv, TypeOK
<1>3. TypeOK'
  <2>1. diverged' \in BOOLEAN /\ next' \in 1..(NumServers + 1)
    BY <1>1 DEF SubmitFails
  <2>2. QED
    BY <1>1, <2>1 DEF SubmitFails, IInv, TypeOK
<1>4. RunInv' /\ SentInv' /\ UnsentInv'
  BY <1>1 DEF RunInv, SentInv, UnsentInv
<1>5. FileInv'
  <2>1. next = 1 \/ next > 1
    BY <1>2
  <2>2. ~diverged' => ~diverged /\ next = 1
    BY <2>1, Zenon DEF SubmitFails
  <2>3. QED
    BY <2>2 DEF SubmitFails, IInv, FileInv
<1>6. BaselineInv'
  BY <1>1 DEF SubmitFails, IInv, BaselineInv
<1>7. QED
  BY <1>3, <1>4, <1>5, <1>6 DEF IInv

\* A submission that was applied but not acknowledged.
LEMMA StepResponseLost ==
    ASSUME IInv, ResponseLost
    PROVE  IInv'
<1>1. pc' = "idle" /\ run' \in DeltaPlan /\ next' = 1 /\ diverged'
  BY AbandonTyped DEF ResponseLost, IInv
<1>2. /\ view' \in [Server -> Content]
      /\ \A i \in 1..InitialServers :
            (run.mode = "partial" \/ view[i] # Nothing) => view'[i] # Nothing
  BY ApplyFacts DEF ResponseLost
<1>3. TypeOK'
  <2>1. next' \in 1..(NumServers + 1) /\ diverged' \in BOOLEAN
    BY <1>1 DEF ResponseLost
  <2>2. QED
    BY <1>1, <1>2, <2>1 DEF ResponseLost, IInv, TypeOK
<1>4. RunInv' /\ SentInv' /\ UnsentInv' /\ FileInv'
  BY <1>1 DEF RunInv, SentInv, UnsentInv, FileInv
<1>5. BaselineInv'
  BY <1>1, <1>2 DEF ResponseLost, IInv, BaselineInv
<1>6. QED
  BY <1>3, <1>4, <1>5 DEF IInv

\* The state is saved only when every server has passed.
LEMMA StepSaveState ==
    ASSUME IInv, SaveState
    PROVE  IInv'
<1>1. pc = "save" /\ pc' = "idle" /\ run' \in DeltaPlan /\ next' = 1
  BY AbandonTyped DEF SaveState, IInv
<1>2. next = active + 1 /\ active \in Nat /\ InitialServers <= active
  BY <1>1 DEF IInv, RunInv, TypeOK
<1>3. run \in DeltaPlan /\ run.content \in Content /\ run.content \in Contents
  BY <1>1 DEF IInv, TypeOK, RunInv, DeltaPlan
<1>4. file' = Saved(run.state) /\ file'.kind = "saved" /\ file'.state = run.state
  BY DEF SaveState, Saved
<1>5. TypeOK'
  <2>1. file' \in [kind : {"absent", "torn", "saved"}, state : InventoryState]
    BY <1>3, <1>4 DEF Saved, DeltaPlan
  <2>2. diverged' \in BOOLEAN /\ next' \in 1..(NumServers + 1)
    BY <1>1 DEF SaveState
  <2>3. QED
    BY <1>1, <2>1, <2>2 DEF SaveState, IInv, TypeOK
<1>6. RunInv' /\ SentInv' /\ UnsentInv'
  BY <1>1 DEF RunInv, SentInv, UnsentInv
<1>7. FileInv'
  <2>1. SUFFICES ASSUME ~diverged', NEW i \in 1..active
                 PROVE  Agrees(view[i], run.state.checksums)
    BY <1>4 DEF SaveState, FileInv
  <2>2. i \in 1..(next - 1)
    BY <1>2
  <2>3. CASE run.mode = "full"
    <3>1. view[i] = run.content /\ run.state.checksums = section_checksums(run.content)
      BY <1>1, <2>2, <2>3 DEF IInv, SentInv, RunInv
    <3>2. QED
      BY <3>1, <1>3, FullAgrees
  <2>4. CASE run.mode = "partial"
    <3>1. ~diverged
      BY <2>1, <2>4 DEF SaveState
    <3>2. QED
      BY <3>1, <1>1, <2>2, <2>4 DEF IInv, SentInv
  <2>5. QED
    BY <2>3, <2>4, <1>3 DEF DeltaPlan
<1>8. BaselineInv'
  <2>1. SUFFICES ASSUME NEW i \in 1..InitialServers
                 PROVE  view[i] # Nothing
    BY DEF SaveState, BaselineInv
  <2>2. CASE run.mode = "partial"
    BY <2>2, <1>1 DEF IInv, BaselineInv
  <2>3. CASE run.mode = "full"
    <3>1. i \in 1..(next - 1)
      BY <1>2
    <3>2. view[i] = run.content
      BY <3>1, <2>3, <1>1 DEF IInv, SentInv
    <3>3. QED
      BY <3>2, <1>3 DEF Nothing
  <2>4. QED
    BY <2>2, <2>3, <1>3 DEF DeltaPlan
<1>9. QED
  BY <1>5, <1>6, <1>7, <1>8 DEF IInv

\* A torn or an old state file.
LEMMA StepSaveFails ==
    ASSUME IInv, SaveFails
    PROVE  IInv'
<1>1. pc = "save" /\ pc' = "idle" /\ run' \in DeltaPlan /\ next' = 1 /\ diverged'
  BY AbandonTyped DEF SaveFails, IInv
<1>2. TypeOK'
  <2>1. Torn \in [kind : {"absent", "torn", "saved"}, state : InventoryState]
    BY DEF Torn, InventoryState, Nothing, Sums
  <2>2. file' \in [kind : {"absent", "torn", "saved"}, state : InventoryState]
    BY <2>1 DEF SaveFails, IInv, TypeOK
  <2>3. diverged' \in BOOLEAN /\ next' \in 1..(NumServers + 1)
    BY <1>1 DEF SaveFails
  <2>4. QED
    BY <1>1, <2>2, <2>3 DEF SaveFails, IInv, TypeOK
<1>3. RunInv' /\ SentInv' /\ UnsentInv' /\ FileInv'
  BY <1>1 DEF RunInv, SentInv, UnsentInv, FileInv
<1>4. BaselineInv'
  <2>1. file'.kind = "saved" => file.kind = "saved"
    BY DEF SaveFails, Torn
  <2>2. QED
    BY <1>1, <2>1 DEF SaveFails, IInv, BaselineInv
<1>5. QED
  BY <1>2, <1>3, <1>4 DEF IInv

\* Every step of the program and of its environment preserves the invariant.
LEMMA StepInv == IInv /\ [Next]_vars => IInv'
<1> SUFFICES ASSUME IInv, [Next]_vars PROVE IInv'
  OBVIOUS
<1>1. CASE UNCHANGED vars
  BY <1>1 DEF vars, IInv, TypeOK, RunInv, SentInv, UnsentInv, FileInv, BaselineInv
<1>2. CASE Next
  BY <1>2, StepEnvironment, StepStart, StepSubmitOk, StepSubmitFails,
     StepResponseLost, StepSaveState, StepSaveFails DEF Next
<1>3. QED
  BY <1>1, <1>2
-----------------------------------------------------------------------------
(* The inductive invariant holds in every reachable state.                  *)
THEOREM Invariance == Spec => []IInv
<1>1. QED
  BY InitInv, StepInv, PTL DEF Spec

(* Every variable keeps its type: the partial counter of the state file     *)
(* never passes full-inventory-postpone.                                    *)
THEOREM TypeCorrect == Spec => []TypeOK
<1>1. IInv => TypeOK
  BY DEF IInv
<1>2. QED
  BY <1>1, Invariance, PTL

(* Unless a failed run reached a server since the last full one, the state  *)
(* file describes what every configured server holds, section by section.   *)
THEOREM StateMatchesServersHolds == Spec => []StateMatchesServers
<1>1. IInv => StateMatchesServers
  BY DEF IInv, RunInv, FileInv, StateMatchesServers
<1>2. QED
  BY <1>1, Invariance, PTL

(* A partial is only posted to servers that hold a full inventory.          *)
THEOREM PartialHasBaselineHolds == Spec => []PartialHasBaseline
<1>1. IInv => PartialHasBaseline
  BY DEF IInv, BaselineInv, PartialHasBaseline
<1>2. QED
  BY <1>1, Invariance, PTL

(* A full run that completes leaves every configured server with exactly    *)
(* the content it collected.                                                *)
THEOREM FullRunRepairsHolds == Spec => FullRunRepairs
<1>1. ASSUME IInv, SaveState, run.mode = "full", NEW i \in 1..active
      PROVE  view'[i] = run.content
  <2>1. next = active + 1 /\ active \in Nat /\ pc # "idle" /\ view' = view
    BY <1>1 DEF IInv, RunInv, TypeOK, SaveState
  <2>2. i \in 1..(next - 1)
    BY <2>1
  <2>3. QED
    BY <1>1, <2>1, <2>2 DEF IInv, SentInv
<1>2. IInv /\ [Next]_vars =>
        [(SaveState /\ run.mode = "full") =>
            \A i \in 1..active : view'[i] = run.content]_vars
  BY <1>1
<1>3. QED
  BY <1>2, Invariance, PTL DEF Spec, FullRunRepairs
(* A state file cut short by a crash silences the device: no run gets past  *)
(* load_state, so neither the file nor any server's copy changes again.     *)
THEOREM TornStopsDeviceHolds == Spec => TornStopsDevice
<1>1. ASSUME IInv, [Next]_vars, file.kind = "torn"
      PROVE  prune_stale \/ UNCHANGED <<file, view>>
  <2>1. pc = "idle"
    BY <1>1 DEF IInv, RunInv
  <2>2. QED
    BY <1>1, <2>1 DEF vars, Next, ContentChanges, AddServer, StartRun, SubmitOk,
       SubmitFails, ResponseLost, SaveState, SaveFails
<1>2. IInv /\ [Next]_vars =>
        [file.kind = "torn" => prune_stale \/ UNCHANGED <<file, view>>]_vars
  BY <1>1
<1>3. QED
  BY <1>2, Invariance, PTL DEF Spec, TornStopsDevice
=============================================================================

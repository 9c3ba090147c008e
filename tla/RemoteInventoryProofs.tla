----------------------- MODULE RemoteInventoryProofs -----------------------
(***************************************************************************)
(* Proofs about RemoteInventory, for any targets, machines, tools, sections *)
(* and number of faults: the state files describe what the server holds,    *)
(* and the exit of a run accounts for all its targets.                      *)
(***************************************************************************)
EXTENDS RemoteInventory, FiniteSetTheorems, TLAPS

USE DataAssumption, RemoteAssumption

StateFile == [kind : {"absent", "torn", "saved"}, state : InventoryState]

TaskState == {"queued", "running", "done", "panicked", "aborted"}

Good == {t \in Target : result[t].kind = "ok"}
Bad == {t \in Target : result[t].kind = "failed"}

\* Tasks run while targets are collected, one that is over has left its result,
\* and the submission loop is reached when all are.
CollectInv ==
    \A t \in Target :
        /\ task[t] = "running" => pc = "collect"
        /\ (pc = "collect" /\ task[t] = "done") => t \in Good \cup Bad
        /\ pc = "submit" => task[t] = "done"

\* Nothing is submitted before all are collected.
StartInv == pc = "collect" => at = 1 /\ accepted = {} /\ failures = 0

\* The submission loop has counted or submitted every target it has passed.
SubmitInv ==
    pc = "submit" =>
        /\ Good \cup Bad = Target
        /\ accepted = Good \cap 1..(at - 1)
        /\ failures = Cardinality(Bad \cap 1..(at - 1))

IInv == TypeOK /\ CollectInv /\ StartInv /\ SubmitInv /\ StateMatchesServer
-----------------------------------------------------------------------------
(* The pure operators of delta.rs. *)

(* Nothing is an empty content, and has the checksums of one.                *)
LEMMA NothingTyped == Nothing \in Content /\ Nothing \in Sums
BY DEF Nothing, Content, Sums

(* The files that are absent and cut short have no checksums.                *)
LEMMA StateFileTyped ==
    /\ Absent \in StateFile /\ Absent.kind = "absent"
    /\ Torn \in StateFile /\ Torn.kind = "torn"
    /\ \A st \in InventoryState : /\ Saved(st) \in StateFile
                                  /\ Saved(st).kind = "saved" /\ Saved(st).state = st
BY NothingTyped DEF Absent, Torn, Saved, StateFile, InventoryState

(* Hashing a content yields checksums.                                      *)
LEMMA SumsTyped ==
    ASSUME NEW c \in Content
    PROVE  section_checksums(c) \in Sums
<1>1. \A s \in Section : c[s] \in Value \cup {Missing}
  BY DEF Content
<1>2. \A s \in Section : SumOf(c[s]) \in Digest \cup {Missing}
  BY <1>1 DEF SumOf
<1>3. QED
  BY <1>2 DEF section_checksums, Sums

(* What `plan` decides about a content: a state of its checksums to save, in *)
(* full when there is no saved state, in part with the sections that differ. *)
LEMMA PlanFacts ==
    ASSUME NEW c \in Content, NEW prev \in StateFile
    PROVE  /\ plan(c, prev).content = c
           /\ plan(c, prev).state \in InventoryState
           /\ plan(c, prev).state.checksums = section_checksums(c)
           /\ \/ plan(c, prev).mode = "full"
              \/ /\ plan(c, prev).mode = "partial" /\ prev.kind # "absent"
                 /\ plan(c, prev).changed = Changed(c, prev)
<1>1. section_checksums(c) \in Sums
  BY SumsTyped
<1>2. CASE ForceFull(prev)
  <2>1. plan(c, prev) = [mode |-> "full", content |-> c, changed |-> Present(c),
                         state |-> [checksums |-> section_checksums(c), since_full |-> 0]]
    BY <1>2 DEF plan
  <2>2. QED
    BY <1>1, <2>1 DEF InventoryState
<1>3. CASE ~ForceFull(prev)
  <2>1. plan(c, prev) = [mode |-> "partial", content |-> c, changed |-> Changed(c, prev),
                         state |-> [checksums |-> section_checksums(c),
                                    since_full |-> prev.state.since_full + 1]]
    BY <1>3 DEF plan
  <2>2. prev.kind # "absent" /\ prev.state.since_full + 1 \in 0..MaxPostpone
    BY <1>3 DEF ForceFull, StateFile, InventoryState
  <2>3. QED
    BY <1>1, <2>1, <2>2 DEF InventoryState
<1>4. QED
  BY <1>2, <1>3

(* A server that takes a submission holds an inventory.                     *)
LEMMA MergeTyped ==
    ASSUME NEW held \in Content, NEW c \in Content, NEW prev \in StateFile
    PROVE  Merge(held, plan(c, prev)) \in Content
BY PlanFacts DEF Merge, Content

(* The heart of the protocol: a server that agrees with the saved state      *)
(* agrees with the new one after the submission that was planned from it.    *)
LEMMA PlanAgrees ==
    ASSUME NEW held \in Content, NEW c \in Content, NEW prev \in StateFile,
           plan(c, prev).mode = "full" \/ Agrees(held, prev.state.checksums)
    PROVE  Agrees(Merge(held, plan(c, prev)), plan(c, prev).state.checksums)
<1> DEFINE p == plan(c, prev)
<1>1. /\ p.content = c /\ p.state.checksums = section_checksums(c)
      /\ p.mode = "full" \/ p.changed = Changed(c, prev)
  <2>1. /\ plan(c, prev).content = c /\ plan(c, prev).state.checksums = section_checksums(c)
        /\ plan(c, prev).mode = "full" \/ plan(c, prev).changed = Changed(c, prev)
    BY PlanFacts
  <2>2. QED
    BY <2>1, Zenon
<1> HIDE DEF p
<1> SUFFICES ASSUME NEW s \in Section, section_checksums(c)[s] # Missing
             PROVE  SumOf(Merge(held, p)[s]) = section_checksums(c)[s]
  BY <1>1 DEF Agrees, p
<1>2. section_checksums(c)[s] = SumOf(c[s]) /\ c[s] # Missing
  BY DEF section_checksums, SumOf
<1>3. CASE p.mode = "full"
  BY <1>1, <1>2, <1>3 DEF Merge
<1>4. CASE p.mode # "full" /\ s \in p.changed
  BY <1>1, <1>2, <1>4 DEF Merge
<1>5. CASE p.mode # "full" /\ s \notin p.changed
  <2>1. Merge(held, p)[s] = held[s]
    BY <1>5 DEF Merge
  <2>2. prev.state.checksums[s] = section_checksums(c)[s]
    BY <1>1, <1>2, <1>5 DEF Changed, Present
  <2>3. SumOf(held[s]) = prev.state.checksums[s]
    BY <1>5, <2>2 DEF Agrees, p
  <2>4. QED
    BY <2>1, <2>2, <2>3
<1>6. QED
  BY <1>3, <1>4, <1>5
-----------------------------------------------------------------------------
(* What a connection delivers. *)

AnswersSet == [1..Len(Linux) -> {"whole", "cut", "none"}]

(* There are so many commands.                                             *)
LEMMA LinuxLen == Len(Linux) \in Nat
BY DEF Linux

(* Whatever breaks, a command is answered, in part or not at all.            *)
LEMMA AnswersTyped ==
    /\ Healthy \in AnswersSet /\ Unreachable \in AnswersSet
    /\ Answers \subseteq AnswersSet
<1>1. Healthy \in AnswersSet /\ Unreachable \in AnswersSet
  BY DEF Healthy, Unreachable, AnswersSet
<1>2. \A n \in 1..Len(Linux) : Broken(n) \subseteq AnswersSet
  BY DEF Broken, AnswersSet
<1>3. \A a, b \in 1..Len(Linux) :
        [i \in 1..Len(Linux) |-> IF i \in a..b THEN "none" ELSE "whole"] \in AnswersSet
  BY DEF AnswersSet
<1> SUFFICES ASSUME NEW a \in Answers
             PROVE  a \in AnswersSet
  BY <1>1
<1>4. CASE transport = "russh"
  <2>1. PICK n \in 1..Len(Linux) : a \in Broken(n)
    BY <1>4 DEF Answers
  <2>2. QED
    BY <1>2, <2>1
<1>5. CASE transport # "russh"
  BY <1>3, <1>5 DEF Answers
<1>6. QED
  BY <1>4, <1>5

(* Asking a host for a command it has or has not.                           *)
LEMMA AskTyped ==
    ASSUME NEW h \in Host, NEW answers \in AnswersSet, NEW command
    PROVE  try_run(h, answers, command) \in {"whole", "cut", "none"}
<1>1. CASE command \in Installed[h]
  <2>1. \E i \in 1..Len(Linux) : Linux[i] = command
    BY <1>1 DEF Command
  <2>2. (CHOOSE i \in 1..Len(Linux) : Linux[i] = command) \in 1..Len(Linux)
    BY <2>1
  <2>3. QED
    BY <1>1, <2>2 DEF try_run, AnswersSet
<1>2. QED
  BY <1>1 DEF try_run

(* The inventory of a host has a content, whatever became of its connection. *)
LEMMA CollectTyped ==
    ASSUME NEW h \in Host, NEW answers \in AnswersSet
    PROVE  collect(h, answers) \in Content
<1> SUFFICES ASSUME NEW s \in Section
             PROVE  collect(h, answers)[s] \in Value \cup {Missing}
  BY DEF Content, collect
<1>1. \A command : Section1(try_run(h, answers, command)) \in Value \cup {Missing}
  BY AskTyped DEF Section1
<1>2. try_run(h, answers, "ip addr") \in {"whole", "cut", "none"}
  BY AskTyped
<1>3. CASE s = "softwares"
  BY <1>1, <1>3 DEF collect
<1>4. CASE s = "printers"
  BY <1>1, <1>4 DEF collect
<1>5. CASE s = "networks" /\ try_run(h, answers, "ip link") = "whole"
  BY <1>2, <1>5 DEF collect
<1>6. CASE s \notin {"softwares", "printers"}
           /\ ~(s = "networks" /\ try_run(h, answers, "ip link") = "whole")
  BY <1>1, <1>6 DEF collect
<1>7. QED
  BY <1>3, <1>4, <1>5, <1>6

(* A host that was reached is collected under some device, or failed.        *)
LEMMA HostTyped ==
    ASSUME NEW h \in Host, NEW answers \in AnswersSet
    PROVE  /\ inventory_remote_host(h, answers) \in Result
           /\ inventory_remote_host(h, answers).kind \in {"ok", "failed"}
<1>1. resolve(h, answers) \in Device
  BY DEF resolve
<1>2. collect(h, answers) \in Content
  BY CollectTyped
<1>3. QED
  BY <1>1, <1>2 DEF inventory_remote_host, Failed, Collected, Result
-----------------------------------------------------------------------------
(* Nothing is known of any device at first.                                 *)
THEOREM InitInv == Init => IInv
<1> SUFFICES ASSUME Init PROVE IInv
  OBVIOUS
<1>1. /\ files \in [File -> StateFile] /\ view \in [Device -> Content]
  BY NothingTyped, StateFileTyped DEF Init
<1>2. result \in [Target -> Result] /\ task \in [Target -> TaskState]
  BY DEF Init, Result, TaskState
<1>3. known \in [Host -> 0..2] /\ key \in [Host -> 1..2]
  BY DEF Init
<1>4. at \in 1..(NumTargets + 1) /\ faults \in 0..MaxFaults /\ failures \in Nat
  <2>1. at = 1 /\ faults = 0 /\ failures = 0
    BY DEF Init
  <2>2. QED
    BY <2>1
<1>5. TypeOK
  BY <1>1, <1>2, <1>3, <1>4 DEF Init, TypeOK, StateFile, TaskState
<1>6. CollectInv /\ StartInv /\ SubmitInv
  BY DEF Init, CollectInv, StartInv, SubmitInv
<1>7. StateMatchesServer
  BY StateFileTyped DEF Init, StateMatchesServer
<1>8. QED
  BY <1>5, <1>6, <1>7 DEF IInv
-----------------------------------------------------------------------------
(* Setting one component of a function leaves the others.                    *)
LEMMA ExceptFacts ==
    ASSUME NEW D, NEW R, NEW f \in [D -> R], NEW x \in D, NEW y \in R, NEW g,
           g = [f EXCEPT ![x] = y]
    PROVE  g \in [D -> R] /\ g[x] = y /\ \A z \in D : z # x => g[z] = f[z]
OBVIOUS

(* A task that ends leaves its result, and nothing is submitted meanwhile.   *)
LEMMA EndTaskStep ==
    ASSUME IInv, NEW t \in Target, NEW r \in Result, r.kind \in {"ok", "failed"},
           EndTask(t, r), known' \in [Host -> 0..2], faults' \in 0..MaxFaults
    PROVE  IInv'
<1>1. /\ task[t] = "running" /\ task' = [task EXCEPT ![t] = "done"]
      /\ result' = [result EXCEPT ![t] = r]
      /\ UNCHANGED <<pc, transport, at, accepted, failures, exit, key, files, view, diverged>>
  BY DEF EndTask
<1>2. /\ result' \in [Target -> Result] /\ result'[t] = r
      /\ \A u \in Target : u # t => result'[u] = result[u]
  <2>1. result \in [Target -> Result]
    BY DEF IInv, TypeOK
  <2>2. QED
    BY <1>1, <2>1, ExceptFacts
<1>3. /\ task' \in [Target -> TaskState]
      /\ \A u \in Target : u # t => task'[u] = task[u]
  BY <1>1 DEF IInv, TypeOK, TaskState
<1>4. TypeOK'
  BY <1>1, <1>2, <1>3 DEF IInv, TypeOK, TaskState
<1>5. CollectInv'
  BY <1>1, <1>2, <1>3 DEF IInv, CollectInv, Good, Bad
<1>6. pc # "submit"
  BY <1>1 DEF IInv, CollectInv
<1>7. QED
  BY <1>1, <1>4, <1>5, <1>6 DEF IInv, StartInv, SubmitInv, StateMatchesServer, OwnFile

(* One more target of a set is passed, or a target that is not in it.        *)
LEMMA CountNext ==
    ASSUME NEW S \in SUBSET Target, NEW n \in Target
    PROVE  /\ IsFiniteSet(S \cap 1..(n - 1)) /\ Cardinality(S \cap 1..(n - 1)) \in Nat
           /\ n \in S => /\ S \cap 1..n = (S \cap 1..(n - 1)) \cup {n}
                         /\ Cardinality(S \cap 1..n) = Cardinality(S \cap 1..(n - 1)) + 1
           /\ n \notin S => S \cap 1..n = S \cap 1..(n - 1)
<1>1. NumTargets \in Nat /\ n \in 1..NumTargets /\ S \subseteq 1..NumTargets
  BY DEF Target
<1>2. IsFiniteSet(1..(n - 1))
  BY <1>1, FS_Interval
<1>3. /\ IsFiniteSet(S \cap 1..(n - 1)) /\ Cardinality(S \cap 1..(n - 1)) \in Nat
  <2>1. IsFiniteSet(S \cap 1..(n - 1))
    BY <1>2, FS_Intersection
  <2>2. QED
    BY <2>1, FS_CardinalityType
<1>4. ASSUME NEW k PROVE k \in 1..n <=> (k \in 1..(n - 1) \/ k = n)
  <2>1. n \in Int /\ 1 <= n
    BY <1>1
  <2>2. CASE k \in Int
    BY <2>1, <2>2
  <2>3. CASE k \notin Int
    BY <2>1, <2>3
  <2>4. QED
    BY <2>2, <2>3
<1>5. CASE n \in S
  <2>1. S \cap 1..n = (S \cap 1..(n - 1)) \cup {n}
    BY <1>4, <1>5
  <2>2. n \notin S \cap 1..(n - 1)
    BY <1>1
  <2>3. Cardinality((S \cap 1..(n - 1)) \cup {n}) = Cardinality(S \cap 1..(n - 1)) + 1
    BY <1>3, <2>2, FS_AddElement
  <2>4. QED
    BY <1>3, <1>5, <2>1, <2>3
<1>6. CASE n \notin S
  BY <1>3, <1>4, <1>6
<1>7. QED
  BY <1>5, <1>6

(* The result the submission loop is at is of a device and a content.        *)
LEMMA HereFacts ==
    ASSUME TypeOK, Here("ok")
    PROVE  /\ pc = "submit" /\ at \in Target /\ at \in Good /\ at \notin Bad
           /\ result[at].device \in Device /\ result[at].content \in Content
           /\ FileHere \in File /\ files[FileHere] \in StateFile
           /\ FileHere = FileOf[result[at].device]
           /\ view[result[at].device] \in Content
<1>1. at \in Target /\ result[at].kind = "ok" /\ pc = "submit"
  <2>1. at \in 1..(NumTargets + 1) /\ at <= NumTargets /\ result[at].kind = "ok"
        /\ pc = "submit"
    BY DEF TypeOK, Here
  <2>2. QED
    BY <2>1 DEF Target
<1>2. result[at] \in [kind : {"ok"}, device : Device, content : Content]
  BY <1>1 DEF TypeOK, Result, NoResult, Failed
<1>3. QED
  BY <1>1, <1>2 DEF TypeOK, FileHere, Good, Bad, StateFile

(* A run ends with nothing running, and keeps the results it had.            *)
LEMMA AbortStep ==
    ASSUME IInv, Here("ok"), Abort, files' \in [File -> StateFile],
           view' \in [Device -> Content], diverged' \subseteq Device,
           faults' \in 0..MaxFaults, StateMatchesServer'
    PROVE  IInv'
<1>1. TypeOK'
  BY DEF Abort, IInv, TypeOK, StateFile, Here
<1>2. CollectInv'
  BY DEF Abort, IInv, CollectInv, Here
<1>3. StartInv' /\ SubmitInv'
  BY DEF Abort, StartInv, SubmitInv
<1>4. QED
  BY <1>1, <1>2, <1>3 DEF IInv

(* After the submission of a device, its file and its view agree, and those  *)
(* of every device that has a file of its own are as they were.              *)
LEMMA SubmitAgrees ==
    ASSUME IInv, Submit
    PROVE  /\ files' \in [File -> StateFile] /\ view' \in [Device -> Content]
           /\ StateMatchesServer'
<1> DEFINE e == result[at].device
           c == result[at].content
           prev == files[FileOf[e]]
<1>1. /\ e \in Device /\ c \in Content /\ prev \in StateFile /\ FileOf[e] \in File
      /\ FileHere = FileOf[e] /\ view[e] \in Content
  BY HereFacts DEF Submit, IInv
<1>2. /\ PlanHere = plan(c, prev) /\ prev.kind # "torn"
      /\ view' = [view EXCEPT ![e] = Merge(view[e], plan(c, prev))]
      /\ files' = [files EXCEPT ![FileOf[e]] = Saved(plan(c, prev).state)]
      /\ diverged' = IF plan(c, prev).mode = "full" THEN diverged \ {e} ELSE diverged
  BY <1>1 DEF Submit, Post, PlanHere
<1>3. Merge(view[e], plan(c, prev)) \in Content
  BY <1>1, MergeTyped
<1>4. /\ plan(c, prev).state \in InventoryState
      /\ plan(c, prev).mode = "full" \/ prev.kind = "saved"
  BY <1>1, <1>2, PlanFacts DEF StateFile
<1>5. /\ Saved(plan(c, prev).state) \in StateFile
      /\ Saved(plan(c, prev).state).state = plan(c, prev).state
  BY <1>4, StateFileTyped
<1>6. /\ files \in [File -> StateFile] /\ view \in [Device -> Content]
  BY DEF IInv, TypeOK, StateFile
<1> HIDE DEF e, c, prev
<1>7. /\ files' \in [File -> StateFile] /\ view' \in [Device -> Content]
      /\ view'[e] = Merge(view[e], plan(c, prev))
      /\ \A d \in Device : d # e => view'[d] = view[d]
      /\ files'[FileOf[e]] = Saved(plan(c, prev).state)
      /\ \A f \in File : f # FileOf[e] => files'[f] = files[f]
  BY <1>1, <1>2, <1>3, <1>5, <1>6
<1>8. ASSUME NEW d \in Device, OwnFile(d), d \notin diverged',
             files'[FileOf[d]].kind = "saved"
      PROVE  Agrees(view'[d], files'[FileOf[d]].state.checksums)
  <2>1. CASE d = e
    <3>1. plan(c, prev).mode = "full" \/ (d \notin diverged /\ prev.kind = "saved")
      BY <1>2, <1>4, <1>8
    <3>2. plan(c, prev).mode = "full" \/ Agrees(view[e], prev.state.checksums)
      BY <1>8, <2>1, <3>1 DEF IInv, StateMatchesServer, prev
    <3>3. Agrees(Merge(view[e], plan(c, prev)), plan(c, prev).state.checksums)
      BY <1>1, <3>2, PlanAgrees
    <3>4. QED
      BY <1>5, <1>7, <2>1, <3>3
  <2>2. CASE d # e
    <3>1. FileOf[d] # FileOf[e] /\ FileOf[d] \in File
      BY <1>1, <1>8, <2>2 DEF OwnFile
    <3>2. view'[d] = view[d] /\ files'[FileOf[d]] = files[FileOf[d]]
      BY <1>7, <2>2, <3>1
    <3>3. d \notin diverged
      BY <1>2, <1>8, <2>2
    <3>4. QED
      BY <1>8, <3>2, <3>3 DEF IInv, StateMatchesServer
  <2>3. QED
    BY <2>1, <2>2
<1>9. QED
  BY <1>7, <1>8 DEF StateMatchesServer, OwnFile

(* A submission that was applied and not saved marks its device.             *)
LEMMA NotSavedAgrees ==
    ASSUME IInv, NotSaved
    PROVE  /\ files' \in [File -> StateFile] /\ view' \in [Device -> Content]
           /\ diverged' \subseteq Device /\ StateMatchesServer'
<1> DEFINE e == result[at].device
           c == result[at].content
           prev == files[FileOf[e]]
<1>1. /\ e \in Device /\ c \in Content /\ prev \in StateFile /\ FileOf[e] \in File
      /\ FileHere = FileOf[e] /\ view[e] \in Content
  BY HereFacts DEF NotSaved, IInv
<1>2. /\ view' = [view EXCEPT ![e] = Merge(view[e], plan(c, prev))]
      /\ files' = files \/ files' = [files EXCEPT ![FileOf[e]] = Torn]
      /\ diverged' = diverged \cup {e}
  BY <1>1 DEF NotSaved, Post, PlanHere
<1>3. Merge(view[e], plan(c, prev)) \in Content /\ Torn \in StateFile
  BY <1>1, MergeTyped, StateFileTyped
<1>4. /\ files \in [File -> StateFile] /\ view \in [Device -> Content]
      /\ diverged \subseteq Device
  BY DEF IInv, TypeOK, StateFile
<1> HIDE DEF e, c, prev
<1>5. /\ files' \in [File -> StateFile] /\ view' \in [Device -> Content]
      /\ \A d \in Device : d # e => view'[d] = view[d]
      /\ \A f \in File : f # FileOf[e] => files'[f] = files[f]
  BY <1>1, <1>2, <1>3, <1>4
<1>6. ASSUME NEW d \in Device, OwnFile(d), d \notin diverged',
             files'[FileOf[d]].kind = "saved"
      PROVE  Agrees(view'[d], files'[FileOf[d]].state.checksums)
  <2>1. d # e /\ d \notin diverged
    BY <1>2, <1>6
  <2>2. FileOf[d] # FileOf[e] /\ FileOf[d] \in File
    BY <1>1, <1>6, <2>1 DEF OwnFile
  <2>3. view'[d] = view[d] /\ files'[FileOf[d]] = files[FileOf[d]]
    BY <1>5, <2>1, <2>2
  <2>4. QED
    BY <1>6, <2>1, <2>3 DEF IInv, StateMatchesServer
<1>7. QED
  BY <1>1, <1>2, <1>4, <1>5, <1>6 DEF StateMatchesServer, OwnFile
-----------------------------------------------------------------------------
(* A task that panics leaves no result, and nothing is submitted meanwhile.  *)
LEMMA PanicStep ==
    ASSUME IInv, NEW t \in Target, Panics(t)
    PROVE  IInv'
<1>1. /\ task[t] = "running" /\ task' = [task EXCEPT ![t] = "panicked"]
      /\ UNCHANGED <<pc, transport, result, at, accepted, failures, exit, key, files, view,
                      diverged>>
  BY DEF Panics
<1>2. faults' \in 0..MaxFaults
  <2>1. faults \in 0..MaxFaults /\ faults' = faults + 1 /\ faults < MaxFaults
    BY DEF IInv, TypeOK, Panics, Fault
  <2>2. QED
    BY <2>1
<1>3. known' \in [Host -> 0..2]
  <2>1. known' = known \/ known' = [known EXCEPT ![HostOf[t]] = key[HostOf[t]]]
    BY DEF Panics, Learn
  <2>2. known \in [Host -> 0..2] /\ key[HostOf[t]] \in 0..2
    BY DEF IInv, TypeOK
  <2>3. QED
    BY <2>1, <2>2
<1>4. /\ task' \in [Target -> TaskState] /\ task'[t] = "panicked"
      /\ \A u \in Target : u # t => task'[u] = task[u]
  BY <1>1 DEF IInv, TypeOK, TaskState
<1>5. TypeOK'
  BY <1>1, <1>2, <1>3, <1>4 DEF IInv, TypeOK, TaskState
<1>6. pc = "collect"
  BY <1>1 DEF IInv, CollectInv
<1>7. CollectInv'
  BY <1>1, <1>4, <1>6 DEF IInv, CollectInv, Good, Bad
<1>8. QED
  BY <1>1, <1>5, <1>6, <1>7 DEF IInv, StartInv, SubmitInv, StateMatchesServer, OwnFile

(* The run that a panic ends leaves no task running.                         *)
LEMMA JoinFailsStep ==
    ASSUME IInv, JoinFails
    PROVE  IInv'
<1>1. /\ pc = "collect" /\ pc' = "idle" /\ exit' = "panicked"
      /\ task' = [t \in Target |->
                     IF task[t] \in {"queued", "running"} THEN "aborted" ELSE task[t]]
      /\ UNCHANGED <<transport, result, at, accepted, failures, known, key, files, view,
                      diverged, faults>>
  BY DEF JoinFails
<1>2. task' \in [Target -> TaskState] /\ \A t \in Target : task'[t] # "running"
  BY <1>1 DEF IInv, TypeOK, TaskState
<1>3. TypeOK'
  BY <1>1, <1>2 DEF IInv, TypeOK, TaskState
<1>4. QED
  BY <1>1, <1>2, <1>3 DEF IInv, CollectInv, StartInv, SubmitInv, StateMatchesServer, OwnFile

(* Collecting: the tasks of the run, and what happens to the machines.        *)
LEMMA StepCollect ==
    ASSUME IInv,
           \/ \E h \in Host : Reinstall(h)
           \/ StartRun
           \/ \E t \in Target : \/ Acquire(t) \/ ConnectFails(t) \/ Collect(t)
                                \/ CollectRefused(t) \/ CollectBroken(t) \/ Panics(t)
           \/ Joined
           \/ JoinFails
    PROVE  IInv'
<1>1. ASSUME NEW h \in Host, Reinstall(h) PROVE IInv'
  <2>1. key' \in [Host -> 1..2] /\ faults' \in 0..MaxFaults
    <3>1. key \in [Host -> 1..2] /\ faults \in 0..MaxFaults
      BY DEF IInv, TypeOK
    <3>2. key' = [key EXCEPT ![h] = 2] /\ faults' = faults + 1 /\ faults < MaxFaults
      BY <1>1 DEF Reinstall, Fault
    <3>3. QED
      BY <3>1, <3>2
  <2>2. UNCHANGED <<pc, transport, task, result, at, accepted, failures, exit, known, files,
                    view, diverged>>
    BY <1>1 DEF Reinstall
  <2>3. TypeOK'
    BY <2>1, <2>2 DEF IInv, TypeOK
  <2>4. QED
    BY <2>2, <2>3 DEF IInv, CollectInv, StartInv, SubmitInv, StateMatchesServer, OwnFile, Good, Bad
<1>2. CASE StartRun
  <2>1. /\ pc' = "collect" /\ transport' \in Transports
        /\ task' = [t \in Target |-> "queued"] /\ result' = [t \in Target |-> NoResult]
        /\ at' = 1 /\ accepted' = {} /\ failures' = 0
        /\ UNCHANGED <<exit, known, key, files, view, diverged, faults>>
    BY <1>2 DEF StartRun
  <2>2. at' \in 1..(NumTargets + 1) /\ failures' \in Nat
    BY <2>1
  <2>3. /\ task' \in [Target -> TaskState]
        /\ result' \in [Target -> Result]
    BY <2>1 DEF Result, TaskState
  <2>4. TypeOK'
    BY <2>1, <2>2, <2>3 DEF IInv, TypeOK, TaskState
  <2>5. QED
    BY <2>1, <2>4 DEF IInv, CollectInv, StartInv, SubmitInv, StateMatchesServer, OwnFile
<1>3. ASSUME NEW t \in Target, Acquire(t) PROVE IInv'
  <2>1. /\ pc = "collect" /\ task' = [task EXCEPT ![t] = "running"]
        /\ UNCHANGED <<pc, transport, result, at, accepted, failures, exit, known, key, files,
                        view, diverged, faults>>
    BY <1>3 DEF Acquire
  <2>2. /\ task' \in [Target -> TaskState] /\ task'[t] = "running"
        /\ \A u \in Target : u # t => task'[u] = task[u]
    BY <2>1 DEF IInv, TypeOK, TaskState
  <2>3. TypeOK'
    BY <2>1, <2>2 DEF IInv, TypeOK, TaskState
  <2>4. CollectInv'
    BY <2>1, <2>2 DEF IInv, CollectInv, Good, Bad
  <2>5. QED
    BY <2>1, <2>3, <2>4 DEF IInv, StartInv, SubmitInv, StateMatchesServer, OwnFile
<1>4. ASSUME NEW t \in Target,
             ConnectFails(t) \/ Collect(t) \/ CollectRefused(t) \/ CollectBroken(t)
      PROVE  IInv'
  <2>1. HostOf[t] \in Host
    OBVIOUS
  <2>2. faults' \in 0..MaxFaults
    <3>1. faults \in 0..MaxFaults
      BY DEF IInv, TypeOK
    <3>2. faults' = faults \/ (faults' = faults + 1 /\ faults < MaxFaults)
      BY <1>4 DEF ConnectFails, Collect, CollectRefused, CollectBroken, Fault
    <3>3. QED
      BY <3>1, <3>2
  <2>3. known' \in [Host -> 0..2]
    <3>1. known' = known \/ known' = [known EXCEPT ![HostOf[t]] = key[HostOf[t]]]
      BY <1>4 DEF ConnectFails, Collect, CollectRefused, CollectBroken, Learn
    <3>2. known \in [Host -> 0..2] /\ key[HostOf[t]] \in 0..2
      BY <2>1 DEF IInv, TypeOK
    <3>3. QED
      BY <3>1, <3>2
  <2>4. PICK r \in Result : r.kind \in {"ok", "failed"} /\ EndTask(t, r)
    <3>1. CASE ConnectFails(t)
      BY <3>1 DEF ConnectFails, Failed, Result
    <3>2. CASE Collect(t)
      BY <2>1, <3>2, HostTyped, AnswersTyped DEF Collect
    <3>3. CASE CollectRefused(t)
      BY <2>1, <3>3, HostTyped, AnswersTyped DEF CollectRefused
    <3>4. CASE CollectBroken(t)
      <4>1. PICK answers \in Answers : EndTask(t, inventory_remote_host(HostOf[t], answers))
        BY <3>4 DEF CollectBroken
      <4>2. QED
        BY <2>1, <4>1, HostTyped, AnswersTyped
    <3>5. QED
      BY <1>4, <3>1, <3>2, <3>3, <3>4
  <2>5. QED
    BY <2>2, <2>3, <2>4, EndTaskStep
<1>5. CASE Joined
  <2>1. /\ pc = "collect" /\ \A t \in Target : task[t] = "done" /\ pc' = "submit"
        /\ UNCHANGED <<transport, task, result, at, accepted, failures, exit, known, key,
                        files, view, diverged, faults>>
    BY <1>5 DEF Joined
  <2>2. TypeOK'
    <3>1. /\ pc' = "submit"
          /\ UNCHANGED <<transport, task, result, at, accepted, failures, exit, known, key,
                          files, view, diverged, faults>>
      BY <1>5 DEF Joined
    <3>2. QED
      BY <3>1 DEF IInv, TypeOK
  <2>3. CollectInv' /\ Good' = Good /\ Bad' = Bad
    BY <2>1 DEF CollectInv, Good, Bad
  <2>4. Good \cup Bad = Target
    BY <2>1 DEF IInv, CollectInv, Good, Bad
  <2>5. at = 1 /\ accepted = {} /\ failures = 0 /\ 1..(at - 1) = {}
    BY <2>1 DEF IInv, StartInv
  <2>6. StartInv' /\ SubmitInv'
    BY <2>1, <2>3, <2>4, <2>5, FS_EmptySet DEF StartInv, SubmitInv
  <2>7. QED
    BY <2>1, <2>2, <2>3, <2>6 DEF IInv, StateMatchesServer, OwnFile
<1>6. ASSUME NEW t \in Target, Panics(t) PROVE IInv'
  BY <1>6, PanicStep
<1>7. CASE JoinFails
  BY <1>7, JoinFailsStep
<1>8. QED
  BY <1>1, <1>2, <1>3, <1>4, <1>5, <1>6, <1>7

(* Submitting: the loop of a run and its exit.                              *)
LEMMA StepSubmit ==
    ASSUME IInv, CountFailure \/ Submit \/ Malformed \/ Refused \/ NotSaved \/ Finish
    PROVE  IInv'
<1>1. Good \in SUBSET Target /\ Bad \in SUBSET Target /\ NumTargets \in Nat
  BY DEF Good, Bad
<1>2. ASSUME CountFailure \/ Submit
      PROVE  /\ at \in Target /\ pc = "submit" /\ pc' = "submit" /\ at' = at + 1
             /\ at \in Nat /\ at' - 1 = at /\ at' \in 1..(NumTargets + 1)
             /\ UNCHANGED <<transport, task, result, exit, known, key, faults>>
             /\ Good' = Good /\ Bad' = Bad
             /\ Good \cup Bad = Target /\ accepted = Good \cap 1..(at - 1)
             /\ failures = Cardinality(Bad \cap 1..(at - 1))
  <2>1. /\ pc = "submit" /\ pc' = "submit" /\ at' = at + 1 /\ at <= NumTargets
        /\ UNCHANGED <<transport, task, result, exit, known, key, faults>>
    BY <1>2 DEF CountFailure, Submit, Here
  <2>2. at \in 1..(NumTargets + 1)
    BY DEF IInv, TypeOK
  <2>3. at \in Target /\ at \in Nat /\ at' - 1 = at /\ at' \in 1..(NumTargets + 1)
    BY <1>1, <2>1, <2>2 DEF Target
  <2>4. Good' = Good /\ Bad' = Bad
    BY <2>1 DEF Good, Bad
  <2>5. /\ Good \cup Bad = Target /\ accepted = Good \cap 1..(at - 1)
        /\ failures = Cardinality(Bad \cap 1..(at - 1))
    BY <2>1 DEF IInv, SubmitInv
  <2>6. QED
    BY <2>1, <2>3, <2>4, <2>5
<1>3. CASE CountFailure
  <2>1. at \in Bad /\ at \notin Good
    BY <1>2, <1>3 DEF CountFailure, Here, Good, Bad
  <2>2. /\ UNCHANGED <<accepted, files, view, diverged>> /\ failures' = failures + 1
    BY <1>3 DEF CountFailure
  <2>3. /\ Good \cap 1..at = Good \cap 1..(at - 1)
        /\ Cardinality(Bad \cap 1..at) = Cardinality(Bad \cap 1..(at - 1)) + 1
    BY <1>1, <1>2, <1>3, <2>1, CountNext
  <2>4. accepted' = Good' \cap 1..(at' - 1) /\ failures' = Cardinality(Bad' \cap 1..(at' - 1))
    BY <1>2, <1>3, <2>2, <2>3
  <2>5. SubmitInv' /\ StartInv'
    BY <1>2, <1>3, <2>4 DEF SubmitInv, StartInv
  <2>6. failures' \in Nat
    BY <2>2 DEF IInv, TypeOK
  <2>7. TypeOK'
    BY <1>2, <1>3, <2>2, <2>6 DEF IInv, TypeOK
  <2>8. CollectInv'
    BY <1>2, <1>3 DEF IInv, CollectInv
  <2>9. StateMatchesServer'
    BY <2>2 DEF IInv, StateMatchesServer, OwnFile
  <2>10. QED
    BY <2>5, <2>7, <2>8, <2>9 DEF IInv
<1>4. CASE Submit
  <2>1. at \in Good /\ at \notin Bad
    BY <1>4, HereFacts DEF Submit, IInv
  <2>2. /\ accepted' = accepted \cup {at} /\ failures' = failures
        /\ diverged' \subseteq diverged
    BY <1>4 DEF Submit
  <2>3. /\ Good \cap 1..at = (Good \cap 1..(at - 1)) \cup {at}
        /\ Bad \cap 1..at = Bad \cap 1..(at - 1)
    BY <1>1, <1>2, <1>4, <2>1, CountNext
  <2>4. accepted' = Good' \cap 1..(at' - 1) /\ failures' = Cardinality(Bad' \cap 1..(at' - 1))
    BY <1>2, <1>4, <2>2, <2>3
  <2>5. SubmitInv' /\ StartInv'
    BY <1>2, <1>4, <2>4 DEF SubmitInv, StartInv
  <2>6. /\ files' \in [File -> StateFile] /\ view' \in [Device -> Content]
        /\ StateMatchesServer'
    BY <1>4, SubmitAgrees
  <2>7. TypeOK'
    BY <1>2, <1>4, <2>2, <2>6 DEF IInv, TypeOK, StateFile
  <2>8. CollectInv'
    BY <1>2, <1>4 DEF IInv, CollectInv
  <2>9. QED
    BY <2>5, <2>6, <2>7, <2>8 DEF IInv
<1>5. CASE Malformed \/ Refused
  <2>1. Here("ok") /\ Abort /\ UNCHANGED <<files, view, diverged>>
    BY <1>5 DEF Malformed, Refused
  <2>2. faults' \in 0..MaxFaults
    <3>1. faults \in 0..MaxFaults
      BY DEF IInv, TypeOK
    <3>2. faults' = faults \/ (faults' = faults + 1 /\ faults < MaxFaults)
      BY <1>5 DEF Malformed, Refused, Fault
    <3>3. QED
      BY <3>1, <3>2
  <2>3. StateMatchesServer'
    BY <2>1 DEF IInv, StateMatchesServer, OwnFile
  <2>4. /\ files' \in [File -> StateFile] /\ view' \in [Device -> Content]
        /\ diverged' \subseteq Device
    BY <2>1 DEF IInv, TypeOK, StateFile
  <2>5. QED
    BY <2>1, <2>2, <2>3, <2>4, AbortStep
<1>6. CASE NotSaved
  <2>1. Here("ok") /\ Abort
    BY <1>6 DEF NotSaved
  <2>2. faults' \in 0..MaxFaults
    <3>1. faults \in 0..MaxFaults
      BY DEF IInv, TypeOK
    <3>2. faults' = faults + 1 /\ faults < MaxFaults
      BY <1>6 DEF NotSaved, Fault
    <3>3. QED
      BY <3>1, <3>2
  <2>3. QED
    BY <1>6, <2>1, <2>2, NotSavedAgrees, AbortStep
<1>7. CASE Finish
  <2>1. PICK stale \in SUBSET File :
             files' = [f \in File |-> IF f \in stale THEN Absent ELSE files[f]]
    BY <1>7 DEF Finish
  <2>2. /\ pc = "submit" /\ pc' = "idle" /\ exit' \in {"ok", "failed"}
        /\ UNCHANGED <<transport, task, result, at, accepted, failures, known, key, view,
                        diverged, faults>>
    BY <1>7 DEF Finish
  <2>3. files' \in [File -> StateFile]
    BY <2>1, StateFileTyped DEF IInv, TypeOK, StateFile
  <2>4. TypeOK'
    BY <2>2, <2>3 DEF IInv, TypeOK, StateFile
  <2>5. CollectInv' /\ StartInv' /\ SubmitInv'
    BY <2>2 DEF IInv, CollectInv, StartInv, SubmitInv
  <2>6. StateMatchesServer'
    <3>1. ASSUME NEW d \in Device, files'[FileOf[d]].kind = "saved"
          PROVE  files'[FileOf[d]] = files[FileOf[d]]
      BY <2>1, <3>1, StateFileTyped
    <3>2. QED
      BY <2>2, <3>1 DEF IInv, StateMatchesServer, OwnFile
  <2>7. QED
    BY <2>4, <2>5, <2>6 DEF IInv
<1>8. QED
  BY <1>3, <1>4, <1>5, <1>6, <1>7

(* Every step keeps the invariant.                                          *)
THEOREM StepInv == IInv /\ [Next]_vars => IInv'
<1> SUFFICES ASSUME IInv, [Next]_vars PROVE IInv'
  OBVIOUS
<1>1. CASE UNCHANGED vars
  <2>1. TypeOK'
    BY <1>1 DEF vars, IInv, TypeOK
  <2>2. QED
    BY <1>1, <2>1 DEF vars, IInv, CollectInv, StartInv, SubmitInv, StateMatchesServer, OwnFile,
                      Good, Bad
<1>2. CASE Next
  BY <1>2, StepCollect, StepSubmit DEF Next
<1>3. QED
  BY <1>1, <1>2

(* The invariant holds in every state of any number of runs.                 *)
THEOREM Invariance == Spec => []IInv
BY InitInv, StepInv, PTL DEF Spec

(* The variables have their types.                                         *)
THEOREM TypeCorrect == Spec => []TypeOK
<1>1. IInv => TypeOK
  BY DEF IInv
<1>2. QED
  BY <1>1, Invariance, PTL

(* However the machines, their connections and the server behave, a state    *)
(* file never claims of a device what the server does not hold.              *)
THEOREM StateOfServer == Spec => []StateMatchesServer
<1>1. IInv => StateMatchesServer
  BY DEF IInv
<1>2. QED
  BY <1>1, Invariance, PTL

(* A run that ends has accounted for every target.                          *)
LEMMA ExitStep ==
    ASSUME IInv, [Next]_vars, pc # "idle", pc' = "idle"
    PROVE  LET good == {t \in Target : result[t].kind = "ok"}
           IN /\ exit' = "ok" => accepted = Target
              /\ exit' = "failed" =>
                    accepted = good /\ failures = NumTargets - Cardinality(good) /\ failures > 0
              /\ exit' = "aborted" => accepted = good \cap 1..(at - 1) /\ at \in good
              /\ exit' = "panicked" <=> \E t \in Target : task[t] = "panicked"
              /\ exit' = "panicked" => accepted = {} /\ UNCHANGED <<files, view>>
<1>1. JoinFails \/ Finish \/ (Here("ok") /\ Abort)
  <2>1. ~UNCHANGED vars
    BY DEF vars
  <2>2. /\ \A h \in Host : ~Reinstall(h)
        /\ ~StartRun /\ ~Joined /\ ~CountFailure /\ ~Submit
        /\ \A t \in Target : ~Acquire(t)
    BY DEF Reinstall, StartRun, Joined, CountFailure, Submit, Acquire
  <2>3. ASSUME NEW t \in Target
        PROVE  ~ConnectFails(t) /\ ~Collect(t) /\ ~CollectRefused(t) /\ ~CollectBroken(t)
               /\ ~Panics(t)
    <3>1. task[t] = "running" => pc = "collect"
      BY DEF IInv, CollectInv
    <3>2. QED
      BY <3>1 DEF ConnectFails, Collect, CollectRefused, CollectBroken, EndTask, Panics
  <2>4. QED
    BY <2>1, <2>2, <2>3 DEF Next, Malformed, Refused, NotSaved
<1>a. CASE JoinFails
  <2>1. /\ exit' = "panicked" /\ accepted = {} /\ UNCHANGED <<files, view>>
        /\ \E t \in Target : task[t] = "panicked"
    BY <1>a DEF JoinFails, IInv, StartInv
  <2>2. QED
    BY <2>1
<1> SUFFICES ASSUME Finish \/ (Here("ok") /\ Abort)
             PROVE  LET good == {t \in Target : result[t].kind = "ok"}
                    IN /\ exit' = "ok" => accepted = Target
                       /\ exit' = "failed" =>
                             /\ accepted = good /\ failures = NumTargets - Cardinality(good)
                             /\ failures > 0
                       /\ exit' = "aborted" => accepted = good \cap 1..(at - 1) /\ at \in good
                       /\ exit' # "panicked" /\ ~\E t \in Target : task[t] = "panicked"
  BY <1>1, <1>a
<1>b. pc = "submit" /\ exit' \in {"ok", "failed", "aborted"}
  BY DEF Finish, Abort, Here
<1>c. \A t \in Target : task[t] # "panicked"
  BY <1>b DEF IInv, CollectInv
<1>2. /\ Good \cup Bad = Target /\ Good \cap Bad = {} /\ accepted = Good \cap 1..(at - 1)
      /\ failures = Cardinality(Bad \cap 1..(at - 1)) /\ NumTargets \in Nat
      /\ Target = 1..NumTargets /\ at \in 1..(NumTargets + 1)
  BY <1>b DEF IInv, TypeOK, SubmitInv, Good, Bad, Target
<1>3. CASE Here("ok") /\ Abort
  BY <1>2, <1>3, <1>b, <1>c, HereFacts DEF Abort, Good, IInv
<1>4. CASE Finish
  <2>1. at = NumTargets + 1
    BY <1>2, <1>4 DEF Finish
  <2>2. 1..(at - 1) = Target
    BY <1>2, <2>1
  <2>3. accepted = Good /\ failures = Cardinality(Bad)
    BY <1>2, <2>2
  <2>4. IsFiniteSet(Target) /\ Cardinality(Target) = NumTargets
    BY <1>2, FS_Interval
  <2>5. /\ IsFiniteSet(Good) /\ IsFiniteSet(Bad)
        /\ Cardinality(Good) \in Nat /\ Cardinality(Bad) \in Nat
    <3>1. Good \in SUBSET Target /\ Bad \in SUBSET Target
      BY DEF Good, Bad
    <3>2. QED
      BY <2>4, <3>1, FS_Subset, FS_CardinalityType
  <2>6. Cardinality(Target) = Cardinality(Good) + Cardinality(Bad)
    <3>1. Cardinality(Good \cup Bad)
            = Cardinality(Good) + Cardinality(Bad) - Cardinality(Good \cap Bad)
      BY <2>5, FS_Union
    <3>2. Cardinality(Good \cap Bad) = 0 /\ Good \cup Bad = Target
      BY <1>2, FS_EmptySet
    <3>3. Cardinality(Target) = Cardinality(Good) + Cardinality(Bad) - 0
      BY <3>1, <3>2
    <3>4. QED
      BY <2>5, <3>3
  <2>7. failures = NumTargets - Cardinality(Good)
    BY <2>3, <2>4, <2>5, <2>6
  <2>8. exit' = IF failures > 0 THEN "failed" ELSE "ok"
    BY <1>4 DEF Finish
  <2>9. exit' = "ok" => accepted = Target
    <3>1. CASE exit' = "ok"
      <4>1. Cardinality(Bad) = 0
        BY <2>3, <2>5, <2>8, <3>1
      <4>2. Bad = {}
        BY <2>5, <4>1, FS_EmptySet
      <4>3. QED
        BY <1>2, <2>3, <4>2
    <3>2. QED
      BY <3>1
  <2>10. QED
    BY <1>b, <1>c, <2>3, <2>7, <2>8, <2>9 DEF Good
<1>5. QED
  BY <1>3, <1>4

(* Whatever fails or panics, the exit of every run, from the collection as   *)
(* from the submissions, is true of every one of its targets.                *)
THEOREM RunsAccount == Spec => RunAccounts
<1>1. IInv /\ [Next]_vars =>
          [pc # "idle" /\ pc' = "idle" =>
              LET good == {t \in Target : result[t].kind = "ok"}
              IN /\ exit' = "ok" => accepted = Target
                 /\ exit' = "failed" =>
                       accepted = good /\ failures = NumTargets - Cardinality(good)
                       /\ failures > 0
                 /\ exit' = "aborted" => accepted = good \cap 1..(at - 1) /\ at \in good
                 /\ exit' = "panicked" <=> \E t \in Target : task[t] = "panicked"
                 /\ exit' = "panicked" => accepted = {} /\ UNCHANGED <<files, view>>]_vars
  BY ExitStep
<1>2. QED
  BY <1>1, Invariance, PTL DEF Spec, RunAccounts
=============================================================================

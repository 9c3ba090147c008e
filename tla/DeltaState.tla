------------------------------ MODULE DeltaState ------------------------------
(***************************************************************************)
(* The pure part of glpi-core protocol/delta.rs: section checksums, the    *)
(* content of a state file, the plan of a submission, and what a server    *)
(* does with it.                                                           *)
(*                                                                         *)
(* Data: a content maps every section key to a value or to Missing (the    *)
(* collector produced no such section); a value is an opaque member of     *)
(* Value.  Checksum is the 64-bit section hash, not assumed injective.     *)
(***************************************************************************)
EXTENDS Naturals

CONSTANTS
    Section,         \* content keys, versionclient and the partial flag excepted
    Value,           \* what a section may hold
    Digest,          \* what a section hashes to
    Checksum,        \* [Value -> Digest], the hash of `checksum`
    Missing,         \* a key that is absent from a JSON object
    MaxPostpone      \* full-inventory-postpone

Content == [Section -> Value \cup {Missing}]
Sums == [Section -> Digest \cup {Missing}]

ASSUME DataAssumption ==
    /\ Missing \notin Value
    /\ Missing \notin Digest
    /\ Checksum \in [Value -> Digest]
    /\ MaxPostpone \in Nat
-----------------------------------------------------------------------------
Nothing == [s \in Section |-> Missing]

SumOf(v) == IF v = Missing THEN Missing ELSE Checksum[v]

section_checksums(c) == [s \in Section |-> SumOf(c[s])]

InventoryState == [checksums : Sums, since_full : 0..MaxPostpone]

\* The state file: never written or removed, cut short by a crash, or whole.
Absent == [kind |-> "absent", state |-> [checksums |-> Nothing, since_full |-> 0]]
Torn == [kind |-> "torn", state |-> [checksums |-> Nothing, since_full |-> 0]]
Saved(st) == [kind |-> "saved", state |-> st]

DeltaPlan ==
    [mode : {"full", "partial"}, content : Content, changed : SUBSET Section,
     state : InventoryState]

ForceFull(prev) ==
    \/ MaxPostpone = 0
    \/ prev.kind = "absent"
    \/ prev.state.since_full >= MaxPostpone

Present(c) == {s \in Section : c[s] # Missing}

\* The sections whose checksum is not the saved one.
Changed(c, prev) ==
    {s \in Present(c) : prev.state.checksums[s] # section_checksums(c)[s]}

\* Wrong: a partial does not count towards the next full inventory.
plan_NoCount(c, prev) ==
    IF ForceFull(prev)
    THEN [mode |-> "full", content |-> c, changed |-> Present(c),
          state |-> [checksums |-> section_checksums(c), since_full |-> 0]]
    ELSE [mode |-> "partial", content |-> c, changed |-> Changed(c, prev),
          state |-> [checksums |-> section_checksums(c),
                     since_full |-> prev.state.since_full]]

plan(c, prev) ==
    IF ForceFull(prev)
    THEN [mode |-> "full", content |-> c, changed |-> Present(c),
          state |-> [checksums |-> section_checksums(c), since_full |-> 0]]
    ELSE [mode |-> "partial", content |-> c, changed |-> Changed(c, prev),
          state |-> [checksums |-> section_checksums(c),
                     since_full |-> prev.state.since_full + 1]]

\* What a server does with a submission: a full inventory replaces what it
\* holds, a partial one replaces the sections it carries.
Merge(held, p) ==
    IF p.mode = "full"
    THEN p.content
    ELSE [s \in Section |-> IF s \in p.changed THEN p.content[s] ELSE held[s]]

NoRun == [mode |-> "full", content |-> Nothing, changed |-> {},
          state |-> [checksums |-> Nothing, since_full |-> 0]]

\* The server's copy agrees with `sums` on every section they track.
Agrees(held, sums) ==
    \A s \in Section : sums[s] # Missing => SumOf(held[s]) = sums[s]
=============================================================================

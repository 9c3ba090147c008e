--------------------------- MODULE ProcessProofs ---------------------------
(***************************************************************************)
(* Proofs about the processes of the agent.                                *)
(*                                                                         *)
(* TaskFork, for any results and any capacity of the pipe: the two sides   *)
(* agree on where frames begin, the daemon never waits for a worker that   *)
(* waits for it, and the protocol implements a task run.                   *)
(*                                                                         *)
(* Daemon, in the second part: no event is lost, repeated or overtaken.    *)
(* PidFile, in the third: one agent at a time holds the pid file.          *)
(***************************************************************************)
EXTENDS TaskFork, Daemon, PidFile, SequenceTheorems, TLAPS

USE ForkAssumption

(* A frame is three pieces of its message.                                 *)
LEMMA FrameType ==
    ASSUME NEW m \in Message
    PROVE  /\ Frame(m) \in Seq(Piece) /\ Len(Frame(m)) = 3
           /\ Frame(m)[1] = [part |-> "head", msg |-> m]
           /\ Frame(m)[2] = [part |-> "len", msg |-> m]
           /\ Frame(m)[3] = [part |-> "body", msg |-> m]
<1>1. [part |-> "head", msg |-> m] \in Piece /\ [part |-> "len", msg |-> m] \in Piece
      /\ [part |-> "body", msg |-> m] \in Piece
  BY DEF Piece
<1>2. QED
  BY <1>1 DEF Frame

(* A concatenation is its first part, then its second.                     *)
LEMMA Concatenated ==
    ASSUME NEW S, NEW p \in Seq(S), NEW q \in Seq(S)
    PROVE  /\ p \o q \in Seq(S)
           /\ Len(p \o q) = Len(p) + Len(q)
           /\ Len(p) \in Nat /\ Len(q) \in Nat
           /\ \A i \in 1..Len(p) : (p \o q)[i] = p[i]
           /\ \A i \in 1..Len(q) : (p \o q)[Len(p) + i] = q[i]
           /\ q = <<>> => p \o q = p
<1>1. Len(p) \in Nat /\ Len(q) \in Nat
  BY LenProperties
<1>2. /\ p \o q \in Seq(S) /\ Len(p \o q) = Len(p) + Len(q)
      /\ \A i \in 1..(Len(p) + Len(q)) :
             (p \o q)[i] = IF i <= Len(p) THEN p[i] ELSE q[i - Len(p)]
  BY ConcatProperties
<1>3. q = <<>> => p \o q = p
  BY ConcatEmptySeq
<1>4. \A i \in 1..Len(q) : Len(p) + i - Len(p) = i /\ Len(p) + i \in 1..(Len(p) + Len(q))
                           /\ ~(Len(p) + i <= Len(p))
  BY <1>1
<1>5. QED
  BY <1>1, <1>2, <1>3, <1>4

(* The stream is a sequence of pieces, the pipe when nothing is written.   *)
LEMMA StreamType ==
    ASSUME TypeOK
    PROVE  /\ Stream \in Seq(Piece) /\ Len(Stream) \in Nat
           /\ \A i \in 1..Len(Stream) : Stream[i] \in Piece
           /\ Stream = <<>> <=> Len(Stream) = 0
<1>1. Stream \in Seq(Piece)
  BY Concatenated DEF Stream, TypeOK
<1>2. QED
  BY <1>1, LenProperties, ElementOfSeq, EmptySeq

(* A message that is emitted makes the stream a frame longer.              *)
LEMMA StreamEmit ==
    ASSUME TypeOK, out = <<>>, NEW m \in Message, Emit(m), pipe' = pipe
    PROVE  /\ Stream' \in Seq(Piece) /\ Len(Stream') = Len(Stream) + 3
           /\ \A i \in 1..Len(Stream) : Stream'[i] = Stream[i]
           /\ Stream'[Len(Stream) + 1] = [part |-> "head", msg |-> m]
           /\ Stream'[Len(Stream) + 2] = [part |-> "len", msg |-> m]
           /\ Stream'[Len(Stream) + 3] = [part |-> "body", msg |-> m]
           /\ out' \in Seq(Piece) /\ Len(out') <= 3
<1>1. /\ out' = Frame(m) /\ out' \in Seq(Piece) /\ Len(out') = 3
      /\ out'[1] = [part |-> "head", msg |-> m]
      /\ out'[2] = [part |-> "len", msg |-> m]
      /\ out'[3] = [part |-> "body", msg |-> m]
  BY FrameType DEF Emit
<1>2. pipe \in Seq(Piece) /\ out \in Seq(Piece) /\ Stream = pipe
  BY Concatenated DEF TypeOK, Stream
<1>3. Stream' = pipe \o out'
  BY DEF Stream
<1>4. /\ Stream' \in Seq(Piece) /\ Len(Stream') = Len(pipe) + 3
      /\ \A i \in 1..Len(pipe) : Stream'[i] = pipe[i]
      /\ \A i \in 1..3 : Stream'[Len(pipe) + i] = out'[i]
  <2>1. /\ pipe \o out' \in Seq(Piece) /\ Len(pipe \o out') = Len(pipe) + Len(out')
        /\ \A i \in 1..Len(pipe) : (pipe \o out')[i] = pipe[i]
        /\ \A i \in 1..Len(out') : (pipe \o out')[Len(pipe) + i] = out'[i]
    <3>1. out' \in Seq(Piece)
      BY <1>1
    <3>2. QED
      BY <1>2, <3>1, Concatenated
  <2>2. QED
    BY <1>1, <1>3, <2>1
<1>5. /\ Stream'[Len(pipe) + 1] = out'[1] /\ Stream'[Len(pipe) + 2] = out'[2]
      /\ Stream'[Len(pipe) + 3] = out'[3]
  <2>1. 1 \in 1..3 /\ 2 \in 1..3 /\ 3 \in 1..3
    OBVIOUS
  <2>2. QED
    BY <1>4, <2>1, Zenon
<1>6. Len(Stream') = Len(Stream) + 3 /\ \A i \in 1..Len(Stream) : Stream'[i] = Stream[i]
  BY <1>2, <1>4
<1>7. /\ Stream'[Len(Stream) + 1] = out'[1] /\ Stream'[Len(Stream) + 2] = out'[2]
      /\ Stream'[Len(Stream) + 3] = out'[3]
  BY <1>2, <1>5, Zenon
<1>8. QED
  BY <1>1, <1>4, <1>6, <1>7

(* A piece that is written moves along the stream and leaves it as it is.  *)
LEMMA StreamWrite ==
    ASSUME TypeOK, WritePiece
    PROVE  /\ Stream' = Stream
           /\ pipe' \in Seq(Piece) /\ Len(pipe') <= Capacity
           /\ out' \in Seq(Piece) /\ Len(out') <= 3
<1>1. /\ pipe \in Seq(Piece) /\ out \in Seq(Piece) /\ out # <<>> /\ Len(out) <= 3
      /\ pipe' = Append(pipe, Head(out)) /\ out' = Tail(out) /\ Len(pipe) < Capacity
  BY DEF TypeOK, WritePiece
<1>2. /\ Head(out) \in Piece /\ Tail(out) \in Seq(Piece) /\ Len(Tail(out)) = Len(out) - 1
      /\ Len(out) \in Nat /\ Len(pipe) \in Nat
  BY <1>1, HeadTailProperties, LenProperties
<1>3. <<Head(out)>> \in Seq(Piece) /\ <<Head(out)>> \o Tail(out) = out
  BY <1>1, <1>2
<1>4. pipe' = pipe \o <<Head(out)>> /\ pipe' \in Seq(Piece) /\ Len(pipe') = Len(pipe) + 1
  BY <1>1, <1>2, AppendIsConcat, AppendProperties
<1>5. (pipe \o <<Head(out)>>) \o Tail(out) = pipe \o (<<Head(out)>> \o Tail(out))
  <2>1. pipe \in Seq(Piece) /\ <<Head(out)>> \in Seq(Piece) /\ Tail(out) \in Seq(Piece)
    BY <1>1, <1>2, <1>3
  <2>2. QED
    BY <2>1, ConcatAssociative
<1>6. QED
  BY <1>1, <1>2, <1>3, <1>4, <1>5 DEF Stream

(* A worker that ends cuts the stream somewhere.                           *)
LEMMA StreamCut ==
    ASSUME TypeOK, pipe' = pipe, out' = <<>>
    PROVE  /\ Stream' \in Seq(Piece) /\ Len(Stream') <= Len(Stream)
           /\ \A i \in 1..Len(Stream') : Stream'[i] = Stream[i]
<1>1. pipe \in Seq(Piece) /\ out \in Seq(Piece)
  BY DEF TypeOK
<1>2. Stream' = pipe
  BY <1>1, Concatenated DEF Stream
<1>3. /\ Len(Stream) = Len(pipe) + Len(out) /\ Len(pipe) \in Nat /\ Len(out) \in Nat
      /\ \A i \in 1..Len(pipe) : Stream[i] = pipe[i]
  BY <1>1, Concatenated DEF Stream
<1>4. Len(Stream') = Len(pipe)
  BY <1>2
<1>5. Stream' \in Seq(Piece) /\ Len(Stream') <= Len(Stream)
  BY <1>1, <1>2, <1>3, <1>4
<1>6. \A i \in 1..Len(Stream') : Stream'[i] = Stream[i]
  BY <1>2, <1>3, <1>4, Zenon
<1>7. QED
  BY <1>5, <1>6

(* The reader takes the first piece, and may abandon a worker whose frame   *)
(* it refuses.                                                              *)
LEMMA StreamRead ==
    ASSUME TypeOK, pipe # <<>>, pipe' = Tail(pipe), out' \in {out, <<>>}
    PROVE  /\ Stream[1] = Head(pipe) /\ 1 <= Len(Stream) /\ Head(pipe) \in Piece
           /\ Stream' \in Seq(Piece) /\ Len(Stream') <= Len(Stream) - 1
           /\ out' = out => Len(Stream') = Len(Stream) - 1
           /\ \A i \in 1..Len(Stream') : Stream'[i] = Stream[i + 1]
           /\ pipe' \in Seq(Piece) /\ Len(pipe') <= Capacity
<1>1. pipe \in Seq(Piece) /\ out \in Seq(Piece) /\ out' \in Seq(Piece) /\ Len(pipe) <= Capacity
  <2>1. <<>> \in Seq(Piece)
    BY EmptySeq
  <2>2. QED
    BY <2>1, Zenon DEF TypeOK
<1>2. /\ Head(pipe) \in Piece /\ Head(pipe) = pipe[1]
      /\ Tail(pipe) \in Seq(Piece) /\ Len(Tail(pipe)) = Len(pipe) - 1
      /\ \A i \in 1..(Len(pipe) - 1) : Tail(pipe)[i] = pipe[i + 1]
      /\ Len(pipe) \in Nat \ {0} /\ Len(out) \in Nat
  BY <1>1, HeadTailProperties, LenProperties, EmptySeq
<1>3. /\ Len(Stream) = Len(pipe) + Len(out)
      /\ \A i \in 1..Len(pipe) : Stream[i] = pipe[i]
      /\ \A i \in 1..Len(out) : Stream[Len(pipe) + i] = out[i]
  BY <1>1, Concatenated DEF Stream
<1>4. Stream' = Tail(pipe) \o out'
  BY DEF Stream
<1>5. /\ Stream' \in Seq(Piece)
      /\ Len(Stream') = Len(pipe) - 1 + Len(out')
      /\ \A i \in 1..(Len(pipe) - 1) : Stream'[i] = pipe[i + 1]
      /\ \A i \in 1..Len(out') : Stream'[Len(pipe) - 1 + i] = out'[i]
  BY <1>1, <1>2, <1>4, Concatenated
<1>6. CASE out' = out
  <2>1. \A i \in 1..Len(Stream') : Stream'[i] = Stream[i + 1]
    <3>1. SUFFICES ASSUME NEW i \in 1..Len(Stream') PROVE Stream'[i] = Stream[i + 1]
      OBVIOUS
    <3>2. CASE i <= Len(pipe) - 1
      BY <1>2, <1>3, <1>5, <3>2
    <3>3. CASE i > Len(pipe) - 1
      <4>1. i - (Len(pipe) - 1) \in 1..Len(out)
        BY <1>2, <1>5, <1>6, <3>3
      <4>2. PICK j \in 1..Len(out) : j = i - (Len(pipe) - 1)
        BY <4>1
      <4>3. i = Len(pipe) - 1 + j /\ i + 1 = Len(pipe) + j
        BY <1>2, <4>2
      <4>4. QED
        BY <1>3, <1>5, <1>6, <4>3
    <3>4. QED
      BY <1>2, <3>2, <3>3
  <2>2. QED
    BY <1>1, <1>2, <1>3, <1>5, <1>6, <2>1
<1>7. CASE out' = <<>>
  <2>1. Len(out') = 0 /\ (out' = out => Len(out) = 0)
    BY <1>7
  <2>2. Len(Stream') = Len(pipe) - 1 /\ Len(Stream') <= Len(Stream) - 1
    BY <1>2, <1>3, <1>5, <2>1
  <2>3. out' = out => Len(Stream') = Len(Stream) - 1
    BY <1>2, <1>3, <2>1, <2>2
  <2>4. \A i \in 1..Len(Stream') : Stream'[i] = Stream[i + 1]
    BY <1>2, <1>3, <1>5, <2>2
  <2>5. 1 <= Len(Stream) /\ Stream[1] = pipe[1]
    BY <1>2, <1>3
  <2>6. QED
    BY <1>1, <1>2, <1>5, <2>2, <2>3, <2>4, <2>5
<1>8. QED
  BY <1>6, <1>7

(* What is emitted is a whole frame behind what was there.                 *)
LEMMA StreamEmitted ==
    ASSUME TypeOK, out = <<>>, NEW m \in Message, Emit(m), pipe' = pipe
    PROVE  \A i \in 1..Len(Stream') :
              \/ i \in 1..Len(Stream) /\ Stream'[i] = Stream[i]
              \/ /\ i \in (Len(Stream) + 1)..Len(Stream') /\ Stream'[i].msg = m
                 /\ Stream'[i].part = "body" <=> i = Len(Stream')
<1>1. Len(Stream) \in Nat
  BY StreamType
<1>2. /\ Len(Stream') = Len(Stream) + 3
      /\ \A i \in 1..Len(Stream) : Stream'[i] = Stream[i]
      /\ Stream'[Len(Stream) + 1] = [part |-> "head", msg |-> m]
      /\ Stream'[Len(Stream) + 2] = [part |-> "len", msg |-> m]
      /\ Stream'[Len(Stream) + 3] = [part |-> "body", msg |-> m]
  BY StreamEmit
<1>3. SUFFICES ASSUME NEW i \in 1..Len(Stream')
               PROVE  \/ i \in 1..Len(Stream) /\ Stream'[i] = Stream[i]
                      \/ /\ i \in (Len(Stream) + 1)..Len(Stream') /\ Stream'[i].msg = m
                         /\ Stream'[i].part = "body" <=> i = Len(Stream')
  OBVIOUS
<1>4. \/ i \in 1..Len(Stream)
      \/ i = Len(Stream) + 1 \/ i = Len(Stream) + 2 \/ i = Len(Stream) + 3
  BY <1>1, <1>2
<1>5. QED
  BY <1>1, <1>2, <1>4

(* A frame that is emitted keeps the frames aligned.                       *)
LEMMA EmitFrameInv ==
    ASSUME TypeOK, FrameInv, out = <<>>, NEW m \in Message, Emit(m), UNCHANGED <<pipe, got>>,
           worker # "gone"
    PROVE  FrameInv'
<1>1. Len(Stream) \in Nat /\ (Stream = <<>> <=> Len(Stream) = 0)
  BY StreamType
<1>2. /\ Len(Stream') = Len(Stream) + 3
      /\ \A i \in 1..Len(Stream) : Stream'[i] = Stream[i]
      /\ Stream'[Len(Stream) + 1].part = "head"
      /\ Stream'[Len(Stream) + 2].part = "len"
      /\ Stream'[Len(Stream) + 3].part = "body"
  <2>1. /\ Len(Stream') = Len(Stream) + 3
        /\ \A i \in 1..Len(Stream) : Stream'[i] = Stream[i]
        /\ Stream'[Len(Stream) + 1] = [part |-> "head", msg |-> m]
        /\ Stream'[Len(Stream) + 2] = [part |-> "len", msg |-> m]
        /\ Stream'[Len(Stream) + 3] = [part |-> "body", msg |-> m]
    BY StreamEmit
  <2>2. QED
    BY <2>1
<1>3. Stream' # <<>> /\ Stream'[Len(Stream')].part = "body"
  <2>1. Len(Stream') # 0
    BY <1>1, <1>2
  <2>2. QED
    BY <1>2, <2>1
<1>4. Stream'[1].part = <<"head", "len", "body">>[got' + 1]
  <2>1. CASE Stream = <<>>
    <3>1. got' = 0 /\ Len(Stream) + 1 = 1
      BY <1>1, <2>1 DEF FrameInv
    <3>2. QED
      BY <1>2, <3>1
  <2>2. CASE Stream # <<>>
    BY <1>1, <1>2, <2>2 DEF FrameInv
  <2>3. QED
    BY <2>1, <2>2
<1>5. ASSUME NEW i \in 1..(Len(Stream') - 1)
      PROVE  Stream'[i + 1].part = Follows(Stream'[i].part)
  <2>1. CASE i < Len(Stream)
    <3>1. i \in 1..(Len(Stream) - 1) /\ i + 1 \in 1..Len(Stream) /\ i \in 1..Len(Stream)
      BY <1>1, <2>1
    <3>2. Stream'[i] = Stream[i] /\ Stream'[i + 1] = Stream[i + 1]
      BY <1>2, <3>1
    <3>3. QED
      BY <1>1, <3>1, <3>2 DEF FrameInv
  <2>2. CASE i = Len(Stream)
    <3>1. Stream'[i].part = "body"
      BY <1>1, <1>2, <2>2 DEF FrameInv
    <3>2. QED
      BY <1>2, <2>2, <3>1 DEF Follows
  <2>3. CASE i = Len(Stream) + 1
    <3>1. i + 1 = Len(Stream) + 2
      BY <1>1, <2>3
    <3>2. QED
      BY <1>2, <2>3, <3>1 DEF Follows
  <2>4. CASE i = Len(Stream) + 2
    <3>1. i + 1 = Len(Stream) + 3
      BY <1>1, <2>4
    <3>2. QED
      BY <1>2, <2>4, <3>1 DEF Follows
  <2>5. QED
    BY <1>1, <1>2, <2>1, <2>2, <2>3, <2>4
<1>6. QED
  BY <1>3, <1>4, <1>5 DEF FrameInv

(* A message other than a result and Done(true) changes no promise.        *)
LEMMA EmitInv ==
    ASSUME IInv, out = <<>>, NEW m \in {Log, Progress, Done(FALSE)}, Emit(m),
           worker \notin {"gone", "exit", "finish"}, worker' \notin {"gone", "finish"},
           m.kind = "done" => worker' = "exit",
           UNCHANGED <<pipe, got, parent, results, outcome, verdict, produced>>
    PROVE  FrameInv' /\ DoneInv' /\ ResultInv' /\ OutcomeInv'
<1>1. /\ m \in Message /\ m.kind # "result" /\ m # Done(TRUE)
  BY DEF Message, Log, Progress, Done
<1>2. FrameInv'
  BY <1>1, EmitFrameInv DEF IInv
<1>3. Len(Stream) \in Nat /\ Len(Stream') = Len(Stream) + 3
  BY <1>1, StreamType, StreamEmit DEF IInv
<1>4. \A i \in 1..Len(Stream') :
          \/ i \in 1..Len(Stream) /\ Stream'[i] = Stream[i]
          \/ /\ i \in (Len(Stream) + 1)..Len(Stream') /\ Stream'[i].msg = m
             /\ Stream'[i].part = "body" <=> i = Len(Stream')
  BY <1>1, StreamEmitted DEF IInv
<1>5. \A i \in 1..Len(Stream) : Stream[i].msg.kind # "done" /\ Stream[i].msg # Done(TRUE)
  BY DEF IInv, DoneInv, Done
<1>6. parent # "waiting"
  BY DEF IInv, DoneInv
<1>7. DoneInv'
  BY <1>4, <1>5, <1>6 DEF DoneInv
<1>8. \A i \in 1..Len(Stream') : Carries(i)' => i \in 1..Len(Stream) /\ Carries(i)
  BY <1>1, <1>4 DEF Carries
<1>9. ResultInv'
  <2>1. results' \in {<<>>, produced'}
    BY DEF IInv, ResultInv
  <2>2. ASSUME NEW i \in 1..Len(Stream'), Stream'[i].msg.kind = "result"
        PROVE  produced' = <<Stream'[i].msg.data>>
    BY <1>1, <1>4, <2>2 DEF IInv, ResultInv
  <2>3. ASSUME NEW i \in 1..Len(Stream'), Carries(i)'
        PROVE  results' = <<>> /\ \A j \in 1..Len(Stream') : Carries(j)' => j = i
    BY <1>8, <2>3 DEF IInv, ResultInv
  <2>4. ASSUME NEW i \in 1..Len(Stream') PROVE Stream'[i].msg # Done(TRUE)
    BY <1>1, <1>4, <1>5
  <2>5. QED
    BY <2>1, <2>2, <2>3, <2>4 DEF ResultInv
<1>10. OutcomeInv'
  BY DEF IInv, OutcomeInv
<1>11. QED
  BY <1>2, <1>7, <1>9, <1>10

(* A worker that ends breaks no promise: what it had not written is lost.   *)
LEMMA GoneInv ==
    ASSUME IInv, Gone, UNCHANGED <<pipe, got, results, produced>>
    PROVE  /\ FrameInv' /\ WorkerInv' /\ DoneInv' /\ ResultInv'
           /\ verdict = "succeeded" => verdict' = "succeeded"
<1>1. worker' = "gone" /\ out' = <<>> /\ (verdict = "succeeded" => verdict' = "succeeded")
  BY DEF Gone
<1>2. Len(Stream) \in Nat /\ (Stream = <<>> <=> Len(Stream) = 0)
  BY StreamType DEF IInv
<1>3. /\ Stream' \in Seq(Piece) /\ Len(Stream') <= Len(Stream)
      /\ \A i \in 1..Len(Stream') : Stream'[i] = Stream[i]
  BY <1>1, StreamCut DEF IInv
<1>4. Len(Stream') \in Nat /\ (Stream' = <<>> <=> Len(Stream') = 0)
  BY <1>3, LenProperties, EmptySeq
<1>5. FrameInv'
  <2>1. Stream' # <<>> => Stream'[1].part = <<"head", "len", "body">>[got' + 1]
    BY <1>2, <1>3, <1>4 DEF IInv, FrameInv
  <2>2. \A i \in 1..(Len(Stream') - 1) : Stream'[i + 1].part = Follows(Stream'[i].part)
    BY <1>2, <1>3, <1>4 DEF IInv, FrameInv
  <2>3. QED
    BY <1>1, <2>1, <2>2 DEF FrameInv
<1>6. WorkerInv'
  BY <1>1 DEF IInv, WorkerInv
<1>7. DoneInv'
  BY <1>1, <1>2, <1>3, <1>4 DEF IInv, DoneInv
<1>8. \A i \in 1..Len(Stream') : i \in 1..Len(Stream) /\ (Carries(i)' <=> Carries(i))
  BY <1>2, <1>3, <1>4 DEF Carries
<1>9. ResultInv'
  <2>1. ASSUME NEW i \in 1..Len(Stream'), Stream'[i].msg = Done(TRUE)
        PROVE  verdict' = "succeeded" /\ Delivered(i - 1)'
    <3>1. verdict' = "succeeded" /\ Delivered(i - 1)
      BY <1>1, <1>3, <1>8, <2>1 DEF IInv, ResultInv
    <3>2. \A j \in 1..(i - 1) : Carries(j) => Carries(j)'
      BY <1>4, <1>8
    <3>3. QED
      BY <3>1, <3>2 DEF Delivered
  <2>2. ASSUME NEW i \in 1..Len(Stream')
        PROVE  /\ Stream'[i].msg.kind = "result" => produced' = <<Stream'[i].msg.data>>
               /\ Carries(i)' => results' = <<>>
                                 /\ \A j \in 1..Len(Stream') : Carries(j)' => j = i
    BY <1>3, <1>8 DEF IInv, ResultInv
  <2>3. results' \in {<<>>, produced'} /\ worker' # "finish"
    BY <1>1 DEF IInv, ResultInv
  <2>4. QED
    BY <2>1, <2>2, <2>3 DEF ResultInv
<1>10. QED
  BY <1>1, <1>5, <1>6, <1>7, <1>9

(* read_message takes the next piece, which is the one it expects.         *)
LEMMA ReadInv ==
    ASSUME IInv, pipe # <<>>, pipe' = Tail(pipe), produced' = produced,
           UNCHANGED <<worker, out, verdict>> \/ Gone,
           got' = IF got = 2 THEN 0 ELSE got + 1,
           results' = IF got = 2 /\ Head(pipe).msg.kind = "result"
                      THEN Append(results, Head(pipe).msg.data) ELSE results
    PROVE  /\ FrameInv' /\ WorkerInv' /\ ResultInv'
           /\ \A i \in 1..Len(Stream') :
                 Stream'[i].msg.kind = "done" =>
                     /\ worker' \in {"exit", "gone"}
                     /\ Stream'[i].part = "body" => i = Len(Stream')
<1>1. /\ out' \in {out, <<>>}
      /\ worker' = "gone" \/ UNCHANGED <<worker, out, verdict>>
      /\ worker' \in {worker, "gone"}
      /\ verdict = "succeeded" => verdict' = "succeeded"
  BY DEF Gone
<1>2. Len(Stream) \in Nat /\ (Stream = <<>> <=> Len(Stream) = 0)
  BY StreamType DEF IInv
<1>3. /\ Stream[1] = Head(pipe) /\ 1 <= Len(Stream)
      /\ Stream' \in Seq(Piece) /\ Len(Stream') <= Len(Stream) - 1
      /\ out' = out => Len(Stream') = Len(Stream) - 1
      /\ \A i \in 1..Len(Stream') : Stream'[i] = Stream[i + 1]
  BY <1>1, StreamRead DEF IInv
<1>4. Len(Stream') \in Nat /\ (Stream' = <<>> <=> Len(Stream') = 0)
  BY <1>3, LenProperties, EmptySeq
<1>5. got \in 0..2 /\ Stream[1].part = <<"head", "len", "body">>[got + 1]
  BY <1>2, <1>3 DEF IInv, TypeOK, FrameInv
<1>6. \A i \in 1..Len(Stream') : i + 1 \in 1..Len(Stream)
  BY <1>2, <1>3, <1>4
<1>7. FrameInv'
  <2>1. Stream' # <<>> => Stream'[1].part = <<"head", "len", "body">>[got' + 1]
    <3>1. SUFFICES ASSUME Stream' # <<>>
                   PROVE Stream'[1].part = <<"head", "len", "body">>[got' + 1]
      OBVIOUS
    <3>2. Stream'[1].part = Follows(Stream[1].part)
      <4>1. 1 \in 1..(Len(Stream) - 1) /\ 1 \in 1..Len(Stream')
        BY <1>2, <1>3, <1>4, <3>1
      <4>2. Stream'[1] = Stream[1 + 1]
        BY <1>3, <4>1, Zenon
      <4>3. Stream[1 + 1].part = Follows(Stream[1].part)
        BY <4>1, Zenon DEF IInv, FrameInv
      <4>4. QED
        BY <4>2, <4>3
    <3>3. QED
      BY <1>5, <3>2 DEF Follows
  <2>2. \A i \in 1..(Len(Stream') - 1) : Stream'[i + 1].part = Follows(Stream'[i].part)
    <3>1. \A i \in 1..(Len(Stream') - 1) : i + 1 \in 1..(Len(Stream) - 1)
                                          /\ i \in 1..Len(Stream') /\ i + 1 \in 1..Len(Stream')
      BY <1>2, <1>3, <1>4
    <3>2. \A i \in 1..(Len(Stream) - 1) : Stream[i + 1].part = Follows(Stream[i].part)
      BY DEF IInv, FrameInv
    <3>3. QED
      BY <1>3, <3>1, <3>2, Zenon
  <2>3. worker' # "gone" =>
            IF Stream' = <<>> THEN got' = 0 ELSE Stream'[Len(Stream')].part = "body"
    <3>1. SUFFICES ASSUME worker' # "gone"
                   PROVE  IF Stream' = <<>> THEN got' = 0
                           ELSE Stream'[Len(Stream')].part = "body"
      OBVIOUS
    <3>2. worker # "gone" /\ Len(Stream') = Len(Stream) - 1
          /\ Stream[Len(Stream)].part = "body"
      BY <1>1, <1>2, <1>3, <3>1 DEF IInv, FrameInv
    <3>3. CASE Stream' = <<>>
      <4>1. Len(Stream) = 1
        BY <1>2, <1>4, <3>2, <3>3
      <4>2. got = 2
        BY <1>5, <3>2, <4>1
      <4>3. QED
        BY <3>3, <4>2
    <3>4. CASE Stream' # <<>>
      <4>1. Len(Stream') \in 1..Len(Stream') /\ Len(Stream') + 1 = Len(Stream)
        BY <1>2, <1>4, <3>2, <3>4
      <4>2. QED
        BY <1>3, <3>2, <3>4, <4>1
    <3>5. QED
      BY <3>3, <3>4
  <2>4. QED
    BY <2>1, <2>2, <2>3 DEF FrameInv
<1>8. WorkerInv'
  BY <1>1 DEF IInv, WorkerInv
<1>9. \A i \in 1..Len(Stream') : Carries(i)' <=> Carries(i + 1)
  BY <1>3 DEF Carries
<1>10. /\ Carries(1) <=> got = 2 /\ Head(pipe).msg.kind = "result"
       /\ Carries(1) => results' = produced
       /\ ~Carries(1) => results' = results
  <2>1. Carries(1) <=> got = 2 /\ Head(pipe).msg.kind = "result"
    BY <1>3, <1>5 DEF Carries
  <2>2. 1 \in 1..Len(Stream)
    BY <1>2, <1>3
  <2>3. ASSUME Carries(1) PROVE results' = produced
    <3>1. results = <<>> /\ produced = <<Stream[1].msg.data>>
      BY <2>2, <2>3 DEF IInv, ResultInv, Carries
    <3>2. QED
      BY <1>3, <2>1, <2>3, <3>1
  <2>4. QED
    BY <2>1, <2>3
<1>11. ResultInv'
  <2>1. results' \in {<<>>, produced'}
    BY <1>10 DEF IInv, ResultInv
  <2>2. \A i \in 1..Len(Stream') :
            Stream'[i].msg.kind = "result" => produced' = <<Stream'[i].msg.data>>
    BY <1>3, <1>6 DEF IInv, ResultInv
  <2>3. ASSUME NEW i \in 1..Len(Stream'), Carries(i)'
        PROVE  results' = <<>> /\ \A j \in 1..Len(Stream') : Carries(j)' => j = i
    <3>1. /\ i + 1 \in 1..Len(Stream) /\ Carries(i + 1) /\ results = <<>>
          /\ \A j \in 1..Len(Stream) : Carries(j) => j = i + 1
      BY <1>6, <1>9, <2>3 DEF IInv, ResultInv
    <3>2. 1 \in 1..Len(Stream) /\ 1 # i + 1
      BY <1>2, <1>3, <1>4
    <3>3. results' = <<>>
      BY <1>10, <3>1, <3>2
    <3>4. ASSUME NEW j \in 1..Len(Stream'), Carries(j)' PROVE j = i
      <4>1. j + 1 = i + 1
        BY <1>6, <1>9, <3>1, <3>4
      <4>2. QED
        BY <1>4, <4>1
    <3>5. QED
      BY <3>3, <3>4
  <2>4. ASSUME NEW n \in 0..Len(Stream'), Delivered(n + 1) PROVE Delivered(n)'
    <3>1. produced' # <<>> /\ (results = produced \/ \E j \in 1..(n + 1) : Carries(j))
      BY <2>4 DEF Delivered
    <3>2. CASE Carries(1) \/ results = produced
      BY <1>10, <3>1, <3>2 DEF Delivered
    <3>3. CASE ~Carries(1) /\ \E j \in 1..(n + 1) : Carries(j)
      <4>1. PICK j \in 1..(n + 1) : Carries(j)
        BY <3>3
      <4>2. j # 1
        BY <3>3, <4>1
      <4>3. j - 1 \in 1..n /\ j - 1 \in 1..Len(Stream') /\ j - 1 + 1 = j
        BY <1>4, <4>2
      <4>4. Carries(j - 1)'
        BY <1>9, <4>1, <4>3
      <4>5. QED
        BY <3>1, <4>3, <4>4 DEF Delivered
    <3>4. QED
      BY <3>1, <3>2, <3>3
  <2>5. ASSUME NEW i \in 1..Len(Stream'), Stream'[i].msg = Done(TRUE)
        PROVE  verdict' = "succeeded" /\ Delivered(i - 1)'
    <3>1. i + 1 \in 1..Len(Stream) /\ Stream[i + 1].msg = Done(TRUE)
      BY <1>3, <1>6, <2>5
    <3>2. PICK k \in 1..Len(Stream) : k = i + 1
      BY <3>1
    <3>3. verdict = "succeeded" /\ Delivered(k - 1)
      BY <3>1, <3>2, Zenon DEF IInv, ResultInv
    <3>4. i - 1 \in 0..Len(Stream') /\ k - 1 = i - 1 + 1
      BY <1>4, <3>2
    <3>5. QED
      BY <1>1, <2>4, <3>3, <3>4
  <2>6. worker' = "finish" => Delivered(Len(Stream))'
    <3>1. SUFFICES ASSUME worker' = "finish" PROVE Delivered(Len(Stream))'
      OBVIOUS
    <3>2. PICK n \in 0..Len(Stream') : n = Len(Stream')
      BY <1>4
    <3>3. n + 1 = Len(Stream) /\ Delivered(Len(Stream))
      BY <1>1, <1>2, <1>3, <1>4, <3>1, <3>2 DEF IInv, ResultInv
    <3>4. Delivered(n)'
      BY <2>4, <3>3
    <3>5. QED
      BY <3>2, <3>4
  <2>7. QED
    BY <2>1, <2>2, <2>3, <2>5, <2>6 DEF ResultInv
<1>12. ASSUME NEW i \in 1..Len(Stream'), Stream'[i].msg.kind = "done"
       PROVE  worker' \in {"exit", "gone"} /\ (Stream'[i].part = "body" => i = Len(Stream'))
  <2>1. i + 1 \in 1..Len(Stream) /\ Stream[i + 1] = Stream'[i]
    BY <1>3, <1>6
  <2>2. worker \in {"exit", "gone"} /\ (Stream'[i].part = "body" => i + 1 = Len(Stream))
    BY <1>12, <2>1 DEF IInv, DoneInv
  <2>3. QED
    BY <1>1, <1>2, <1>3, <1>4, <2>2
<1>13. QED
  BY <1>7, <1>8, <1>11, <1>12

(* What the worker emits is a message.                                     *)
LEMMA MessageType ==
    /\ Log \in Message /\ Progress \in Message
    /\ Done(TRUE) \in Message /\ Done(FALSE) \in Message
    /\ \A r \in Result : ResultOf(r) \in Message
BY DEF Message

(* Only a result carries one.                                              *)
LEMMA ResultData ==
    ASSUME NEW m \in Message, m.kind = "result"
    PROVE  m.data \in Result
<1>1. \/ m \in {Log, Progress, Done(TRUE), Done(FALSE)}
      \/ \E r \in Result : m = ResultOf(r)
  BY DEF Message
<1>2. m \notin {Log, Progress, Done(TRUE), Done(FALSE)}
  BY DEF Log, Progress, Done
<1>3. PICK r \in Result : m = ResultOf(r)
  BY <1>1, <1>2
<1>4. QED
  BY <1>3 DEF ResultOf

(* The only successful end is Done(true).                                  *)
LEMMA DoneIsTrue ==
    ASSUME NEW m \in Message, m.kind = "done", m.success
    PROVE  m = Done(TRUE)
<1>1. \/ m \in {Log, Progress, Done(TRUE), Done(FALSE)}
      \/ \E r \in Result : m = ResultOf(r)
  BY DEF Message
<1>2. m # Log /\ m # Progress /\ \A r \in Result : m # ResultOf(r)
  BY DEF Log, Progress, ResultOf
<1>3. m # Done(FALSE)
  BY DEF Done
<1>4. QED
  BY <1>1, <1>2, <1>3

(* A worker that ends keeps to the types.                                  *)
LEMMA GoneType ==
    ASSUME TypeOK, Gone
    PROVE  /\ worker' = "gone" /\ out' \in Seq(Piece) /\ Len(out') <= 3
           /\ verdict' \in {"running", "succeeded", "failed", "lost"}
<1>1. <<>> \in Seq(Piece) /\ Len(<<>>) = 0
  BY EmptySeq
<1>2. QED
  BY <1>1 DEF Gone, TypeOK

(* So does a run that the daemon gives up.                                 *)
LEMMA EndType ==
    ASSUME TypeOK, NEW o \in {"success", "failure", "error"}, End(o, <<>>),
           UNCHANGED <<got, results, produced>>,
           pipe' \in Seq(Piece), Len(pipe') <= Capacity
    PROVE  TypeOK'
<1>1. worker' = "gone" \/ worker' = worker
  BY DEF End, Gone
<1>2. /\ out' \in Seq(Piece) /\ Len(out') <= 3
      /\ verdict' \in {"running", "succeeded", "failed", "lost"}
  BY GoneType DEF End, TypeOK
<1>3. printed' \in Seq(Result)
  BY EmptySeq DEF End
<1>4. QED
  BY <1>1, <1>2, <1>3 DEF TypeOK, End

(* Initially nothing has been written.                                     *)
LEMMA InitInv == Init => IInv
<1>1. SUFFICES ASSUME Init PROVE IInv
  OBVIOUS
<1>2. TypeOK
  <2>1. <<>> \in Seq(Piece) /\ <<>> \in Seq(Result) /\ Len(<<>>) = 0
    BY EmptySeq
  <2>2. QED
    BY <1>1, <2>1 DEF Init, TypeOK
<1>3. Stream = <<>> /\ Len(Stream) = 0
  <2>1. pipe \o out = <<>>
    BY <1>1 DEF Init
  <2>2. QED
    BY <2>1 DEF Stream
<1>4. StartInv /\ FrameInv /\ DoneInv
  BY <1>1, <1>3 DEF Init, StartInv, FrameInv, DoneInv
<1>5. WorkerInv /\ ResultInv /\ OutcomeInv
  BY <1>1, <1>3 DEF Init, WorkerInv, ResultInv, OutcomeInv
<1>6. QED
  BY <1>2, <1>4, <1>5 DEF IInv

(* Every step keeps the types.                                             *)
LEMMA StepType == TypeOK /\ [Next]_vars => TypeOK'
<1>1. SUFFICES ASSUME TypeOK, [Next]_vars PROVE TypeOK'
  OBVIOUS
<1> DEFINE Emitted == out' \in Seq(Piece) /\ Len(out') <= 3
<1>2. ASSUME NEW m \in Message, Emit(m), out = <<>>, pipe' = pipe PROVE Emitted
  BY <1>1, <1>2, StreamEmit
<1>3. CASE Greet
  <2>1. Emitted
    BY <1>2, <1>3, MessageType DEF Greet
  <2>2. QED
    BY <1>1, <1>3, <2>1 DEF Greet, TypeOK
<1>4. CASE Prepare
  <2>1. Emitted
    BY <1>1, <1>2, <1>4, MessageType DEF Prepare, TypeOK
  <2>2. worker' \in {"complain", "scan", "report"} /\ verdict' \in {"failed", verdict}
    BY <1>4 DEF Prepare
  <2>3. QED
    BY <1>1, <1>4, <2>1, <2>2 DEF Prepare, TypeOK
<1>5. CASE Scan
  <2>1. Emitted
    BY <1>2, <1>5, MessageType DEF Scan
  <2>2. QED
    BY <1>1, <1>5, <2>1 DEF Scan, TypeOK
<1>6. CASE Report
  <2>1. PICK r \in Result : Emit(ResultOf(r)) /\ produced' = Append(produced, r)
    BY <1>6 DEF Report
  <2>2. Emitted
    BY <1>2, <1>6, <2>1, MessageType DEF Report
  <2>3. produced' \in Seq(Result)
    BY <1>1, <2>1, AppendProperties DEF TypeOK
  <2>4. QED
    BY <1>1, <1>6, <2>2, <2>3 DEF Report, TypeOK
<1>7. CASE Finish
  <2>1. Emitted
    BY <1>2, <1>7, MessageType DEF Finish
  <2>2. QED
    BY <1>1, <1>7, <2>1 DEF Finish, TypeOK
<1>8. CASE Complain
  <2>1. Emitted
    BY <1>2, <1>8, MessageType DEF Complain
  <2>2. QED
    BY <1>1, <1>8, <2>1 DEF Complain, TypeOK
<1>9. CASE GiveUp
  <2>1. Emitted
    BY <1>2, <1>9, MessageType DEF GiveUp
  <2>2. QED
    BY <1>1, <1>9, <2>1 DEF GiveUp, TypeOK
<1>10. CASE WritePiece
  <2>1. Emitted /\ pipe' \in Seq(Piece) /\ Len(pipe') <= Capacity
    BY <1>1, <1>10, StreamWrite
  <2>2. QED
    BY <1>1, <1>10, <2>1 DEF WritePiece, TypeOK
<1>11. CASE WriteFails \/ Exit \/ WorkerDies
  <2>1. Gone /\ UNCHANGED <<pipe, parent, got, results, outcome, printed, produced>>
    BY <1>11 DEF WriteFails, Exit, WorkerDies
  <2>2. QED
    BY <1>1, <2>1, GoneType DEF TypeOK
<1>12. CASE Spawn
  BY <1>1, <1>12 DEF Spawn, TypeOK
<1>13. CASE SpawnFails \/ SendFails
  BY <1>1, <1>13, EndType DEF SpawnFails, SendFails, TypeOK
<1>14. CASE SendEvent
  BY <1>1, <1>14 DEF SendEvent, TypeOK
<1>15. ASSUME pipe # <<>>, pipe' = Tail(pipe)
       PROVE  pipe' \in Seq(Piece) /\ Len(pipe') <= Capacity
  <2>1. pipe \in Seq(Piece) /\ Len(pipe) <= Capacity /\ Len(pipe) \in Nat
    BY <1>1, LenProperties DEF TypeOK
  <2>2. Tail(pipe) \in Seq(Piece) /\ Len(Tail(pipe)) = Len(pipe) - 1
    BY <1>15, <2>1, HeadTailProperties
  <2>3. QED
    BY <1>15, <2>1, <2>2
<1>16. CASE ReadHead
  BY <1>1, <1>15, <1>16 DEF ReadHead, TypeOK
<1>17. CASE ReadLen
  <2>1. pipe' \in Seq(Piece) /\ Len(pipe') <= Capacity
    BY <1>15, <1>17 DEF ReadLen
  <2>2. CASE UNCHANGED <<worker, out, parent, outcome, printed, verdict>>
    BY <1>1, <1>17, <2>1, <2>2 DEF ReadLen, TypeOK
  <2>3. CASE End("error", <<>>)
    <3>1. worker' = "gone" \/ worker' = worker
      BY <2>3 DEF End, Gone
    <3>2. /\ out' \in Seq(Piece) /\ Len(out') <= 3
          /\ verdict' \in {"running", "succeeded", "failed", "lost"}
      BY <1>1, <2>3, GoneType DEF End, TypeOK
    <3>3. printed' \in Seq(Result)
      BY <2>3, EmptySeq DEF End
    <3>4. QED
      BY <1>1, <1>17, <2>1, <2>3, <3>1, <3>2, <3>3 DEF ReadLen, TypeOK, End
  <2>4. QED
    BY <1>17, <2>2, <2>3 DEF ReadLen
<1>18. CASE ReadBody
  <2>1. pipe' \in Seq(Piece) /\ Len(pipe') <= Capacity
    BY <1>15, <1>18 DEF ReadBody
  <2>2. Head(pipe).msg \in Message
    <3>1. Head(pipe) \in Piece
      BY <1>1, <1>18, HeadTailProperties DEF ReadBody, TypeOK
    <3>2. QED
      BY <3>1 DEF Piece
  <2>3. results' \in Seq(Result)
    <3>1. Head(pipe).msg.kind = "result" => Head(pipe).msg.data \in Result
      BY <2>2, ResultData
    <3>2. \/ results' = results
          \/ Head(pipe).msg.kind = "result" /\ results' = Append(results, Head(pipe).msg.data)
      BY <1>18 DEF ReadBody
    <3>3. results \in Seq(Result)
      BY <1>1 DEF TypeOK
    <3>4. QED
      BY <3>1, <3>2, <3>3, AppendProperties
  <2>4. outcome' \in {"pending", "success", "failure", "error"}
    BY <1>1, <1>18 DEF ReadBody, Told, TypeOK
  <2>5. parent' \in {"reading", "waiting"} /\ got' = 0
    BY <1>18 DEF ReadBody
  <2>6. UNCHANGED <<worker, out, printed, verdict, produced>>
    BY <1>18 DEF ReadBody
  <2>7. QED
    BY <1>1, <2>1, <2>3, <2>4, <2>5, <2>6 DEF TypeOK
<1>19. CASE ReadEof
  <2>1. CASE End("error", <<>>)
    BY <1>1, <1>19, <2>1, EndType DEF ReadEof, TypeOK
  <2>2. CASE ~End("error", <<>>)
    BY <1>1, <1>19, <2>2 DEF ReadEof, TypeOK
  <2>3. QED
    BY <2>1, <2>2
<1>20. CASE Reap
  BY <1>1, <1>20 DEF Reap, TypeOK
<1>21. CASE ParentDies
  BY <1>1, <1>21 DEF ParentDies, TypeOK
<1>22. CASE UNCHANGED vars
  BY <1>1, <1>22 DEF vars, TypeOK
<1>23. QED
  BY <1>1, <1>3, <1>4, <1>5, <1>6, <1>7, <1>8, <1>9, <1>10, <1>11, <1>12, <1>13, <1>14,
     <1>16, <1>17, <1>18, <1>19, <1>20, <1>21, <1>22 DEF Next, Finished

(* A step that leaves the stream and what was read of it alone.            *)
LEMMA QuietInv ==
    ASSUME IInv, Stream' = Stream, UNCHANGED <<got, results, verdict, produced>>,
           worker' = worker \/ {worker, worker'} \subseteq {"unborn", "await", "begin"},
           parent' = "waiting" => parent = "waiting" /\ worker' = worker
    PROVE  FrameInv' /\ WorkerInv' /\ DoneInv' /\ ResultInv'
<1>1. FrameInv'
  BY DEF IInv, FrameInv
<1>2. WorkerInv'
  BY DEF IInv, WorkerInv
<1>3. DoneInv'
  BY DEF IInv, DoneInv
<1>4. \A i : Carries(i)' <=> Carries(i)
  BY DEF Carries
<1>5. \A n : Delivered(n)' <=> Delivered(n)
  BY <1>4 DEF Delivered
<1>6. worker' # "finish" \/ worker' = worker
  OBVIOUS
<1>7. ResultInv'
  BY <1>4, <1>5, <1>6 DEF IInv, ResultInv
<1>8. QED
  BY <1>1, <1>2, <1>3, <1>7

(* A worker is only there once it was spawned.                             *)
LEMMA StepStart == StartInv /\ [Next]_vars => StartInv'
<1>1. SUFFICES ASSUME StartInv, [Next]_vars, parent' = "starting" PROVE worker' = "unborn"
  BY DEF StartInv
<1>2. CASE Greet \/ Prepare \/ Scan \/ Report \/ Finish \/ Complain \/ GiveUp
  BY <1>1, <1>2 DEF StartInv, Greet, Prepare, Scan, Report, Finish, Complain, GiveUp
<1>3. CASE WritePiece \/ WriteFails \/ Exit \/ WorkerDies
  BY <1>1, <1>3 DEF StartInv, WritePiece, WriteFails, Exit, WorkerDies, Alive
<1>4. CASE Spawn \/ SpawnFails \/ SendEvent \/ SendFails
  BY <1>1, <1>4 DEF Spawn, SpawnFails, SendEvent, SendFails, End
<1>5. CASE ReadHead \/ ReadLen \/ ReadBody \/ ReadEof
  BY <1>1, <1>5 DEF ReadHead, ReadLen, ReadBody, ReadEof, End
<1>6. CASE Reap \/ ParentDies \/ UNCHANGED vars
  BY <1>1, <1>6 DEF StartInv, Reap, ParentDies, vars
<1>7. QED
  BY <1>1, <1>2, <1>3, <1>4, <1>5, <1>6 DEF Next, Finished

(* Every step keeps the invariant.                                         *)
LEMMA StepInv == IInv /\ [Next]_vars => IInv'
<1>1. SUFFICES ASSUME IInv, [Next]_vars PROVE IInv'
  OBVIOUS
<1>2. TypeOK' /\ StartInv'
  BY <1>1, StepType, StepStart DEF IInv
<1>3. ASSUME Stream' = Stream, UNCHANGED <<got, results, outcome, verdict, produced>>,
             worker' = worker \/ {worker, worker'} \subseteq {"unborn", "await", "begin"},
             parent' = "waiting" => parent = "waiting" /\ worker' = worker,
             outcome = "success" => parent' \in {"waiting", "ended", "dead"}
      PROVE  IInv'
  <2>1. OutcomeInv'
    BY <1>1, <1>3 DEF IInv, OutcomeInv
  <2>2. QED
    BY <1>1, <1>2, <1>3, <2>1, QuietInv DEF IInv
<1>4. ASSUME UNCHANGED <<pipe, out>> PROVE Stream' = Stream
  BY <1>4 DEF Stream
<1>5. CASE Greet
  <2>1. FrameInv' /\ DoneInv' /\ ResultInv' /\ OutcomeInv'
    BY <1>1, <1>5, EmitInv DEF Greet, Log
  <2>2. WorkerInv'
    BY <1>1, <1>5 DEF IInv, WorkerInv, Greet
  <2>3. QED
    BY <1>2, <2>1, <2>2 DEF IInv
<1>6. CASE Prepare
  <2>1. CASE worker' = "complain"
    <3>1. /\ worker = "prepare" /\ verdict' = "failed" /\ UNCHANGED out
          /\ UNCHANGED <<pipe, parent, got, results, outcome, printed, produced>>
      BY <1>6, <2>1 DEF Prepare
    <3>2. Stream' = Stream
      BY <1>4, <3>1
    <3>3. WorkerInv' /\ FrameInv' /\ DoneInv'
      BY <1>1, <2>1, <3>1, <3>2 DEF IInv, WorkerInv, FrameInv, DoneInv
    <3>4. \A i \in 1..Len(Stream) : Stream[i].msg # Done(TRUE)
      BY <1>1, <3>1 DEF IInv, DoneInv, Done
    <3>5. \A i : Carries(i)' <=> Carries(i)
      BY <3>2 DEF Carries
    <3>6. ResultInv'
      BY <1>1, <2>1, <3>1, <3>2, <3>4, <3>5 DEF IInv, ResultInv
    <3>7. OutcomeInv'
      BY <1>1, <3>1 DEF IInv, OutcomeInv, WorkerInv
    <3>8. QED
      BY <1>2, <3>3, <3>6, <3>7 DEF IInv
  <2>2. CASE worker' # "complain"
    <3>1. /\ worker = "prepare" /\ out = <<>> /\ Emit(Progress)
          /\ worker' \in {"scan", "report"}
          /\ UNCHANGED <<pipe, parent, got, results, outcome, printed, produced, verdict>>
      BY <1>6, <2>2 DEF Prepare
    <3>2. FrameInv' /\ DoneInv' /\ ResultInv' /\ OutcomeInv'
      BY <1>1, <3>1, EmitInv DEF Progress
    <3>3. WorkerInv'
      BY <1>1, <3>1 DEF IInv, WorkerInv
    <3>4. QED
      BY <1>2, <3>2, <3>3 DEF IInv
  <2>3. QED
    BY <2>1, <2>2
<1>7. CASE Scan
  <2>1. FrameInv' /\ DoneInv' /\ ResultInv' /\ OutcomeInv'
    BY <1>1, <1>7, EmitInv DEF Scan, Progress
  <2>2. WorkerInv'
    BY <1>1, <1>7 DEF IInv, WorkerInv, Scan
  <2>3. QED
    BY <1>2, <2>1, <2>2 DEF IInv
<1>8. CASE Complain
  <2>1. FrameInv' /\ DoneInv' /\ ResultInv' /\ OutcomeInv'
    BY <1>1, <1>8, EmitInv DEF Complain, Log
  <2>2. WorkerInv'
    BY <1>1, <1>8 DEF IInv, WorkerInv, Complain
  <2>3. QED
    BY <1>2, <2>1, <2>2 DEF IInv
<1>9. CASE GiveUp
  <2>1. FrameInv' /\ DoneInv' /\ ResultInv' /\ OutcomeInv'
    BY <1>1, <1>9, EmitInv DEF GiveUp
  <2>2. WorkerInv'
    BY <1>1, <1>9 DEF IInv, WorkerInv, GiveUp
  <2>3. QED
    BY <1>2, <2>1, <2>2 DEF IInv
<1>10. CASE Report
  <2>1. PICK r \in Result : Emit(ResultOf(r)) /\ produced' = Append(produced, r)
    BY <1>10 DEF Report
  <2>2. /\ worker = "report" /\ out = <<>> /\ worker' = "finish"
        /\ UNCHANGED <<pipe, parent, got, results, outcome, printed, verdict>>
    BY <1>10 DEF Report
  <2> DEFINE m == ResultOf(r)
  <2>3. m \in Message /\ m.kind = "result" /\ m.data = r
    BY MessageType DEF ResultOf
  <2>4. verdict = "running" /\ produced = <<>> /\ results = <<>> /\ produced' = <<r>>
    BY <1>1, <2>1, <2>2 DEF IInv, WorkerInv, ResultInv
  <2>5. FrameInv'
    BY <1>1, <2>1, <2>2, <2>3, EmitFrameInv DEF IInv
  <2>6. /\ Len(Stream) \in Nat /\ Len(Stream') = Len(Stream) + 3
        /\ Stream'[Len(Stream) + 3] = [part |-> "body", msg |-> m]
    BY <1>1, <2>1, <2>2, <2>3, StreamType, StreamEmit DEF IInv
  <2>7. \A i \in 1..Len(Stream') :
            \/ i \in 1..Len(Stream) /\ Stream'[i] = Stream[i]
            \/ /\ i \in (Len(Stream) + 1)..Len(Stream') /\ Stream'[i].msg = m
               /\ Stream'[i].part = "body" <=> i = Len(Stream')
    BY <1>1, <2>1, <2>2, <2>3, StreamEmitted DEF IInv
  <2>8. \A i \in 1..Len(Stream) : Stream[i].msg.kind \notin {"done", "result"}
    BY <1>1, <2>2, <2>4 DEF IInv, DoneInv, ResultInv
  <2>9. DoneInv'
    <3>1. \A i \in 1..Len(Stream') : Stream'[i].msg.kind # "done"
      BY <2>3, <2>7, <2>8
    <3>2. parent' # "waiting"
      BY <1>1, <2>2 DEF IInv, DoneInv
    <3>3. QED
      BY <3>1, <3>2 DEF DoneInv
  <2>10. WorkerInv'
    BY <2>2, <2>4 DEF WorkerInv
  <2>11. \A i \in 1..Len(Stream') : Carries(i)' <=> i = Len(Stream')
    BY <2>3, <2>6, <2>7, <2>8 DEF Carries
  <2>12. ResultInv'
    <3>1. \A i \in 1..Len(Stream') :
              Stream'[i].msg.kind = "result" => produced' = <<Stream'[i].msg.data>>
      BY <2>3, <2>4, <2>7, <2>8
    <3>2. \A i \in 1..Len(Stream') : Stream'[i].msg # Done(TRUE)
      <4>1. Done(TRUE).kind = "done"
        BY DEF Done
      <4>2. QED
        BY <2>3, <2>7, <2>8, <4>1
    <3>3. PICK n \in 1..Len(Stream') : n = Len(Stream')
      BY <2>6
    <3>4. Delivered(n)'
      BY <2>4, <2>11, <3>3 DEF Delivered
    <3>5. QED
      BY <2>2, <2>4, <2>11, <3>1, <3>2, <3>3, <3>4 DEF ResultInv
  <2>13. OutcomeInv'
    BY <1>1, <2>2, <2>4 DEF IInv, OutcomeInv
  <2>14. QED
    BY <1>2, <2>5, <2>9, <2>10, <2>12, <2>13 DEF IInv
<1>11. CASE Finish
  <2> DEFINE m == Done(TRUE)
  <2>1. /\ worker = "finish" /\ out = <<>> /\ worker' = "exit" /\ Emit(m)
        /\ verdict' = "succeeded"
        /\ UNCHANGED <<pipe, parent, got, results, outcome, printed, produced>>
    BY <1>11 DEF Finish
  <2>2. m \in Message /\ m.kind = "done"
    BY MessageType DEF Done
  <2>3. FrameInv'
    BY <1>1, <2>1, <2>2, EmitFrameInv DEF IInv
  <2>4. Len(Stream) \in Nat /\ Len(Stream') = Len(Stream) + 3
    BY <1>1, <2>1, <2>2, StreamType, StreamEmit DEF IInv
  <2>5. \A i \in 1..Len(Stream') :
            \/ i \in 1..Len(Stream) /\ Stream'[i] = Stream[i]
            \/ /\ i \in (Len(Stream) + 1)..Len(Stream') /\ Stream'[i].msg = m
               /\ Stream'[i].part = "body" <=> i = Len(Stream')
    BY <1>1, <2>1, <2>2, StreamEmitted DEF IInv
  <2>6. \A i \in 1..Len(Stream) : Stream[i].msg.kind # "done"
    BY <1>1, <2>1 DEF IInv, DoneInv
  <2>7. DoneInv'
    BY <1>1, <2>1, <2>5, <2>6 DEF IInv, DoneInv
  <2>8. WorkerInv'
    BY <1>1, <2>1 DEF IInv, WorkerInv
  <2>9. ASSUME NEW i \in 1..Len(Stream')
        PROVE  Carries(i)' <=> i \in 1..Len(Stream) /\ Carries(i)
    <3>1. CASE i \in 1..Len(Stream) /\ Stream'[i] = Stream[i]
      BY <3>1 DEF Carries
    <3>2. CASE i \in (Len(Stream) + 1)..Len(Stream') /\ Stream'[i].msg = m
      <4>1. i \notin 1..Len(Stream)
        BY <2>4, <3>2
      <4>2. QED
        BY <2>2, <3>2, <4>1 DEF Carries
    <3>3. QED
      BY <2>5, <3>1, <3>2
  <2>10. ResultInv'
    <3>1. \A i \in 1..Len(Stream') :
              Stream'[i].msg.kind = "result" => produced' = <<Stream'[i].msg.data>>
      BY <1>1, <2>1, <2>2, <2>5 DEF IInv, ResultInv
    <3>2. ASSUME NEW i \in 1..Len(Stream'), Carries(i)'
          PROVE  results' = <<>> /\ \A j \in 1..Len(Stream') : Carries(j)' => j = i
      BY <1>1, <2>1, <2>9, <3>2 DEF IInv, ResultInv
    <3>3. ASSUME NEW i \in 1..Len(Stream'), Stream'[i].msg = m PROVE Delivered(i - 1)'
      <4>1. i \in (Len(Stream) + 1)..Len(Stream')
        BY <2>2, <2>5, <2>6, <3>3
      <4>2. \A j \in 1..Len(Stream) : j \in 1..(i - 1) /\ j \in 1..Len(Stream')
        BY <2>4, <4>1
      <4>3. Delivered(Len(Stream))
        BY <1>1, <2>1 DEF IInv, ResultInv
      <4>4. QED
        BY <2>1, <2>9, <4>2, <4>3 DEF Delivered
    <3>4. results' \in {<<>>, produced'} /\ worker' # "finish" /\ verdict' = "succeeded"
      BY <1>1, <2>1 DEF IInv, ResultInv
    <3>5. QED
      BY <3>1, <3>2, <3>3, <3>4 DEF ResultInv
  <2>11. OutcomeInv'
    BY <1>1, <2>1 DEF IInv, OutcomeInv
  <2>12. QED
    BY <1>2, <2>3, <2>7, <2>8, <2>10, <2>11 DEF IInv
<1>12. CASE WritePiece
  <2>1. Stream' = Stream
    BY <1>1, <1>12, StreamWrite DEF IInv
  <2>2. QED
    BY <1>1, <1>3, <1>12, <2>1 DEF WritePiece, IInv, OutcomeInv
<1>13. CASE WriteFails \/ Exit \/ WorkerDies
  <2>1. Gone /\ UNCHANGED <<pipe, parent, got, results, outcome, printed, produced>>
    BY <1>13 DEF WriteFails, Exit, WorkerDies
  <2>2. /\ FrameInv' /\ WorkerInv' /\ DoneInv' /\ ResultInv'
        /\ verdict = "succeeded" => verdict' = "succeeded"
    BY <1>1, <2>1, GoneInv
  <2>3. OutcomeInv'
    BY <1>1, <2>1, <2>2 DEF IInv, OutcomeInv
  <2>4. QED
    BY <1>2, <2>2, <2>3 DEF IInv
<1>14. CASE Spawn \/ SendEvent
  <2>1. /\ UNCHANGED <<pipe, out, got, results, outcome, verdict, produced>>
        /\ {worker, worker'} \subseteq {"unborn", "await", "begin"}
        /\ parent \in {"starting", "sending"} /\ parent' \in {"sending", "reading"}
    <3>1. CASE Spawn
      <4>1. worker = "unborn"
        BY <1>1, <3>1 DEF IInv, StartInv, Spawn
      <4>2. QED
        BY <3>1, <4>1 DEF Spawn
    <3>2. CASE SendEvent
      BY <3>2 DEF SendEvent
    <3>3. QED
      BY <1>14, <3>1, <3>2
  <2>2. outcome # "success"
    BY <1>1, <2>1 DEF IInv, OutcomeInv
  <2>3. QED
    BY <1>3, <1>4, <2>1, <2>2
<1>15. ASSUME NEW o \in {"failure", "error"}, outcome' = o,
              UNCHANGED <<pipe, got, results, produced>>,
              IF Alive THEN Gone ELSE UNCHANGED <<worker, out, verdict>>, parent' # "waiting"
       PROVE  IInv'
  <2>1. OutcomeInv'
    BY <1>15 DEF OutcomeInv
  <2>2. FrameInv' /\ WorkerInv' /\ DoneInv' /\ ResultInv'
    <3>1. CASE Gone
      BY <1>1, <1>15, <3>1, GoneInv
    <3>2. CASE UNCHANGED <<worker, out, verdict>>
      BY <1>1, <1>4, <1>15, <3>2, QuietInv
    <3>3. QED
      BY <1>15, <3>1, <3>2
  <2>3. QED
    BY <1>2, <2>1, <2>2 DEF IInv
<1>16. CASE SpawnFails \/ SendFails
  BY <1>15, <1>16 DEF SpawnFails, SendFails, End
<1>17. CASE ReadHead
  <2>1. /\ got = 0 /\ got' = 1 /\ parent = "reading" /\ parent' = "reading"
        /\ pipe # <<>> /\ pipe' = Tail(pipe)
        /\ UNCHANGED <<worker, out, verdict, results, outcome, produced>>
    BY <1>17 DEF ReadHead
  <2>2. /\ FrameInv' /\ WorkerInv' /\ ResultInv' /\ DoneInv'
    BY <1>1, <2>1, ReadInv DEF DoneInv
  <2>3. OutcomeInv'
    BY <1>1, <2>1 DEF IInv, OutcomeInv
  <2>4. QED
    BY <1>2, <2>2, <2>3 DEF IInv
<1>18. CASE ReadLen
  <2>1. /\ got = 1 /\ got' = 2 /\ parent = "reading" /\ parent' \in {"reading", "ended"}
        /\ pipe # <<>> /\ pipe' = Tail(pipe)
        /\ UNCHANGED <<results, produced>>
        /\ UNCHANGED <<worker, out, verdict>> \/ Gone
        /\ outcome' \in {outcome, "error"}
    BY <1>18 DEF ReadLen, End
  <2>2. /\ FrameInv' /\ WorkerInv' /\ ResultInv' /\ DoneInv'
    BY <1>1, <2>1, ReadInv DEF DoneInv
  <2>3. OutcomeInv'
    BY <1>1, <2>1 DEF IInv, OutcomeInv
  <2>4. QED
    BY <1>2, <2>2, <2>3 DEF IInv
<1>19. CASE ReadBody
  <2> DEFINE m == Head(pipe).msg
  <2>1. /\ got = 2 /\ got' = 0 /\ parent = "reading"
        /\ pipe # <<>> /\ pipe' = Tail(pipe)
        /\ UNCHANGED <<worker, out, verdict, produced>>
        /\ results' = IF m.kind = "result" THEN Append(results, m.data) ELSE results
        /\ parent' = IF m.kind = "done" THEN "waiting" ELSE "reading"
        /\ outcome' = Told(m)
    BY <1>19 DEF ReadBody
  <2>2. /\ FrameInv' /\ WorkerInv' /\ ResultInv'
        /\ \A i \in 1..Len(Stream') :
              Stream'[i].msg.kind = "done" =>
                  /\ worker' \in {"exit", "gone"}
                  /\ Stream'[i].part = "body" => i = Len(Stream')
    BY <1>1, <2>1, ReadInv
  <2>3. /\ Stream[1] = Head(pipe) /\ m \in Message
        /\ 1 \in 1..Len(Stream) /\ Stream[1].part = "body"
        /\ Len(Stream') <= Len(Stream) - 1 /\ Stream' \in Seq(Piece) /\ Len(Stream) \in Nat
    <3>1. /\ Stream[1] = Head(pipe) /\ 1 <= Len(Stream) /\ Head(pipe) \in Piece
          /\ Len(Stream') <= Len(Stream) - 1 /\ Stream' \in Seq(Piece)
      BY <1>1, <2>1, StreamRead DEF IInv
    <3>2. Len(Stream) \in Nat /\ Stream # <<>>
      BY <1>1, <3>1, StreamType DEF IInv
    <3>3. Stream[1].part = "body"
      BY <1>1, <2>1, <3>2 DEF IInv, FrameInv
    <3>4. m \in Message
      BY <3>1 DEF Piece
    <3>5. QED
      BY <3>1, <3>2, <3>3, <3>4
  <2>4. DoneInv'
    <3>1. ASSUME parent' = "waiting"
          PROVE worker' = "gone" \/ (worker' = "exit" /\ Stream' = <<>>)
      <4>1. m.kind = "done"
        BY <2>1, <3>1
      <4>2. worker \in {"exit", "gone"} /\ 1 = Len(Stream)
        BY <1>1, <2>3, <4>1 DEF IInv, DoneInv
      <4>3. Len(Stream') \in Nat /\ Len(Stream') <= 0
        <5>1. Stream' \in Seq(Piece) /\ Len(Stream') <= Len(Stream) - 1
          BY <2>3
        <5>2. Len(Stream') \in Nat
          BY <5>1, LenProperties
        <5>3. Len(Stream) - 1 = 0
          BY <4>2
        <5>4. QED
          BY <5>1, <5>2, <5>3
      <4>4. Stream' = <<>>
        BY <2>3, <4>3, EmptySeq
      <4>5. QED
        BY <2>1, <4>2, <4>4
    <3>2. QED
      BY <2>2, <3>1 DEF DoneInv
  <2>5. OutcomeInv'
    <3>1. SUFFICES ASSUME outcome' = "success"
                   PROVE  parent' = "waiting" /\ verdict' = "succeeded" /\ results' = produced'
      BY DEF OutcomeInv
    <3>2. outcome # "success"
      BY <1>1, <2>1 DEF IInv, OutcomeInv
    <3>3. m.kind = "done" /\ m.success
      BY <2>1, <3>1, <3>2 DEF Told
    <3>4. m = Done(TRUE)
      BY <2>3, <3>3, DoneIsTrue
    <3>5. verdict = "succeeded" /\ Delivered(0)
      <4>1. verdict = "succeeded" /\ Delivered(1 - 1)
        BY <1>1, <2>3, <3>4, Zenon DEF IInv, ResultInv
      <4>2. QED
        BY <4>1
    <3>6. results = produced
      BY <3>5 DEF Delivered
    <3>7. m.kind # "result"
      BY <3>3
    <3>8. QED
      BY <2>1, <3>3, <3>5, <3>6, <3>7
  <2>6. QED
    BY <1>2, <2>2, <2>4, <2>5 DEF IInv
<1>20. CASE ReadEof
  <2>1. CASE got = 2
    BY <1>15, <1>20, <2>1 DEF ReadEof, End
  <2>2. CASE got # 2
    <3>1. /\ worker = "gone" /\ parent' = "waiting" /\ outcome' = "failure"
          /\ UNCHANGED <<worker, out, pipe, got, results, verdict, produced>>
      BY <1>20, <2>2 DEF ReadEof
    <3>2. Stream' = Stream
      BY <1>4, <3>1
    <3>3. FrameInv' /\ WorkerInv' /\ ResultInv'
      <4>1. \A i : Carries(i)' <=> Carries(i)
        BY <3>2 DEF Carries
      <4>2. \A n : Delivered(n)' <=> Delivered(n)
        BY <3>1, <4>1 DEF Delivered
      <4>3. QED
        BY <1>1, <3>1, <3>2, <4>1, <4>2 DEF IInv, FrameInv, WorkerInv, ResultInv
    <3>4. DoneInv'
      BY <1>1, <3>1, <3>2 DEF IInv, DoneInv
    <3>5. OutcomeInv'
      BY <3>1 DEF OutcomeInv
    <3>6. QED
      BY <1>2, <3>3, <3>4, <3>5 DEF IInv
  <2>3. QED
    BY <2>1, <2>2
<1>21. CASE Reap \/ ParentDies \/ UNCHANGED vars
  <2>1. /\ UNCHANGED <<worker, out, pipe, got, results, outcome, verdict, produced>>
        /\ parent' \in {parent, "ended", "dead"}
    BY <1>21 DEF Reap, ParentDies, vars
  <2>2. QED
    BY <1>1, <1>3, <1>4, <2>1 DEF IInv, OutcomeInv
<1>22. QED
  BY <1>1, <1>5, <1>6, <1>7, <1>8, <1>9, <1>10, <1>11, <1>12, <1>13, <1>14, <1>16, <1>17,
     <1>18, <1>19, <1>20, <1>21 DEF Next, Finished

(* What forked_scan gives up is a failure of the task run, without results; *)
(* the worker it abandons is lost, unless it was done.                      *)
LEMMA EndFails ==
    ASSUME NEW o \in {"failure", "error"}, End(o, <<>>), parent # "ended",
           UNCHANGED produced, Len(produced) \in Nat
    PROVE  Abstract!Fail
<1>1. <<>> = SubSeq(produced, 1, 0)
  BY SubSeqEmpty
<1>2. \E n \in 0..Len(produced) : printed' = SubSeq(produced, 1, n)
  BY <1>1 DEF End
<1>3. verdict' \in IF verdict = "running" THEN {"running", "lost"} ELSE {verdict}
  BY DEF End, Gone
<1>4. QED
  BY <1>2, <1>3 DEF End, Abstract!Fail

(* Every step of the two processes is a step of the task run, or invisible  *)
(* there: the worker's progress is the task's, the reaping its outcome.     *)
LEMMA RefineStep == IInv /\ [Next]_vars => [Abstract!Next]_(Abstract!vars)
<1>1. SUFFICES ASSUME IInv, [Next]_vars PROVE [Abstract!Next]_(Abstract!vars)
  OBVIOUS
<1>2. produced \in Seq(Result) /\ Len(produced) \in Nat
  BY <1>1, LenProperties DEF IInv, TypeOK
<1>3. ASSUME UNCHANGED <<verdict, produced, printed, outcome>>,
             parent' = parent \/ (parent # "ended" /\ parent' # "ended")
      PROVE  UNCHANGED Abstract!vars
  BY <1>3 DEF Abstract!vars
<1>4. CASE Greet \/ Scan \/ Complain \/ GiveUp \/ WritePiece
  BY <1>3, <1>4 DEF Greet, Scan, Complain, GiveUp, WritePiece
<1>5. CASE Spawn \/ SendEvent \/ ReadHead \/ ParentDies \/ UNCHANGED vars
  BY <1>3, <1>5 DEF Spawn, SendEvent, ReadHead, ParentDies, Reads, vars
<1>6. CASE Prepare \/ Report \/ Finish
  <2>1. verdict = "running"
    BY <1>1, <1>6 DEF IInv, WorkerInv, Prepare, Report, Finish
  <2>2. /\ UNCHANGED <<parent, outcome, printed>>
        /\ \/ verdict' \in {"succeeded", "failed"} /\ UNCHANGED produced
           \/ UNCHANGED <<verdict, produced>>
           \/ \E r \in Result : produced' = Append(produced, r) /\ UNCHANGED verdict
    BY <1>6 DEF Prepare, Report, Finish
  <2>3. Abstract!Run \/ UNCHANGED Abstract!vars
    BY <2>1, <2>2 DEF Abstract!Run, Abstract!vars
  <2>4. QED
    BY <2>3 DEF Abstract!Next
<1>7. CASE WriteFails \/ Exit \/ WorkerDies
  <2>1. Gone /\ UNCHANGED <<parent, outcome, printed, produced>>
    BY <1>7 DEF WriteFails, Exit, WorkerDies
  <2>2. Abstract!Lose \/ UNCHANGED Abstract!vars
    BY <2>1 DEF Gone, Abstract!Lose, Abstract!vars
  <2>3. QED
    BY <2>2 DEF Abstract!Next
<1>8. CASE SpawnFails \/ SendFails
  <2>1. Abstract!Fail
    BY <1>2, <1>8, EndFails DEF SpawnFails, SendFails
  <2>2. QED
    BY <2>1 DEF Abstract!Next
<1>9. CASE ReadLen
  <2>1. CASE TooLong(Head(pipe).msg)
    <3>1. Abstract!Fail
      BY <1>2, <1>9, <2>1, EndFails DEF ReadLen
    <3>2. QED
      BY <3>1 DEF Abstract!Next
  <2>2. CASE ~TooLong(Head(pipe).msg)
    BY <1>3, <1>9, <2>2 DEF ReadLen
  <2>3. QED
    BY <2>1, <2>2
<1>10. CASE ReadBody
  <2>1. /\ UNCHANGED <<verdict, produced, printed>>
        /\ parent = "reading" /\ parent' \in {"reading", "waiting"}
    BY <1>10 DEF ReadBody
  <2>2. QED
    BY <2>1 DEF Abstract!vars
<1>11. CASE ReadEof
  <2>1. CASE got = 2
    <3>1. Abstract!Fail
      BY <1>2, <1>11, <2>1, EndFails DEF ReadEof
    <3>2. QED
      BY <3>1 DEF Abstract!Next
  <2>2. CASE got # 2
    BY <1>11, <2>2 DEF ReadEof, Abstract!vars
  <2>3. QED
    BY <2>1, <2>2
<1>12. CASE Reap
  <2>1. /\ parent = "waiting" /\ parent' = "ended" /\ printed' = results
        /\ UNCHANGED <<outcome, verdict, produced>>
    BY <1>12 DEF Reap
  <2>2. CASE outcome = "success"
    <3>1. verdict = "succeeded" /\ results = produced
      BY <1>1, <2>2 DEF IInv, OutcomeInv
    <3>2. Abstract!Succeed
      BY <2>1, <2>2, <3>1 DEF Abstract!Succeed
    <3>3. QED
      BY <3>2 DEF Abstract!Next
  <2>3. CASE outcome # "success"
    <3>1. results \in {<<>>, produced}
      BY <1>1 DEF IInv, ResultInv
    <3>2. <<>> = SubSeq(produced, 1, 0) /\ produced = SubSeq(produced, 1, Len(produced))
      BY <1>2, SubSeqEmpty, SubSeqFull
    <3>3. \E n \in 0..Len(produced) : printed' = SubSeq(produced, 1, n)
      <4>1. 0 \in 0..Len(produced) /\ Len(produced) \in 0..Len(produced)
        BY <1>2
      <4>2. printed' = SubSeq(produced, 1, 0) \/ printed' = SubSeq(produced, 1, Len(produced))
        BY <2>1, <3>1, <3>2
      <4>3. QED
        BY <4>1, <4>2, Zenon
    <3>4. Abstract!Fail
      BY <2>1, <2>3, <3>3 DEF Abstract!Fail
    <3>5. QED
      BY <3>4 DEF Abstract!Next
  <2>4. QED
    BY <2>2, <2>3
<1>13. QED
  BY <1>1, <1>4, <1>5, <1>6, <1>7, <1>8, <1>9, <1>10, <1>11, <1>12 DEF Next, Finished
-----------------------------------------------------------------------------
(* The invariant holds in every reachable state.                           *)
THEOREM Invariance == Spec => []IInv
  BY InitInv, StepInv, PTL DEF Spec

(* Every variable keeps to its type; in particular the pipe never holds     *)
(* more than its capacity and the worker never more than one frame.         *)
THEOREM TypeCorrect == Spec => []TypeOK
<1>1. IInv => TypeOK
  BY DEF IInv
<1>2. QED
  BY <1>1, Invariance, PTL

(* read_message always finds in the pipe the piece it expects, wherever the *)
(* worker died and whatever was cut off.                                    *)
THEOREM FrameAlignedHolds == Spec => []FrameAligned
<1>1. IInv => FrameAligned
  <2>1. SUFFICES ASSUME IInv, pipe # <<>>
                 PROVE  Head(pipe).part = <<"head", "len", "body">>[got + 1]
    BY DEF FrameAligned
  <2>2. /\ pipe \in Seq(Piece) /\ out \in Seq(Piece)
    BY <2>1 DEF IInv, TypeOK
  <2>3. Len(pipe) \in Nat /\ Len(pipe) # 0 /\ Head(pipe) = pipe[1]
    BY <2>1, <2>2, LenProperties, EmptySeq
  <2>4. Stream[1] = Head(pipe) /\ Len(Stream) # 0
    BY <2>2, <2>3, Concatenated DEF Stream
  <2>5. Stream # <<>>
    BY <2>4, EmptySeq
  <2>6. QED
    BY <2>1, <2>4, <2>5 DEF IInv, FrameInv
<1>2. QED
  BY <1>1, Invariance, PTL

(* The daemon never waits for a worker that waits for it: behind the Done   *)
(* that it has read there is nothing left to write.                         *)
THEOREM WaitedWorkerIsDoneHolds == Spec => []WaitedWorkerIsDone
<1>1. IInv => WaitedWorkerIsDone
  <2>1. SUFFICES ASSUME IInv, parent = "waiting", Alive
                 PROVE  worker = "exit" /\ out = <<>> /\ pipe = <<>>
    BY DEF WaitedWorkerIsDone
  <2>2. worker = "exit" /\ Stream = <<>>
    BY <2>1 DEF IInv, DoneInv, Alive
  <2>3. pipe \in Seq(Piece) /\ out \in Seq(Piece)
    BY <2>1 DEF IInv, TypeOK
  <2>4. Len(pipe) + Len(out) = 0 /\ Len(pipe) \in Nat /\ Len(out) \in Nat
    BY <2>2, <2>3, Concatenated, EmptySeq DEF Stream
  <2>5. Len(pipe) = 0 /\ Len(out) = 0
    BY <2>4
  <2>6. QED
    BY <2>2, <2>3, <2>5, EmptySeq
<1>2. QED
  BY <1>1, Invariance, PTL

(* The protocol implements the task run: whatever dies and wherever a frame *)
(* is cut, forked_scan reports success only for a task that succeeded, with *)
(* everything it produced.                                                  *)
THEOREM Refines == Spec => TaskRunSpec
<1>1. Init => Abstract!Init
  BY DEF Init, Abstract!Init
<1>2. QED
  BY <1>1, RefineStep, Invariance, PTL DEF Spec, TaskRunSpec, Abstract!Spec
-----------------------------------------------------------------------------
(***************************************************************************)
(* The main loop of the daemon, for any requests, configurations and       *)
(* capacity of the channel: no event is lost, repeated or overtaken        *)
(* between the control server and the end of its handler.                  *)
(***************************************************************************)

HIDE ForkAssumption
USE DaemonAssumption

(* A sequence that is not empty is its head before its tail.               *)
LEMMA HeadBeforeTail ==
    ASSUME NEW S, NEW s \in Seq(S), s # <<>>
    PROVE  <<Head(s)>> \o Tail(s) = s
OBVIOUS

(* Putting an element at the end of a concatenation puts it at the end of   *)
(* its last part.                                                           *)
LEMMA LastOfConcat ==
    ASSUME NEW S, NEW h \in Seq(S), NEW c \in Seq(S), NEW e \in S
    PROVE  (h \o c) \o <<e>> = h \o (c \o <<e>>)
<1>1. <<e>> \in Seq(S)
  OBVIOUS
<1>2. QED
  BY <1>1, ConcatAssociative

(* Taking an element out of a sequence leaves a sequence over the same set. *)
LEMMA RemoveAtIsSeq ==
    ASSUME NEW S, NEW s \in Seq(S), NEW i \in DOMAIN s
    PROVE  RemoveAt(s, i) \in Seq(S)
<1>1. i \in 1..Len(s) /\ Len(s) \in Nat /\ \A j \in 1..Len(s) : s[j] \in S
  OBVIOUS
<1>2. SubSeq(s, 1, i - 1) \in Seq(S)
  BY <1>1, SubSeqProperties
<1>3. SubSeq(s, i + 1, Len(s)) \in Seq(S)
  BY <1>1, SubSeqProperties
<1>4. QED
  BY <1>2, <1>3, ConcatProperties DEF RemoveAt

(* Initially nothing is known of any request and the loop waits.           *)
LEMMA DaemonInit == LoopInit => LoopInv
<1>1. SUFFICES ASSUME LoopInit PROVE LoopInv
  OBVIOUS
<1>2. LoopTypeOK
  <2>1. status \in [Request -> {"unsent", "waiting", "accepted", "forbidden", "unavailable",
                                "gone"}]
    BY <1>1 DEF LoopInit
  <2>2. /\ <<>> \in Seq(Request)
        /\ Len(channel) <= Places
    BY <1>1 DEF LoopInit
  <2>3. /\ waiters \in Seq(Request) /\ channel \in Seq(Request)
        /\ accepted \in Seq(Request) /\ handled \in Seq(Request)
    BY <1>1, <2>2 DEF LoopInit
  <2>4. /\ listening \in BOOLEAN /\ due \in BOOLEAN /\ tick \in BOOLEAN
        /\ signal \in BOOLEAN /\ pressed \in BOOLEAN
    BY <1>1 DEF LoopInit
  <2>5. /\ pc \in {"select", "delaying", "scanning", "stopped"}
        /\ current \in Request \cup {NoRequest}
        /\ disk \in Config \cup {Malformed} /\ options \in Config
    BY <1>1 DEF LoopInit
  <2>6. QED
    BY <2>1, <2>2, <2>3, <2>4, <2>5 DEF LoopTypeOK
<1>3. AcceptedInOrder
  BY <1>1 DEF LoopInit, AcceptedInOrder, InHand
<1>4. HandInv
  BY <1>1 DEF LoopInit, HandInv
<1>5. QED
  BY <1>2, <1>3, <1>4 DEF LoopInv

(* The handler of a turn ends: what was in hand is handled.                *)
LEMMA EndsInv ==
    ASSUME LoopTypeOK, AcceptedInOrder, Ends(current),
           UNCHANGED <<accepted, channel>>
    PROVE  /\ AcceptedInOrder'
           /\ handled' \in Seq(Request)
           /\ current' = NoRequest
           /\ pc' = "select"
<1>1. current' = NoRequest /\ pc' = "select"
  BY DEF Ends
<1>2. CASE current = NoRequest
  BY <1>1, <1>2 DEF Ends, AcceptedInOrder, InHand, LoopTypeOK
<1>3. CASE current # NoRequest
  <2>1. current \in Request /\ handled \in Seq(Request) /\ channel \in Seq(Request)
    BY <1>3 DEF LoopTypeOK
  <2>2. handled' = Append(handled, current)
    BY <1>3 DEF Ends
  <2>3. handled' = handled \o <<current>> /\ handled' \in Seq(Request)
    BY <2>1, <2>2, AppendIsConcat, AppendProperties
  <2>4. accepted = (handled \o <<current>>) \o channel
    BY <1>3 DEF AcceptedInOrder, InHand
  <2>5. (handled' \o <<>>) \o channel = handled' \o channel
    BY <2>3, ConcatEmptySeq
  <2>6. AcceptedInOrder'
    BY <1>1, <2>3, <2>4, <2>5 DEF AcceptedInOrder, InHand
  <2>7. QED
    BY <1>1, <2>3, <2>6
<1>4. QED
  BY <1>2, <1>3

(* Every step keeps the invariant.                                         *)
LEMMA DaemonStep == LoopInv /\ [LoopNext]_loop_vars => LoopInv'
<1>1. SUFFICES ASSUME LoopInv, [LoopNext]_loop_vars PROVE LoopInv'
  OBVIOUS
<1>2. LoopTypeOK /\ AcceptedInOrder /\ HandInv
  BY <1>1 DEF LoopInv
<1> DEFINE Quiet == UNCHANGED <<accepted, handled, current, channel>>
<1>3. ASSUME Quiet PROVE AcceptedInOrder'
  BY <1>2, <1>3 DEF AcceptedInOrder, InHand
<1>4. ASSUME Quiet, UNCHANGED pc PROVE AcceptedInOrder' /\ HandInv'
  BY <1>2, <1>3, <1>4 DEF HandInv
<1>5. ASSUME NEW r \in Request, Arrive(r) PROVE LoopInv'
  <2>1. LoopTypeOK'
    <3>1. waiters' \in Seq(Request)
      <4>1. waiters \in Seq(Request) /\ Append(waiters, r) \in Seq(Request)
        BY <1>2, AppendProperties DEF LoopTypeOK
      <4>2. waiters' = Append(waiters, r) \/ waiters' = waiters
        BY <1>5, Zenon DEF Arrive
      <4>3. QED
        BY <4>1, <4>2
    <3>2. status' \in [Request -> {"unsent", "waiting", "accepted", "forbidden",
                                   "unavailable", "gone"}]
      BY <1>2, <1>5 DEF LoopTypeOK, Arrive
    <3>3. QED
      BY <1>2, <1>5, <3>1, <3>2 DEF LoopTypeOK, Arrive, loop
  <2>2. QED
    BY <1>4, <1>5, <2>1 DEF Arrive, loop, LoopInv
<1>6. ASSUME NEW r \in Request, Disconnect(r) PROVE LoopInv'
  <2>1. waiters' \in Seq(Request)
    BY <1>2, <1>6, RemoveAtIsSeq DEF LoopTypeOK, Disconnect
  <2>2. LoopTypeOK'
    BY <1>2, <1>6, <2>1 DEF LoopTypeOK, Disconnect, loop
  <2>3. QED
    BY <1>4, <1>6, <2>2 DEF Disconnect, loop, LoopInv
<1>7. CASE Send
  <2> DEFINE w == Head(waiters)
  <2>1. /\ w \in Request
        /\ Tail(waiters) \in Seq(Request)
        /\ channel \in Seq(Request) /\ accepted \in Seq(Request)
        /\ handled \o InHand \in Seq(Request)
    BY <1>2, <1>7, HeadTailProperties, ConcatProperties DEF LoopTypeOK, Send, InHand
  <2>2. /\ channel' = channel \o <<w>> /\ channel' \in Seq(Request)
        /\ Len(channel') = Len(channel) + 1
        /\ accepted' = accepted \o <<w>> /\ accepted' \in Seq(Request)
    BY <1>7, <2>1, AppendIsConcat, AppendProperties DEF Send
  <2>3. Len(channel') <= Places
    BY <1>7, <2>1, <2>2 DEF Send
  <2>4. LoopTypeOK'
    BY <1>2, <1>7, <2>1, <2>2, <2>3 DEF LoopTypeOK, Send, loop
  <2>5. accepted' = (handled \o InHand) \o channel'
    <3> DEFINE h == handled \o InHand
    <3>1. w \in Request /\ channel \in Seq(Request) /\ h \in Seq(Request)
      BY <2>1
    <3>2. (h \o channel) \o <<w>> = h \o (channel \o <<w>>)
      <4> HIDE DEF h, w
      <4>1. QED
        BY <3>1, LastOfConcat
    <3>3. accepted = h \o channel
      BY <1>2 DEF AcceptedInOrder
    <3>4. QED
      BY <2>2, <3>2, <3>3, Zenon
  <2>6. AcceptedInOrder'
    BY <1>7, <2>5 DEF AcceptedInOrder, InHand, Send, loop
  <2>7. HandInv'
    BY <1>2, <1>7 DEF HandInv, Send, loop
  <2>8. QED
    BY <2>4, <2>6, <2>7 DEF LoopInv
<1>8. CASE SendRefused
  <2>1. Tail(waiters) \in Seq(Request)
    BY <1>2, <1>8, HeadTailProperties DEF LoopTypeOK, SendRefused
  <2>2. LoopTypeOK'
    BY <1>2, <1>8, <2>1 DEF LoopTypeOK, SendRefused, loop
  <2>3. QED
    BY <1>4, <1>8, <2>2 DEF SendRefused, loop, LoopInv
<1>9. CASE ScheduledRun
  <2>1. LoopTypeOK'
    BY <1>2, <1>9 DEF LoopTypeOK, ScheduledRun, http
  <2>2. AcceptedInOrder'
    BY <1>3, <1>9 DEF ScheduledRun, http
  <2>3. HandInv'
    BY <1>2, <1>9 DEF HandInv, ScheduledRun, http
  <2>4. QED
    BY <2>1, <2>2, <2>3 DEF LoopInv
<1>10. CASE TakeEvent
  <2> DEFINE e == Head(channel)
  <2>1. /\ e \in Request
        /\ Tail(channel) \in Seq(Request)
        /\ Len(Tail(channel)) <= Places
        /\ <<e>> \o Tail(channel) = channel
        /\ handled \in Seq(Request)
    BY <1>2, <1>10, HeadTailProperties, HeadBeforeTail DEF LoopTypeOK, TakeEvent
  <2>2. LoopTypeOK'
    BY <1>2, <1>10, <2>1 DEF LoopTypeOK, TakeEvent
  <2>3. current = NoRequest /\ current' # NoRequest
    BY <1>2, <1>10, <2>1 DEF HandInv, TakeEvent
  <2>4. accepted = handled \o channel
    BY <1>2, <2>1, <2>3, ConcatEmptySeq DEF AcceptedInOrder, InHand
  <2>5. accepted = (handled \o <<e>>) \o Tail(channel)
    <3>1. <<e>> \in Seq(Request)
      BY <2>1
    <3>2. (handled \o <<e>>) \o Tail(channel) = handled \o (<<e>> \o Tail(channel))
      BY <2>1, <3>1, ConcatAssociative
    <3>3. QED
      BY <2>1, <2>4, <3>2
  <2>6. AcceptedInOrder'
    BY <1>10, <2>3, <2>5 DEF AcceptedInOrder, InHand, TakeEvent
  <2>7. HandInv'
    BY <1>10, <2>3 DEF HandInv, TakeEvent
  <2>8. QED
    BY <2>2, <2>6, <2>7 DEF LoopInv
<1>11. CASE Reload
  <2>1. LoopTypeOK'
    BY <1>2, <1>11 DEF LoopTypeOK, Reload, http
  <2>2. QED
    BY <1>4, <1>11, <2>1 DEF Reload, http, LoopInv
<1>12. CASE CtrlC
  <2>1. LoopTypeOK'
    BY <1>2, <1>12 DEF LoopTypeOK, CtrlC, http
  <2>2. AcceptedInOrder'
    BY <1>3, <1>12 DEF CtrlC, http
  <2>3. HandInv'
    BY <1>2, <1>12 DEF HandInv, CtrlC
  <2>4. QED
    BY <2>1, <2>2, <2>3 DEF LoopInv
<1>13. CASE Delayed
  <2>1. CASE Targeted(current)
    <3>1. LoopTypeOK'
      BY <1>2, <1>13, <2>1 DEF LoopTypeOK, Delayed, http
    <3>2. AcceptedInOrder'
      BY <1>3, <1>13, <2>1 DEF Delayed, http
    <3>3. HandInv'
      BY <1>13, <2>1 DEF HandInv, Delayed
    <3>4. QED
      BY <3>1, <3>2, <3>3 DEF LoopInv
  <2>2. CASE ~Targeted(current)
    <3>1. Ends(current) /\ UNCHANGED <<accepted, channel>>
      BY <1>13, <2>2 DEF Delayed, http
    <3>2. AcceptedInOrder' /\ handled' \in Seq(Request) /\ current' = NoRequest
          /\ pc' = "select"
      BY <1>2, <3>1, EndsInv
    <3>3. LoopTypeOK'
      BY <1>2, <1>13, <3>2 DEF LoopTypeOK, Delayed, http
    <3>4. HandInv'
      BY <3>2 DEF HandInv
    <3>5. QED
      BY <3>2, <3>3, <3>4 DEF LoopInv
  <2>3. QED
    BY <2>1, <2>2
<1>14. CASE ScanEnds
  <2>1. AcceptedInOrder' /\ handled' \in Seq(Request) /\ current' = NoRequest
        /\ pc' = "select"
    BY <1>2, <1>14, EndsInv DEF ScanEnds, http
  <2>2. LoopTypeOK'
    BY <1>2, <1>14, <2>1 DEF LoopTypeOK, ScanEnds, http
  <2>3. HandInv'
    BY <2>1 DEF HandInv
  <2>4. QED
    BY <2>1, <2>2, <2>3 DEF LoopInv
<1>15. CASE Due \/ Tick \/ PressCtrlC \/ EditConfig
  <2>1. LoopTypeOK'
    BY <1>2, <1>15 DEF LoopTypeOK, Due, Tick, PressCtrlC, EditConfig, http, loop
  <2>2. QED
    BY <1>4, <1>15, <2>1 DEF Due, Tick, PressCtrlC, EditConfig, http, loop, LoopInv
<1>16. CASE UNCHANGED loop_vars
  <2>1. LoopTypeOK'
    BY <1>2, <1>16 DEF LoopTypeOK, loop_vars, http, loop
  <2>2. QED
    BY <1>4, <1>16, <2>1 DEF loop_vars, http, loop, LoopInv
<1>17. QED
  BY <1>1, <1>5, <1>6, <1>7, <1>8, <1>9, <1>10, <1>11, <1>12, <1>13, <1>14, <1>15,
     <1>16 DEF LoopNext, Stopped

(* The inductive invariant holds in every reachable state of the daemon.   *)
THEOREM DaemonInvariance == LoopSpec => []LoopInv
<1>1. QED
  BY DaemonInit, DaemonStep, PTL DEF LoopSpec

(* Type correctness; in particular the channel never holds more than its   *)
(* capacity, and the daemon never holds a configuration that did not load. *)
THEOREM DaemonTypeCorrect == LoopSpec => []LoopTypeOK
<1>1. LoopInv => LoopTypeOK
  BY DEF LoopInv
<1>2. QED
  BY <1>1, DaemonInvariance, PTL

(* Accepted events are handled once each and in the order of acceptance,   *)
(* whatever arms of select! are dropped on the way.                        *)
THEOREM AcceptedInOrderHolds == LoopSpec => []AcceptedInOrder
<1>1. LoopInv => AcceptedInOrder
  BY DEF LoopInv
<1>2. QED
  BY <1>1, DaemonInvariance, PTL
-----------------------------------------------------------------------------
(***************************************************************************)
(* The pid file that the daemon holds while it runs: mutual exclusion, for *)
(* any number of processes, when starts are serialised.                    *)
(***************************************************************************)
HIDE DaemonAssumption
USE PidAssumption

\* Nothing runs at first.
LEMMA PidFileInit == PidInit => PidInv
<1> SUFFICES ASSUME PidInit PROVE PidInv
  OBVIOUS
<1>1. PidTypeOK
  BY DEF PidInit, PidTypeOK, ProcState
<1>2. Holder = {}
  BY DEF PidInit, Holder, Dropping
<1>3. QED
  BY <1>1, <1>2 DEF PidInit, PidInv, SerialInv, Acquiring

\* Changing what runs under one pid changes nothing about the others.
LEMMA BecomeFacts ==
    ASSUME PidTypeOK, NEW p \in Pid, NEW state \in ProcState, Become(p, state)
    PROVE  /\ proc' \in [Pid -> ProcState]
           /\ proc'[p] = state
           /\ \A q \in Pid \ {p} : proc'[q] = proc[q]
  BY DEF Become, PidTypeOK

\* Every step keeps the variables typed.
LEMMA PidFileStepType == PidTypeOK /\ [PidNext]_pid_vars => PidTypeOK'
<1> SUFFICES ASSUME PidTypeOK, [PidNext]_pid_vars PROVE PidTypeOK'
  OBVIOUS
<1>1. CASE UNCHANGED pid_vars
  BY <1>1 DEF PidTypeOK, pid_vars
<1>2. ASSUME NEW p \in Pid,
             OtherStarts(p) \/ OtherEnds(p) \/ Start(p) \/ Stop(p) \/ Kill(p)
      PROVE  PidTypeOK'
  BY <1>2 DEF OtherStarts, OtherEnds, Start, Stop, Kill, Become,
     PidTypeOK, ProcState, Acquiring, Dropping
<1>3. ASSUME NEW p \in Pid, Acquire(p)
      PROVE  PidTypeOK'
  <2>1. read_pid \in Pid \cup {Empty}
    BY DEF read_pid
  <2>2. CASE ReadPid(p)
    BY <2>1, <2>2 DEF ReadPid, Become, PidTypeOK, ProcState, Acquiring
  <2>3. CASE Refuse(p) \/ TakeOver(p)
    BY <2>3 DEF Refuse, TakeOver, Become, PidTypeOK, ProcState, Acquiring
  <2>4. CASE Truncate(p) \/ Write(p)
    BY <2>4 DEF Truncate, Write, Become, PidTypeOK, ProcState, Acquiring
  <2>5. QED
    BY <1>3, <2>2, <2>3, <2>4 DEF Acquire
<1>4. ASSUME NEW p \in Pid, Drop(p)
      PROVE  PidTypeOK'
  BY <1>4 DEF Drop, DropReads, RemoveFile, Become, PidTypeOK, ProcState, Dropping
<1>5. QED
  BY <1>1, <1>2, <1>3, <1>4 DEF PidNext

\* A step that only ends the process p keeps the invariant: no other process
\* changes, and only a holder touches the file.
LEMMA LeaveInv ==
    ASSUME PidTypeOK, SerialInv, NEW p \in Pid,
           Become(p, "free"), seen' = seen, file' = file \/ p \in Holder
    PROVE  SerialInv'
<1>1. /\ proc'[p] = "free"
      /\ \A q \in Pid \ {p} : proc'[q] = proc[q]
  BY BecomeFacts DEF ProcState, Dropping
<1>2. Holder' \subseteq Holder
  BY <1>1 DEF Holder, Dropping
<1>3. \A q \in Pid : proc'[q] \in Acquiring => q # p /\ proc'[q] = proc[q]
  BY <1>1 DEF Acquiring
<1>4. \A q \in Holder' : file' = q
  <2>1. CASE file' = file
    BY <2>1, <1>2 DEF SerialInv
  <2>2. CASE p \in Holder
    <3>1. p \notin Holder'
      BY <2>2, <1>1 DEF Holder, Dropping
    <3>2. Holder' = {}
      BY <3>1, <2>2, <1>2 DEF SerialInv
    <3>3. QED
      BY <3>2
  <2>3. QED
    BY <2>1, <2>2
<1>5. QED
  BY <1>2, <1>3, <1>4 DEF SerialInv, Acquiring

\* The steps of acquire, one by one, with no other agent inside it.
LEMMA AcquireInv ==
    ASSUME PidTypeOK, SerialInv, NEW p \in Pid, Acquire(p)
    PROVE  SerialInv'
<1>1. /\ proc \in [Pid -> ProcState]
      /\ seen \in [Pid -> Pid \cup {Empty}]
      /\ \A q \in Pid : proc[q] \in Acquiring /\ proc[p] \in Acquiring => q = p
  BY DEF PidTypeOK, SerialInv
<1>2. CASE ReadPid(p)
  <2>1. proc'[p] = "probing" /\ proc[p] = "reading" /\ file' = file
    BY <1>1, <1>2 DEF ReadPid, Become
  <2>2. \A q \in Pid \ {p} : proc'[q] = proc[q] /\ seen'[q] = seen[q]
    BY <1>1, <1>2 DEF ReadPid, Become
  <2>3. Holder' = Holder
    BY <2>1, <2>2 DEF Holder, Dropping
  <2>4. \A q \in Holder : seen'[p] = q
    <3>1. seen'[p] = read_pid
      BY <1>1, <1>2 DEF ReadPid
    <3>2. QED
      BY <3>1 DEF read_pid, SerialInv, Holder
  <2>5. \A q \in Pid \ {p} : proc'[q] \notin Acquiring
    BY <1>1, <2>1, <2>2 DEF Acquiring
  <2>6. QED
    BY <2>1, <2>3, <2>4, <2>5 DEF SerialInv, Acquiring
<1>3. CASE Refuse(p)
  BY <1>3, LeaveInv DEF Refuse
<1>4. CASE TakeOver(p)
  <2>1. proc'[p] = "truncating" /\ proc[p] = "probing" /\ file' = file /\ seen' = seen
    BY <1>1, <1>4 DEF TakeOver, Become
  <2>2. \A q \in Pid \ {p} : proc'[q] = proc[q]
    BY <1>1, <1>4 DEF TakeOver, Become
  <2>3. Holder' = Holder
    BY <2>1, <2>2 DEF Holder, Dropping
  <2>4. Holder = {}
    <3>1. SUFFICES ASSUME NEW q \in Holder PROVE FALSE
      OBVIOUS
    <3>2. seen[p] = q /\ q \in Pid
      BY <2>1 DEF SerialInv, Holder
    <3>3. q # p /\ proc[q] # "free"
      BY <2>1 DEF Holder, Dropping
    <3>4. QED
      BY <1>4, <3>2, <3>3 DEF TakeOver, process_is_alive
  <2>5. \A q \in Pid \ {p} : proc'[q] \notin Acquiring
    BY <1>1, <2>1, <2>2 DEF Acquiring
  <2>6. QED
    BY <2>3, <2>4, <2>5 DEF SerialInv
<1>5. CASE Truncate(p)
  <2>1. proc'[p] = "writing" /\ proc[p] = "truncating"
    BY <1>1, <1>5 DEF Truncate, Become
  <2>2. \A q \in Pid \ {p} : proc'[q] = proc[q]
    BY <1>1, <1>5 DEF Truncate, Become
  <2>3. Holder = {} /\ Holder' = Holder
    BY <2>1, <2>2 DEF Holder, Dropping, SerialInv
  <2>4. \A q \in Pid \ {p} : proc'[q] \notin Acquiring
    BY <1>1, <2>1, <2>2 DEF Acquiring
  <2>5. QED
    BY <2>3, <2>4 DEF SerialInv
<1>6. CASE Write(p)
  <2>1. proc'[p] = "running" /\ proc[p] = "writing" /\ file' = p
    BY <1>1, <1>6 DEF Write, Become
  <2>2. \A q \in Pid \ {p} : proc'[q] = proc[q]
    BY <1>1, <1>6 DEF Write, Become
  <2>3. Holder = {}
    BY <2>1 DEF SerialInv
  <2>4. Holder' = {p}
    BY <2>1, <2>2, <2>3 DEF Holder
  <2>5. \A q \in Pid : proc'[q] \notin Acquiring
    <3>1. proc'[p] \notin Acquiring /\ proc[p] \in Acquiring
      BY <2>1 DEF Acquiring
    <3>2. QED
      BY <1>1, <2>2, <3>1
  <2>6. QED
    BY <2>1, <2>4, <2>5 DEF SerialInv, Acquiring
<1>7. QED
  BY <1>2, <1>3, <1>4, <1>5, <1>6 DEF Acquire

\* A step outside acquire: starts are one at a time, the rest only leaves.
LEMMA OtherInv ==
    ASSUME PidTypeOK, SerialInv, Serialized, NEW p \in Pid,
           OtherStarts(p) \/ OtherEnds(p) \/ Start(p) \/ Stop(p)
           \/ Drop(p) \/ Kill(p)
    PROVE  SerialInv'
<1>1. proc \in [Pid -> ProcState]
  BY DEF PidTypeOK
<1>2. CASE OtherStarts(p)
  <2>1. proc'[p] = "unrelated" /\ \A q \in Pid \ {p} : proc'[q] = proc[q]
    BY <1>1, <1>2 DEF OtherStarts, Become
  <2>2. Holder' = Holder
    BY <1>2, <2>1 DEF OtherStarts, Holder, Dropping
  <2>3. QED
    BY <1>2, <2>1, <2>2 DEF OtherStarts, SerialInv, Acquiring
<1>3. CASE OtherEnds(p)
  BY <1>3, LeaveInv DEF OtherEnds
<1>4. CASE Start(p)
  <2>1. proc'[p] = "reading" /\ \A q \in Pid \ {p} : proc'[q] = proc[q]
    BY <1>1, <1>4 DEF Start, Become
  <2>2. Holder' = Holder
    BY <1>4, <2>1 DEF Start, Holder, Dropping
  <2>3. \A q \in Pid \ {p} : proc'[q] \notin Acquiring
    BY <1>4, <2>1 DEF Start, InTransit
  <2>4. QED
    BY <1>4, <2>1, <2>2, <2>3 DEF Start, SerialInv, Acquiring
<1>5. CASE Stop(p)
  <2>1. /\ proc[p] = "running" /\ proc'[p] = "rereading"
        /\ \A q \in Pid \ {p} : proc'[q] = proc[q]
    BY <1>1, <1>5 DEF Stop, Become
  <2>2. Holder' = Holder
    BY <2>1 DEF Holder, Dropping
  <2>3. QED
    BY <1>5, <2>1, <2>2 DEF Stop, SerialInv, Acquiring
<1>6. CASE DropReads(p)
  <2>1. p \in Holder
    BY <1>6 DEF DropReads, Holder, Dropping
  <2>2. file' = file /\ seen' = seen
    BY <1>6 DEF DropReads
  <2>3. CASE read_pid = p
    <3>1. proc'[p] = "removing" /\ \A q \in Pid \ {p} : proc'[q] = proc[q]
      BY <1>1, <1>6, <2>3 DEF DropReads, Become
    <3>2. Holder' = Holder
      BY <2>1, <3>1 DEF Holder, Dropping
    <3>3. QED
      BY <2>2, <3>1, <3>2 DEF SerialInv, Acquiring
  <2>4. CASE read_pid # p
    <3>1. Become(p, "free")
      BY <1>6, <2>4 DEF DropReads
    <3>2. QED
      BY <2>2, <3>1, LeaveInv
  <2>5. QED
    BY <2>3, <2>4
<1>7. CASE RemoveFile(p)
  <2>1. p \in Holder
    BY <1>7 DEF RemoveFile, Holder, Dropping
  <2>2. QED
    BY <1>7, <2>1, LeaveInv DEF RemoveFile
<1>8. CASE Kill(p)
  BY <1>8, LeaveInv DEF Kill
<1>9. QED
  BY <1>2, <1>3, <1>4, <1>5, <1>6, <1>7, <1>8 DEF Drop

\* Every step preserves the invariant.
LEMMA PidFileStep == PidInv /\ [PidNext]_pid_vars => PidInv'
<1> SUFFICES ASSUME PidInv, [PidNext]_pid_vars PROVE PidInv'
  OBVIOUS
<1>1. PidTypeOK /\ PidTypeOK'
  BY PidFileStepType DEF PidInv
<1>2. ASSUME Serialized PROVE SerialInv'
  <2>1. SerialInv
    BY <1>2 DEF PidInv
  <2>2. CASE UNCHANGED pid_vars
    BY <2>1, <2>2 DEF pid_vars, SerialInv, Holder
  <2>3. CASE PidNext
    BY <1>1, <1>2, <2>1, <2>3, AcquireInv, OtherInv DEF PidNext
  <2>4. QED
    BY <2>2, <2>3
<1>3. QED
  BY <1>1, <1>2 DEF PidInv
-----------------------------------------------------------------------------
(* The inductive invariant holds in every reachable state.                  *)
THEOREM PidFileInvariance == PidSpec => []PidInv
<1>1. QED
  BY PidFileInit, PidFileStep, PTL DEF PidSpec

(* Two agents never run over the same pid file when starts are serialised.  *)
THEOREM OneInstanceHolds == PidSpec => []OneInstance
<1>1. PidInv => OneInstance
  BY DEF PidInv, SerialInv, Holder, OneInstance
<1>2. QED
  BY <1>1, PidFileInvariance, PTL

(* The pid file then names the running agent.                               *)
THEOREM HolderRecordedHolds == PidSpec => []HolderRecorded
<1>1. PidInv => HolderRecorded
  BY DEF PidInv, SerialInv, Holder, HolderRecorded
<1>2. QED
  BY <1>1, PidFileInvariance, PTL

(* Drop then removes nothing but its own file.                              *)
THEOREM DropRemovesOwnHolds == PidSpec => DropRemovesOwn
<1>1. ASSUME PidInv, Serialized, NEW p \in Pid, RemoveFile(p)
      PROVE  file = p
  <2>1. p \in Holder
    BY <1>1 DEF RemoveFile, Holder, Dropping
  <2>2. QED
    BY <1>1, <2>1 DEF PidInv, SerialInv
<1>2. PidInv /\ [PidNext]_pid_vars =>
        [Serialized => \A p \in Pid : RemoveFile(p) => file = p]_pid_vars
  BY <1>1
<1>3. QED
  BY <1>2, PidFileInvariance, PTL DEF PidSpec, DropRemovesOwn
=============================================================================

-------------------------- MODULE ProxyRelayProofs --------------------------
(***************************************************************************)
(* Proofs about ProxyRelay, for any proxies, servers and configurations of  *)
(* them, any number of submissions and any depth of forwarding: an agent    *)
(* that is answered OK has reached every server and every local store       *)
(* behind its proxy, and nothing is sent onward before it is stored.        *)
(***************************************************************************)
EXTENDS ProxyRelay, SequenceTheorems, TLAPS

USE ProxyAssumption

\* Submission s is at every node that one to n is meant to reach: K are the stored
\* submissions of each proxy, A those that each server has applied.
Delivered(s, n, K, A) ==
    \A m \in Reach(n) : (m \in Glpi => s \in A[m]) /\ (m \in LocalStore => s \in K[m])

\* A handler that forwards has stored, and it has passed the servers that have it.
Sound(s, h, K, A) ==
    /\ (h.phase \in {"forward", "failed"} /\ h.node \in LocalStore) => s \in K[h.node]
    /\ h.node \in Proxy =>
          \A j \in 1..Len(forward_to(h.node)) :
              j < h.next => Delivered(s, forward_to(h.node)[j], K, A)

\* A handler that waits has called the one above it.
WaitsFor(h, above) ==
    /\ h.node \in Proxy /\ h.phase = "forward"
    /\ h.next \in 1..Len(forward_to(h.node))
    /\ forward_to(h.node)[h.next] = above.node

StackInv(s, handlers, first, K, A) ==
    /\ \A i \in 1..Len(handlers) : Sound(s, handlers[i], K, A)
    /\ \A i \in 1..(Len(handlers) - 1) : WaitsFor(handlers[i], handlers[i + 1])
    /\ Len(handlers) > 0 => handlers[1].node = first

\* What a server has, or was sent and may still apply, its entry proxy has stored.
EntryInv ==
    \A s \in Submission : \A g \in Glpi :
        ((s \in applied[g] \/ <<g, s>> \in late) /\ entry[s] \in LocalStore)
            => s \in kept[entry[s]]

IInv ==
    /\ TypeOK
    /\ \A s \in Submission : StackInv(s, stack[s], entry[s], kept, applied)
    /\ EntryInv
    /\ OkMeansDelivered
-----------------------------------------------------------------------------
(* What a node is meant to reach. *)

(* The servers of a proxy are nodes.                                        *)
LEMMA ForwardType ==
    ASSUME NEW n \in Proxy
    PROVE  /\ forward_to(n) \in Seq(Node) /\ Len(forward_to(n)) \in Nat
           /\ Onward(n) = {forward_to(n)[j] : j \in 1..Len(forward_to(n))}
           /\ \A j \in 1..Len(forward_to(n)) : forward_to(n)[j] \in Node
<1>1. forward_to(n) \in Seq(Node)
  BY EmptySeq DEF forward_to
<1>2. /\ Len(forward_to(n)) \in Nat /\ DOMAIN forward_to(n) = 1..Len(forward_to(n))
      /\ \A j \in 1..Len(forward_to(n)) : forward_to(n)[j] \in Node
  BY <1>1, LenProperties, ElementOfSeq
<1>3. QED
  BY <1>1, <1>2 DEF Onward, ToSet

(* Only nodes are sent anything.                                           *)
LEMMA OnwardNodes ==
    ASSUME NEW n
    PROVE  Onward(n) \subseteq Node
<1>1. CASE n \in Proxy
  BY <1>1, ForwardType
<1>2. CASE n \notin Proxy
  BY <1>2 DEF Onward
<1>3. QED
  BY <1>1, <1>2

(* What is reached is closed under the servers of its proxies.               *)
LEMMA ReachClosed ==
    ASSUME NEW n \in Node
    PROVE  /\ n \in Reach(n)
           /\ \A k \in Reach(n) : Onward(k) \subseteq Reach(n)
<1>1. n \in Reach(n)
  BY DEF Reach
<1>2. ASSUME NEW k \in Reach(n), NEW m \in Onward(k) PROVE m \in Reach(n)
  <2>1. m \in Node
    BY <1>2, OnwardNodes
  <2>2. ASSUME NEW S \in SUBSET Node, n \in S, \A x \in S : Onward(x) \subseteq S
        PROVE  m \in S
    BY <1>2, <2>2 DEF Reach
  <2>3. QED
    BY <2>1, <2>2 DEF Reach
<1>3. QED
  BY <1>1, <1>2

(* A node reaches itself and what the servers it forwards to reach.          *)
LEMMA ReachStep ==
    ASSUME NEW n \in Node, NEW m \in Reach(n), m # n
    PROVE  \E k \in Onward(n) : m \in Reach(k)
<1> DEFINE S == {n} \cup {x \in Node : \E k \in Onward(n) : x \in Reach(k)}
<1>1. Onward(n) \subseteq Node
  BY OnwardNodes
<1>2. ASSUME NEW x \in S, NEW y \in Onward(x) PROVE y \in S
  <2>1. y \in Node
    BY <1>2, OnwardNodes
  <2>2. CASE x = n
    BY <1>2, <2>1, <2>2, ReachClosed
  <2>3. CASE x # n
    <3>1. PICK k \in Onward(n) : x \in Reach(k)
      BY <1>2, <2>3
    <3>2. y \in Reach(k)
      BY <1>1, <1>2, <3>1, ReachClosed
    <3>3. QED
      BY <2>1, <3>1, <3>2
  <2>4. QED
    BY <2>2, <2>3
<1>3. S \in SUBSET Node /\ n \in S
  OBVIOUS
<1> HIDE DEF S
<1>4. m \in S
  BY <1>2, <1>3 DEF Reach
<1>5. QED
  BY <1>4 DEF S

(* A proxy that has stored, and all of whose servers have it, has delivered.  *)
LEMMA DeliveredProxy ==
    ASSUME NEW s, NEW K, NEW A, NEW n \in Proxy,
           n \in LocalStore => s \in K[n],
           \A j \in 1..Len(forward_to(n)) : Delivered(s, forward_to(n)[j], K, A)
    PROVE  Delivered(s, n, K, A)
<1> SUFFICES ASSUME NEW m \in Reach(n)
             PROVE  (m \in Glpi => s \in A[m]) /\ (m \in LocalStore => s \in K[m])
  BY DEF Delivered
<1>1. n \in Node /\ n \notin Glpi
  BY DEF Node
<1>2. CASE m = n
  BY <1>1, <1>2
<1>3. CASE m # n
  <2>1. PICK k \in Onward(n) : m \in Reach(k)
    BY <1>1, <1>3, ReachStep
  <2>2. PICK j \in 1..Len(forward_to(n)) : k = forward_to(n)[j]
    BY <2>1, ForwardType
  <2>3. Delivered(s, k, K, A)
    BY <2>2
  <2>4. QED
    BY <2>1, <2>3 DEF Delivered
<1>4. QED
  BY <1>2, <1>3

(* A server that has applied it has delivered.                              *)
LEMMA DeliveredGlpi ==
    ASSUME NEW s, NEW K, NEW A, NEW g \in Glpi, s \in A[g]
    PROVE  Delivered(s, g, K, A)
<1>1. g \in Node /\ g \notin Proxy /\ Onward(g) = {}
  BY DEF Node, Onward
<1>2. \A m \in Reach(g) : m = g
  BY <1>1, ReachStep
<1>3. g \notin LocalStore
  BY <1>1
<1>4. QED
  BY <1>2, <1>3 DEF Delivered

(* What is stored and applied stays so: nothing sound becomes unsound.        *)
LEMMA StackKeeps ==
    ASSUME NEW s, NEW handlers, NEW first, NEW K, NEW A, NEW K2, NEW A2,
           \A n \in Proxy : s \in K[n] => s \in K2[n],
           \A g \in Glpi : s \in A[g] => s \in A2[g],
           StackInv(s, handlers, first, K, A)
    PROVE  StackInv(s, handlers, first, K2, A2)
<1>1. ASSUME NEW n, Delivered(s, n, K, A) PROVE Delivered(s, n, K2, A2)
  BY <1>1 DEF Delivered
<1>2. ASSUME NEW h, Sound(s, h, K, A) PROVE Sound(s, h, K2, A2)
  <2>1. (h.phase \in {"forward", "failed"} /\ h.node \in LocalStore) => s \in K2[h.node]
    BY <1>2 DEF Sound
  <2>2. ASSUME h.node \in Proxy, NEW j \in 1..Len(forward_to(h.node)), j < h.next
        PROVE  Delivered(s, forward_to(h.node)[j], K2, A2)
    BY <1>1, <1>2, <2>2 DEF Sound
  <2>3. QED
    BY <2>1, <2>2 DEF Sound
<1>3. QED
  BY <1>2 DEF StackInv
-----------------------------------------------------------------------------
(* What becomes of the handlers of a submission. *)

(* All handlers but the last one, and another in its place.                  *)
LEMMA ReplaceLast ==
    ASSUME NEW handlers \in Seq(Frame), handlers # <<>>, NEW h \in Frame
    PROVE  /\ Front(handlers) \in Seq(Frame) /\ Len(Front(handlers)) = Len(handlers) - 1
           /\ \A i \in 1..(Len(handlers) - 1) : Front(handlers)[i] = handlers[i]
           /\ Append(Front(handlers), h) \in Seq(Frame)
           /\ Len(Append(Front(handlers), h)) = Len(handlers)
           /\ \A i \in 1..(Len(handlers) - 1) : Append(Front(handlers), h)[i] = handlers[i]
           /\ Append(Front(handlers), h)[Len(handlers)] = h
           /\ Last(handlers) = handlers[Len(handlers)] /\ Last(handlers) \in Frame
           /\ Len(handlers) \in Nat /\ Len(handlers) >= 1
<1> DEFINE n == Len(handlers)
<1>1. n \in Nat /\ n >= 1 /\ \A i \in 1..n : handlers[i] \in Frame
  BY EmptySeq, ElementOfSeq, LenProperties
<1> HIDE DEF n
<1>2. /\ SubSeq(handlers, 1, n - 1) \in Seq(Frame)
      /\ Len(SubSeq(handlers, 1, n - 1)) = n - 1
      /\ \A i \in 1..(n - 1) : SubSeq(handlers, 1, n - 1)[i] = handlers[i]
  <2>1. \A i \in 1..(n - 1) : handlers[i] \in Frame
    BY <1>1
  <2>2. n - 1 \in Int /\ 1 \in Int
    BY <1>1
  <2>3. /\ SubSeq(handlers, 1, n - 1) \in Seq(Frame)
        /\ Len(SubSeq(handlers, 1, n - 1)) = IF 1 <= n - 1 THEN (n - 1) - 1 + 1 ELSE 0
        /\ \A i \in 1..((n - 1) - 1 + 1) :
              SubSeq(handlers, 1, n - 1)[i] = handlers[1 + i - 1]
    BY <2>1, <2>2, SubSeqProperties
  <2>4. QED
    BY <1>1, <2>3
<1>3. Front(handlers) = SubSeq(handlers, 1, n - 1)
  BY DEF Front, n
<1> DEFINE f == Front(handlers)
<1>4. /\ f \in Seq(Frame) /\ Len(f) = n - 1 /\ \A i \in 1..(n - 1) : f[i] = handlers[i]
  BY <1>2, <1>3
<1> HIDE DEF f
<1>5. /\ Append(f, h) \in Seq(Frame) /\ Len(Append(f, h)) = Len(f) + 1
      /\ \A i \in 1..Len(f) : Append(f, h)[i] = f[i]
      /\ Append(f, h)[Len(f) + 1] = h
  BY <1>4, AppendProperties
<1>6. Len(f) + 1 = n
  BY <1>1, <1>4
<1>7. /\ Append(f, h) \in Seq(Frame) /\ Len(Append(f, h)) = n
      /\ \A i \in 1..(n - 1) : Append(f, h)[i] = handlers[i]
      /\ Append(f, h)[n] = h
  BY <1>4, <1>5, <1>6
<1>8. Last(handlers) = handlers[n] /\ Last(handlers) \in Frame
  BY <1>1 DEF Last, n
<1>9. QED
  BY <1>1, <1>4, <1>7, <1>8 DEF f, n

(* The active handler goes on: the one in its place is sound too.            *)
LEMMA SetActiveInv ==
    ASSUME NEW s, NEW first, NEW K, NEW A,
           NEW handlers \in Seq(Frame), handlers # <<>>, StackInv(s, handlers, first, K, A),
           NEW h \in Frame, h.node = Last(handlers).node, Sound(s, h, K, A)
    PROVE  StackInv(s, Append(Front(handlers), h), first, K, A)
<1> DEFINE n == Len(handlers)
           new == Append(Front(handlers), h)
<1>1. /\ Len(new) = n /\ n \in Nat /\ n >= 1 /\ new[n] = h
      /\ \A i \in 1..(n - 1) : new[i] = handlers[i]
      /\ h.node = handlers[n].node
  BY ReplaceLast
<1> HIDE DEF n, new
<1>2. ASSUME NEW i \in 1..n PROVE Sound(s, new[i], K, A) /\ new[i].node = handlers[i].node
  <2>1. CASE i = n
    BY <1>1, <2>1
  <2>2. CASE i # n
    <3>1. i \in 1..(n - 1)
      BY <1>1, <2>2
    <3>2. QED
      BY <1>1, <3>1 DEF StackInv, n
  <2>3. QED
    BY <2>1, <2>2
<1>3. ASSUME NEW i \in 1..(n - 1) PROVE WaitsFor(new[i], new[i + 1])
  <2>1. WaitsFor(handlers[i], handlers[i + 1])
    BY DEF StackInv, n
  <2>2. i + 1 \in 1..n
    BY <1>1
  <2>3. new[i + 1].node = handlers[i + 1].node /\ new[i] = handlers[i]
    BY <1>1, <1>2, <2>2
  <2>4. QED
    BY <2>1, <2>3 DEF WaitsFor
<1>4. 1 \in 1..n /\ new[1].node = first
  <2>1. 1 \in 1..n
    BY <1>1
  <2>2. handlers[1].node = first
    BY <1>1 DEF StackInv, n
  <2>3. QED
    BY <1>2, <2>1, <2>2
<1>5. QED
  BY <1>1, <1>2, <1>3, <1>4 DEF StackInv, new

(* The first handlers of a submission are a stack of their own.              *)
LEMMA CallersInv ==
    ASSUME NEW s, NEW first, NEW K, NEW A,
           NEW handlers \in Seq(Frame), StackInv(s, handlers, first, K, A),
           NEW callers \in Seq(Frame), Len(callers) <= Len(handlers),
           \A i \in 1..Len(callers) : callers[i] = handlers[i]
    PROVE  StackInv(s, callers, first, K, A)
<1>1. Len(callers) \in Nat /\ Len(handlers) \in Nat
  BY LenProperties
<1>2. \A i \in 1..Len(callers) : Sound(s, callers[i], K, A)
  BY <1>1 DEF StackInv
<1>3. ASSUME NEW i \in 1..(Len(callers) - 1) PROVE WaitsFor(callers[i], callers[i + 1])
  <2>1. i \in 1..Len(callers) /\ i + 1 \in 1..Len(callers) /\ i \in 1..(Len(handlers) - 1)
    BY <1>1
  <2>2. callers[i] = handlers[i] /\ callers[i + 1] = handlers[i + 1]
    BY <2>1
  <2>3. QED
    BY <2>1, <2>2 DEF StackInv
<1>4. Len(callers) > 0 => callers[1].node = first
  <2>1. ASSUME Len(callers) > 0
        PROVE  callers[1] = handlers[1] /\ Len(handlers) > 0
    BY <1>1, <2>1
  <2>2. QED
    BY <2>1 DEF StackInv
<1>5. QED
  BY <1>2, <1>3, <1>4 DEF StackInv

(* An answer of the active handler ends the submission, or goes to the        *)
(* handler that waits for it, which is as sound as before.                   *)
LEMMA ReturnInv ==
    ASSUME TypeOK, NEW s \in Submission, Busy(s), NEW code \in Codes \ {"unsent", "pending"},
           Return(s, code), NEW K, NEW A,
           StackInv(s, stack[s], entry[s], K, A),
           code = "OK" => Delivered(s, Active(s).node, K, A)
    PROVE  /\ stack' \in [Submission -> Seq(Frame)] /\ answer' \in [Submission -> Codes]
           /\ \A t \in Submission \ {s} : stack'[t] = stack[t] /\ answer'[t] = answer[t]
           /\ stack'[s] # <<>> <=> answer'[s] = "pending"
           /\ StackInv(s, stack'[s], entry[s], K, A)
           /\ answer'[s] = "OK" => Delivered(s, entry[s], K, A)
<1> DEFINE handlers == stack[s]
           n == Len(handlers)
           callers == Front(handlers)
<1>1. handlers \in Seq(Frame) /\ handlers # <<>> /\ answer[s] = "pending"
  BY DEF TypeOK, Busy
<1>2. /\ n \in Nat /\ n >= 1 /\ Active(s) = handlers[n] /\ Active(s) \in Frame
      /\ callers \in Seq(Frame) /\ Len(callers) = n - 1
      /\ \A i \in 1..(n - 1) : callers[i] = handlers[i]
  BY <1>1, ReplaceLast DEF Active
<1>3. StackInv(s, handlers, entry[s], K, A)
  OBVIOUS
<1>4. /\ stack \in [Submission -> Seq(Frame)] /\ answer \in [Submission -> Codes]
  BY DEF TypeOK
<1>5. CASE callers = <<>>
  <2>1. /\ stack' = [stack EXCEPT ![s] = <<>>] /\ answer' = [answer EXCEPT ![s] = code]
    BY <1>5 DEF Return
  <2>2. n = 1
    BY <1>2, <1>5, EmptySeq
  <2>3. code = "OK" => Delivered(s, entry[s], K, A)
    BY <1>2, <1>3, <2>2 DEF StackInv
  <2>4. StackInv(s, <<>>, entry[s], K, A)
    <3>1. Len(<<>>) = 0
      BY EmptySeq
    <3>2. QED
      BY <3>1 DEF StackInv
  <2>5. <<>> \in Seq(Frame)
    BY EmptySeq
  <2>6. stack'[s] = <<>> /\ answer'[s] = code
    BY <1>4, <2>1
  <2>7. QED
    BY <1>4, <2>1, <2>3, <2>4, <2>5, <2>6
<1>6. CASE callers # <<>>
  <2> DEFINE caller == Last(callers)
             new == IF code = "OK" THEN [caller EXCEPT !.next = @ + 1]
                    ELSE [caller EXCEPT !.phase = "failed"]
  <2>1. /\ stack' = [stack EXCEPT ![s] = Append(Front(callers), new)] /\ answer' = answer
    BY <1>6 DEF Return
  <2>2. caller \in Frame /\ caller = handlers[n - 1] /\ n - 1 \in 1..(n - 1)
    <3>1. caller = callers[Len(callers)] /\ caller \in Frame /\ Len(callers) >= 1
      BY <1>2, <1>6, ReplaceLast
    <3>2. QED
      BY <1>2, <3>1
  <2>3. Sound(s, caller, K, A) /\ WaitsFor(caller, Active(s))
    <3>1. n - 1 \in 1..n /\ (n - 1) + 1 = n
      BY <1>2, <2>2
    <3>2. Sound(s, handlers[n - 1], K, A)
      BY <1>3, <3>1 DEF StackInv
    <3>3. WaitsFor(handlers[n - 1], handlers[(n - 1) + 1])
      BY <1>3, <2>2 DEF StackInv
    <3>4. QED
      BY <1>2, <2>2, <3>1, <3>2, <3>3
  <2> HIDE DEF caller
  <2>4. new \in Frame /\ new.node = caller.node
    <3>1. caller.next \in Nat \ {0}
      BY <2>2 DEF Frame
    <3>2. caller.next + 1 \in Nat \ {0}
      BY <3>1
    <3>3. QED
      BY <2>2, <3>2 DEF Frame
  <2>5. Sound(s, new, K, A)
    <3>1. CASE code = "OK"
      <4>1. /\ new.phase = "forward" /\ new.node = caller.node /\ new.next = caller.next + 1
            /\ caller.phase = "forward" /\ caller.next \in Nat
        BY <2>2, <2>3, <3>1 DEF WaitsFor, Frame
      <4>2. ASSUME caller.node \in Proxy, NEW j \in 1..Len(forward_to(caller.node)),
                   j < caller.next + 1
            PROVE  Delivered(s, forward_to(caller.node)[j], K, A)
        <5>1. CASE j = caller.next
          BY <2>3, <3>1, <5>1 DEF WaitsFor
        <5>2. CASE j < caller.next
          BY <2>3, <4>2, <5>2 DEF Sound
        <5>3. QED
          BY <4>1, <4>2, <5>1, <5>2
      <4>3. caller.node \in LocalStore => s \in K[caller.node]
        BY <2>3, <4>1 DEF Sound
      <4>4. QED
        BY <4>1, <4>2, <4>3 DEF Sound
    <3>2. CASE code # "OK"
      <4>1. new.phase = "failed" /\ new.node = caller.node /\ new.next = caller.next
        BY <2>2, <3>2 DEF Frame
      <4>2. caller.phase = "forward"
        BY <2>3 DEF WaitsFor
      <4>3. QED
        BY <2>3, <4>1, <4>2 DEF Sound
    <3>3. QED
      BY <3>1, <3>2
  <2> HIDE DEF new
  <2>6. StackInv(s, callers, entry[s], K, A)
    <3>1. Len(callers) <= Len(handlers) /\ Len(callers) = n - 1
      BY <1>2
    <3>2. \A i \in 1..Len(callers) : callers[i] = handlers[i]
      BY <1>2, <3>1
    <3>3. QED
      BY <1>1, <1>2, <1>3, <3>1, <3>2, CallersInv
  <2>7. /\ StackInv(s, Append(Front(callers), new), entry[s], K, A)
        /\ Append(Front(callers), new) \in Seq(Frame) /\ Append(Front(callers), new) # <<>>
    <3>1. StackInv(s, Append(Front(callers), new), entry[s], K, A)
      BY <1>2, <1>6, <2>4, <2>5, <2>6, SetActiveInv DEF caller
    <3>2. /\ Append(Front(callers), new) \in Seq(Frame)
          /\ Len(Append(Front(callers), new)) >= 1
      BY <1>2, <1>6, <2>4, ReplaceLast
    <3>3. QED
      BY <3>1, <3>2, EmptySeq
  <2>8. /\ stack' \in [Submission -> Seq(Frame)]
        /\ stack'[s] = Append(Front(callers), new)
        /\ \A t \in Submission \ {s} : stack'[t] = stack[t]
    BY <1>4, <2>1, <2>7
  <2>9. QED
    BY <1>1, <1>4, <2>1, <2>7, <2>8
<1>7. QED
  BY <1>5, <1>6
-----------------------------------------------------------------------------
(* The steps. *)

(* A step for one submission leaves what is known of the others: what was     *)
(* stored and applied before still is.                                       *)
LEMMA OneSubmission ==
    ASSUME IInv, NEW s \in Submission, entry' = entry,
           stack' \in [Submission -> Seq(Frame)], answer' \in [Submission -> Codes],
           \A t \in Submission \ {s} : stack'[t] = stack[t] /\ answer'[t] = answer[t],
           stack'[s] # <<>> <=> answer'[s] = "pending",
           file' \in [Proxy -> NoFile..Mixed], kept' \in [Proxy -> SUBSET Submission],
           applied' \in [Glpi -> SUBSET Submission], late' \subseteq Glpi \X Submission,
           \A n \in Proxy : kept[n] \subseteq kept'[n],
           \A g \in Glpi : applied[g] \subseteq applied'[g],
           StackInv(s, stack'[s], entry[s], kept', applied'),
           answer'[s] = "OK" => Delivered(s, entry[s], kept', applied'),
           EntryInv'
    PROVE  IInv'
<1>1. TypeOK'
  <2>1. \A t \in Submission : stack'[t] # <<>> <=> answer'[t] = "pending"
    BY DEF IInv, TypeOK
  <2>2. entry' \in [Submission -> Proxy]
    BY DEF IInv, TypeOK
  <2>3. QED
    BY <2>1, <2>2 DEF TypeOK
<1>2. ASSUME NEW t \in Submission
      PROVE  StackInv(t, stack'[t], entry'[t], kept', applied')
  <2>1. CASE t = s
    BY <2>1
  <2>2. CASE t # s
    <3>1. StackInv(t, stack[t], entry[t], kept, applied)
      BY DEF IInv
    <3>2. /\ \A n \in Proxy : t \in kept[n] => t \in kept'[n]
          /\ \A g \in Glpi : t \in applied[g] => t \in applied'[g]
      OBVIOUS
    <3>3. StackInv(t, stack[t], entry[t], kept', applied')
      BY <3>1, <3>2, StackKeeps
    <3>4. QED
      BY <2>2, <3>3
  <2>3. QED
    BY <2>1, <2>2
<1>3. ASSUME NEW t \in Submission, answer'[t] = "OK"
      PROVE  Delivered(t, entry[t], kept', applied')
  <2>1. CASE t = s
    BY <1>3, <2>1
  <2>2. CASE t # s
    <3>1. answer[t] = "OK"
      BY <1>3, <2>2
    <3>2. Delivered(t, entry[t], kept, applied)
      BY <3>1 DEF IInv, OkMeansDelivered, Delivered
    <3>3. QED
      BY <3>2 DEF Delivered
  <2>3. QED
    BY <2>1, <2>2
<1>4. OkMeansDelivered'
  BY <1>3 DEF OkMeansDelivered, Delivered
<1>5. QED
  BY <1>1, <1>2, <1>4 DEF IInv

(* The handlers of a submission, when one of them is at work.                *)
LEMMA BusyFacts ==
    ASSUME IInv, NEW s \in Submission, Busy(s)
    PROVE  /\ stack[s] \in Seq(Frame) /\ stack[s] # <<>> /\ answer[s] = "pending"
           /\ Active(s) \in Frame /\ Active(s) = Last(stack[s])
           /\ StackInv(s, stack[s], entry[s], kept, applied)
           /\ Sound(s, Active(s), kept, applied)
<1>1. stack[s] \in Seq(Frame) /\ stack[s] # <<>> /\ answer[s] = "pending"
  BY DEF IInv, TypeOK, Busy
<1>2. StackInv(s, stack[s], entry[s], kept, applied)
  BY DEF IInv
<1>3. /\ Active(s) \in Frame /\ Active(s) = Last(stack[s])
      /\ Active(s) = stack[s][Len(stack[s])] /\ Len(stack[s]) \in Nat /\ Len(stack[s]) >= 1
  BY <1>1, ReplaceLast DEF Active
<1>4. Sound(s, Active(s), kept, applied)
  <2>1. Len(stack[s]) \in 1..Len(stack[s])
    BY <1>3
  <2>2. QED
    BY <1>2, <1>3, <2>1 DEF StackInv
<1>5. QED
  BY <1>1, <1>2, <1>3, <1>4

(* A submission that is with a GLPI server was stored by its entry proxy.     *)
LEMMA Entered ==
    ASSUME IInv, NEW s \in Submission, Busy(s), Active(s).node \in Glpi,
           entry[s] \in LocalStore
    PROVE  s \in kept[entry[s]]
<1> DEFINE n == Len(stack[s])
<1>1. /\ n \in Nat /\ n >= 1 /\ Active(s) = stack[s][n]
      /\ StackInv(s, stack[s], entry[s], kept, applied)
  <2>1. Active(s) = stack[s][n] /\ n \in Nat /\ n >= 1
    BY BusyFacts, ReplaceLast
  <2>2. QED
    BY <2>1, BusyFacts
<1>2. stack[s][1].node = entry[s] /\ entry[s] \in Proxy
  BY <1>1 DEF StackInv, IInv, TypeOK
<1>3. n # 1
  BY <1>1, <1>2
<1> HIDE DEF n
<1>4. 1 \in 1..n /\ 1 \in 1..(n - 1)
  <2>1. n \in Nat /\ n >= 1
    BY <1>1
  <2>2. QED
    BY <2>1, <1>3
<1>5. stack[s][1].phase = "forward"
  BY <1>1, <1>4 DEF StackInv, WaitsFor, n
<1>6. Sound(s, stack[s][1], kept, applied)
  BY <1>1, <1>4 DEF StackInv, n
<1>7. QED
  BY <1>2, <1>5, <1>6 DEF Sound

(* The steps that answer: what the active handler answers is true.           *)
LEMMA StepReturn ==
    ASSUME IInv, NEW s \in Submission,
           Reject(s) \/ StoreFails(s) \/ Done(s) \/ ForwardFailed(s) \/ Apply(s) \/ Refuse(s)
    PROVE  IInv'
<1>1. PICK code \in Codes \ {"unsent", "pending"} :
           /\ Return(s, code)
           /\ code = "OK" => Done(s) \/ Apply(s)
  BY DEF Reject, Decision, plan, Accept, StoreFails, Done, ForwardFailed, Apply, Refuse, Codes
<1>2. Busy(s) /\ entry' = entry /\ file' = file /\ kept' = kept /\ late' = late
  BY DEF Reject, StoreFails, Done, ForwardFailed, Apply, Refuse, At, AtGlpi
<1>3. applied' = applied \/ (Apply(s) /\ applied' = [applied EXCEPT ![Active(s).node] = @ \cup {s}])
  BY DEF Reject, StoreFails, Done, ForwardFailed, Apply, Refuse
<1>4. /\ applied' \in [Glpi -> SUBSET Submission]
      /\ \A g \in Glpi : applied[g] \subseteq applied'[g]
      /\ \A g \in Glpi : \A t \in applied'[g] :
            t \in applied[g] \/ (t = s /\ Active(s).node \in Glpi)
      /\ Apply(s) => Active(s).node \in Glpi /\ s \in applied'[Active(s).node]
  <2>1. applied \in [Glpi -> SUBSET Submission]
    BY DEF IInv, TypeOK
  <2>2. Apply(s) => /\ Active(s).node \in Glpi
                    /\ applied' = [applied EXCEPT ![Active(s).node] = @ \cup {s}]
    BY DEF Apply, AtGlpi
  <2>3. CASE applied' = applied
    <3>1. Apply(s) => s \in applied[Active(s).node]
      BY <2>1, <2>2, <2>3
    <3>2. QED
      BY <2>1, <2>2, <2>3, <3>1
  <2>4. CASE Apply(s)
    <3> DEFINE at == Active(s).node
    <3>1. at \in Glpi /\ applied' = [applied EXCEPT ![at] = @ \cup {s}]
      BY <2>2, <2>4
    <3> HIDE DEF at
    <3>2. \A g \in Glpi : applied'[g] = IF g = at THEN applied[g] \cup {s} ELSE applied[g]
      BY <2>1, <3>1
    <3>3. applied' \in [Glpi -> SUBSET Submission]
      BY <2>1, <3>1
    <3>4. /\ \A g \in Glpi : applied[g] \subseteq applied'[g]
          /\ \A g \in Glpi : \A t \in applied'[g] : t \in applied[g] \/ (t = s /\ at \in Glpi)
          /\ s \in applied'[at]
      <4>1. \A g \in Glpi : applied[g] \subseteq applied'[g]
        BY <3>2
      <4>2. ASSUME NEW g \in Glpi, NEW t \in applied'[g]
            PROVE  t \in applied[g] \/ (t = s /\ at \in Glpi)
        BY <3>1, <3>2
      <4>3. s \in applied'[at]
        <5>1. at \in Glpi
          BY <3>1
        <5>2. applied'[at] = applied[at] \cup {s}
          BY <3>2, <5>1
        <5>3. QED
          BY <5>2
      <4>4. QED
        BY <4>1, <4>2, <4>3
    <3>5. QED
      BY <3>1, <3>3, <3>4 DEF at
  <2>5. QED
    BY <1>3, <2>3, <2>4
<1>5. StackInv(s, stack[s], entry[s], kept', applied')
  <2>1. StackInv(s, stack[s], entry[s], kept, applied)
    BY <1>2, BusyFacts
  <2>2. /\ \A n \in Proxy : s \in kept[n] => s \in kept'[n]
        /\ \A g \in Glpi : s \in applied[g] => s \in applied'[g]
    BY <1>2, <1>4
  <2>3. QED
    BY <2>1, <2>2, StackKeeps
<1>6. code = "OK" => Delivered(s, Active(s).node, kept', applied')
  <2>1. CASE Done(s)
    <3>1. /\ Active(s).node \in Proxy /\ Active(s).phase = "forward"
          /\ Active(s).next > Len(forward_to(Active(s).node))
      BY <2>1 DEF Done, At
    <3>2. Sound(s, Active(s), kept', applied') /\ Active(s).next \in Nat
      <4>1. Sound(s, Active(s), kept, applied) /\ Active(s) \in Frame
        BY <1>2, BusyFacts
      <4>2. applied' = applied
        BY <2>1 DEF Done
      <4>3. QED
        BY <1>2, <4>1, <4>2 DEF Frame
    <3>3. \A j \in 1..Len(forward_to(Active(s).node)) : j < Active(s).next
      BY <3>1, <3>2, ForwardType
    <3>4. QED
      BY <3>1, <3>2, <3>3, DeliveredProxy DEF Sound
  <2>2. CASE Apply(s)
    BY <1>4, <2>2, DeliveredGlpi
  <2>3. QED
    BY <1>1, <2>1, <2>2
<1>7. EntryInv'
  BY <1>2, <1>4, Entered DEF EntryInv, IInv
<1>8. /\ stack' \in [Submission -> Seq(Frame)] /\ answer' \in [Submission -> Codes]
      /\ \A t \in Submission \ {s} : stack'[t] = stack[t] /\ answer'[t] = answer[t]
      /\ stack'[s] # <<>> <=> answer'[s] = "pending"
      /\ StackInv(s, stack'[s], entry[s], kept', applied')
      /\ answer'[s] = "OK" => Delivered(s, entry[s], kept', applied')
  <2>1. TypeOK
    BY DEF IInv
  <2>2. QED
    BY <1>1, <1>2, <1>5, <1>6, <2>1, ReturnInv
<1>9. /\ file' \in [Proxy -> NoFile..Mixed] /\ kept' \in [Proxy -> SUBSET Submission]
      /\ late' \subseteq Glpi \X Submission
      /\ \A n \in Proxy : kept[n] \subseteq kept'[n]
  BY <1>2 DEF IInv, TypeOK
<1>10. QED
  BY <1>2, <1>4, <1>7, <1>8, <1>9, OneSubmission

(* An agent's submission arrives: one handler, which has passed nothing yet.  *)
LEMMA StepPost ==
    ASSUME IInv, NEW s \in Submission, Post(s)
    PROVE  IInv'
<1>1. PICK depth \in AgentDepths : stack' = [stack EXCEPT ![s] = <<Handler(entry[s], depth)>>]
  BY DEF Post
<1> DEFINE h == Handler(entry[s], depth)
<1>2. /\ answer' = [answer EXCEPT ![s] = "pending"]
      /\ UNCHANGED <<entry, file, kept, applied, late>>
  BY DEF Post
<1>3. TypeOK
  BY DEF IInv
<1>4. h \in Frame /\ h.node = entry[s] /\ h.phase = "plan" /\ h.next = 1
  BY <1>3 DEF TypeOK, Handler, Frame, Node
<1> HIDE DEF h
<1>5. <<h>> \in Seq(Frame) /\ Len(<<h>>) = 1 /\ <<h>>[1] = h /\ <<h>> # <<>>
  BY <1>4
<1>6. StackInv(s, <<h>>, entry[s], kept', applied')
  <2>1. Sound(s, h, kept', applied')
    <3>1. h.node \in Proxy => \A j \in 1..Len(forward_to(h.node)) : ~(j < 1)
      BY ForwardType
    <3>2. QED
      BY <1>4, <3>1 DEF Sound
  <2>2. QED
    BY <1>4, <1>5, <2>1 DEF StackInv
<1>7. /\ stack' \in [Submission -> Seq(Frame)] /\ stack'[s] = <<h>>
      /\ \A t \in Submission \ {s} : stack'[t] = stack[t]
  BY <1>1, <1>3, <1>5 DEF TypeOK, h
<1>8. /\ answer' \in [Submission -> Codes] /\ answer'[s] = "pending"
      /\ \A t \in Submission \ {s} : answer'[t] = answer[t]
  BY <1>2, <1>3 DEF TypeOK, Codes
<1>9. EntryInv'
  BY <1>2 DEF IInv, EntryInv
<1>10. /\ file' \in [Proxy -> NoFile..Mixed] /\ kept' \in [Proxy -> SUBSET Submission]
       /\ applied' \in [Glpi -> SUBSET Submission] /\ late' \subseteq Glpi \X Submission
       /\ \A n \in Proxy : kept[n] \subseteq kept'[n]
       /\ \A g \in Glpi : applied[g] \subseteq applied'[g]
  BY <1>2, <1>3 DEF TypeOK
<1>11. /\ entry' = entry /\ stack'[s] # <<>> /\ answer'[s] # "OK"
       /\ StackInv(s, stack'[s], entry[s], kept', applied')
  BY <1>2, <1>5, <1>6, <1>7, <1>8
<1>12. QED
  BY <1>7, <1>8, <1>9, <1>10, <1>11, OneSubmission

(* The active handler goes on: sound as before, it is in its place.          *)
LEMMA StepActive ==
    ASSUME IInv, NEW s \in Submission, Busy(s), NEW h \in Frame,
           SetActive(s, h), h.node = Active(s).node,
           UNCHANGED <<entry, answer, applied, late>>,
           file' \in [Proxy -> NoFile..Mixed], kept' \in [Proxy -> SUBSET Submission],
           \A n \in Proxy : kept[n] \subseteq kept'[n],
           Sound(s, h, kept', applied')
    PROVE  IInv'
<1>1. /\ stack[s] \in Seq(Frame) /\ stack[s] # <<>> /\ answer[s] = "pending"
      /\ Active(s) = Last(stack[s]) /\ StackInv(s, stack[s], entry[s], kept, applied)
  BY BusyFacts
<1> DEFINE new == Append(Front(stack[s]), h)
<1>2. new \in Seq(Frame) /\ new # <<>>
  <2>1. new \in Seq(Frame) /\ Len(new) >= 1
    BY <1>1, ReplaceLast
  <2> HIDE DEF new
  <2>2. QED
    BY <2>1, EmptySeq
<1>3. StackInv(s, stack[s], entry[s], kept', applied')
  <2>1. /\ \A n \in Proxy : s \in kept[n] => s \in kept'[n]
        /\ \A g \in Glpi : s \in applied[g] => s \in applied'[g]
    OBVIOUS
  <2>2. QED
    BY <1>1, <2>1, StackKeeps
<1>4. StackInv(s, new, entry[s], kept', applied')
  BY <1>1, <1>3, SetActiveInv
<1>5. stack' = [stack EXCEPT ![s] = new]
  BY DEF SetActive
<1> HIDE DEF new
<1>6. TypeOK
  BY DEF IInv
<1>7. /\ stack' \in [Submission -> Seq(Frame)] /\ stack'[s] = new
      /\ \A t \in Submission \ {s} : stack'[t] = stack[t]
  BY <1>2, <1>5, <1>6 DEF TypeOK
<1>8. /\ answer' \in [Submission -> Codes] /\ answer'[s] = "pending"
      /\ applied' \in [Glpi -> SUBSET Submission] /\ late' \subseteq Glpi \X Submission
  BY <1>1, <1>6 DEF TypeOK
<1>9. EntryInv'
  BY <1>6 DEF IInv, EntryInv, TypeOK
<1>10. QED
  BY <1>1, <1>2, <1>4, <1>7, <1>8, <1>9, OneSubmission

(* The plan is accepted: a proxy without a local store forwards at once.      *)
LEMMA StepDecide ==
    ASSUME IInv, NEW s \in Submission, Decide(s)
    PROVE  IInv'
<1> DEFINE h == [Active(s) EXCEPT
                    !.phase = IF Active(s).node \in LocalStore THEN "store" ELSE "forward"]
<1>1. Busy(s) /\ SetActive(s, h) /\ UNCHANGED <<entry, answer, file, kept, applied, late>>
  BY DEF Decide, At
<1>2. Active(s) \in Frame /\ Sound(s, Active(s), kept, applied)
  BY <1>1, BusyFacts
<1>3. /\ h \in Frame /\ h.node = Active(s).node /\ h.next = Active(s).next
      /\ h.phase = IF Active(s).node \in LocalStore THEN "store" ELSE "forward"
  BY <1>2 DEF Frame
<1> HIDE DEF h
<1>4. Sound(s, h, kept, applied)
  BY <1>2, <1>3 DEF Sound
<1>5. /\ file' \in [Proxy -> NoFile..Mixed] /\ kept' \in [Proxy -> SUBSET Submission]
      /\ \A n \in Proxy : kept[n] \subseteq kept'[n]
  BY <1>1 DEF IInv, TypeOK
<1>6. Sound(s, h, kept', applied')
  BY <1>1, <1>4
<1>7. QED
  BY <1>1, <1>3, <1>5, <1>6, StepActive

(* The file is opened: the handler has not stored yet.                       *)
LEMMA StepOpenStore ==
    ASSUME IInv, NEW s \in Submission, OpenStore(s)
    PROVE  IInv'
<1> DEFINE h == [Active(s) EXCEPT !.phase = "write"]
<1>1. /\ Busy(s) /\ SetActive(s, h) /\ UNCHANGED <<entry, answer, kept, applied, late>>
      /\ file' = [file EXCEPT ![Active(s).node] = NoFile]
  BY DEF OpenStore, At
<1>2. Active(s) \in Frame /\ Sound(s, Active(s), kept, applied)
  BY <1>1, BusyFacts
<1>3. /\ h \in Frame /\ h.node = Active(s).node /\ h.next = Active(s).next
      /\ h.phase = "write"
  BY <1>2 DEF Frame
<1> HIDE DEF h
<1>4. Sound(s, h, kept, applied)
  BY <1>2, <1>3 DEF Sound
<1>5. file' \in [Proxy -> NoFile..Mixed]
  <2>1. NoFile \in NoFile..Mixed
    BY DEF NoFile, Mixed
  <2>2. file \in [Proxy -> NoFile..Mixed]
    BY DEF IInv, TypeOK
  <2>3. QED
    BY <1>1, <2>1, <2>2
<1>6. kept' \in [Proxy -> SUBSET Submission] /\ \A n \in Proxy : kept[n] \subseteq kept'[n]
  BY <1>1 DEF IInv, TypeOK
<1>7. Sound(s, h, kept', applied')
  BY <1>1, <1>4
<1>8. QED
  BY <1>1, <1>3, <1>5, <1>6, <1>7, StepActive

(* The body is written: from here on the proxy has stored it.                *)
LEMMA StepWriteStore ==
    ASSUME IInv, NEW s \in Submission, WriteStore(s)
    PROVE  IInv'
<1> DEFINE h == [Active(s) EXCEPT !.phase = "forward"]
           n == Active(s).node
<1>1. /\ Busy(s) /\ n \in Proxy /\ SetActive(s, h)
      /\ UNCHANGED <<entry, answer, applied, late>>
      /\ kept' = [kept EXCEPT ![n] = @ \cup {s}]
  BY DEF WriteStore, At
<1>2. Active(s) \in Frame /\ Sound(s, Active(s), kept, applied)
  BY <1>1, BusyFacts
<1>3. h \in Frame /\ h.node = n /\ h.next = Active(s).next /\ h.phase = "forward"
  BY <1>2 DEF Frame
<1>4. file' \in [Proxy -> NoFile..Mixed]
  <2>1. PICK body \in {s, IF file[n] = NoFile THEN s ELSE Mixed} :
             file' = [file EXCEPT ![n] = body]
    BY DEF WriteStore
  <2>2. s \in NoFile..Mixed /\ Mixed \in NoFile..Mixed
    BY DEF NoFile, Mixed, Submission
  <2>3. body \in NoFile..Mixed
    BY <2>1, <2>2
  <2>4. file \in [Proxy -> NoFile..Mixed]
    BY DEF IInv, TypeOK
  <2>5. QED
    BY <2>1, <2>3, <2>4
<1> HIDE DEF h
<1>5. kept \in [Proxy -> SUBSET Submission]
  BY DEF IInv, TypeOK
<1>6. /\ kept' \in [Proxy -> SUBSET Submission] /\ s \in kept'[n]
      /\ \A p \in Proxy : kept[p] \subseteq kept'[p]
  BY <1>1, <1>5
<1>7. Sound(s, h, kept', applied')
  <2>1. ASSUME NEW m, Delivered(s, m, kept, applied) PROVE Delivered(s, m, kept', applied')
    BY <1>1, <1>6, <2>1 DEF Delivered
  <2>2. ASSUME NEW j \in 1..Len(forward_to(n)), j < h.next
        PROVE  Delivered(s, forward_to(n)[j], kept', applied')
    BY <1>1, <1>2, <1>3, <2>1, <2>2 DEF Sound
  <2>3. QED
    BY <1>3, <1>6, <2>2 DEF Sound
<1>8. QED
  BY <1>1, <1>3, <1>4, <1>6, <1>7, StepActive

(* The handler calls a server and waits for the one it has put on top, which   *)
(* has passed nothing yet.                                                    *)
LEMMA StepForward ==
    ASSUME IInv, NEW s \in Submission, Forward(s)
    PROVE  IInv'
<1> DEFINE handlers == stack[s]
           n == Len(handlers)
           a == Active(s)
           to == forward_to(a.node)[a.next]
           h == Handler(to, onward_depth(a.depth + 1))
           new == Append(handlers, h)
<1>1. /\ Busy(s) /\ a.node \in Proxy /\ a.phase = "forward"
      /\ a.next <= Len(forward_to(a.node)) /\ stack' = [stack EXCEPT ![s] = new]
      /\ UNCHANGED <<entry, answer, file, kept, applied, late>>
  BY DEF Forward, At
<1>2. /\ handlers \in Seq(Frame) /\ a \in Frame /\ answer[s] = "pending"
      /\ a = handlers[n] /\ n \in Nat /\ n >= 1
      /\ StackInv(s, handlers, entry[s], kept, applied)
  <2>1. Busy(s)
    BY <1>1
  <2>2. /\ handlers \in Seq(Frame) /\ handlers # <<>> /\ a \in Frame
        /\ answer[s] = "pending" /\ a = Last(handlers)
        /\ StackInv(s, handlers, entry[s], kept, applied)
    BY <2>1, BusyFacts
  <2>3. /\ Last(handlers) = handlers[n] /\ n \in Nat /\ n >= 1
    BY <2>2, ReplaceLast
  <2>4. QED
    BY <2>2, <2>3
<1>3. a.next \in 1..Len(forward_to(a.node)) /\ to \in Node
  <2>1. a.next \in Nat /\ a.next >= 1
    BY <1>2 DEF Frame
  <2>2. Len(forward_to(a.node)) \in Nat
    BY <1>1, ForwardType
  <2>3. a.next \in 1..Len(forward_to(a.node))
    BY <1>1, <2>1, <2>2
  <2>4. QED
    BY <1>1, <2>3, ForwardType
<1>4. h \in Frame /\ h.node = to /\ h.phase = "plan" /\ h.next = 1
  BY <1>3 DEF Handler, onward_depth, Frame
<1>5. WaitsFor(a, h)
  BY <1>1, <1>3, <1>4 DEF WaitsFor
<1> HIDE DEF h, to, a
<1>6. Sound(s, h, kept, applied)
  <2>1. h.node \in Proxy => \A j \in 1..Len(forward_to(h.node)) : ~(j < 1)
    BY ForwardType
  <2>2. QED
    BY <1>4, <2>1 DEF Sound
<1>7. /\ new \in Seq(Frame) /\ Len(new) = n + 1 /\ new[n + 1] = h
      /\ \A i \in 1..n : new[i] = handlers[i]
  BY <1>2, <1>4, AppendProperties
<1> HIDE DEF new, n, handlers
<1>8. StackInv(s, new, entry[s], kept, applied)
  <2>1. ASSUME NEW i \in 1..Len(new) PROVE Sound(s, new[i], kept, applied)
    <3>1. CASE i = n + 1
      BY <1>6, <1>7, <3>1
    <3>2. CASE i # n + 1
      <4>1. i \in 1..n
        BY <1>2, <1>7, <3>2
      <4>2. QED
        BY <1>2, <1>7, <4>1 DEF StackInv, n
    <3>3. QED
      BY <3>1, <3>2
  <2>2. ASSUME NEW i \in 1..(Len(new) - 1) PROVE WaitsFor(new[i], new[i + 1])
    <3>1. CASE i = n
      <4>1. n \in 1..n
        BY <1>2
      <4>2. new[i] = a /\ new[i + 1] = h
        BY <1>2, <1>7, <3>1, <4>1
      <4>3. QED
        BY <1>5, <4>2
    <3>2. CASE i # n
      <4>1. i \in 1..(n - 1) /\ i \in 1..n /\ i + 1 \in 1..n
        BY <1>2, <1>7, <3>2
      <4>2. new[i] = handlers[i] /\ new[i + 1] = handlers[i + 1]
        BY <1>7, <4>1
      <4>3. WaitsFor(handlers[i], handlers[i + 1])
        BY <1>2, <4>1 DEF StackInv, n
      <4>4. QED
        BY <4>2, <4>3
    <3>3. QED
      BY <3>1, <3>2
  <2>3. new[1].node = entry[s]
    <3>1. 1 \in 1..n /\ n > 0
      BY <1>2
    <3>2. handlers[1].node = entry[s]
      BY <1>2, <3>1 DEF StackInv, n
    <3>3. QED
      BY <1>7, <3>1, <3>2
  <2>4. QED
    BY <2>1, <2>2, <2>3 DEF StackInv
<1>9. new # <<>>
  <2>1. Len(new) # 0
    BY <1>2, <1>7
  <2>2. QED
    BY <2>1, EmptySeq
<1>10. TypeOK
  BY DEF IInv
<1>11. /\ stack' \in [Submission -> Seq(Frame)] /\ stack'[s] = new
       /\ \A t \in Submission \ {s} : stack'[t] = stack[t]
  BY <1>1, <1>7, <1>10 DEF TypeOK
<1>12. EntryInv'
  BY <1>1 DEF IInv, EntryInv
<1>13. /\ file' \in [Proxy -> NoFile..Mixed] /\ kept' \in [Proxy -> SUBSET Submission]
       /\ applied' \in [Glpi -> SUBSET Submission] /\ late' \subseteq Glpi \X Submission
       /\ \A p \in Proxy : kept[p] \subseteq kept'[p]
       /\ \A g \in Glpi : applied[g] \subseteq applied'[g]
       /\ answer' \in [Submission -> Codes]
  BY <1>1, <1>10 DEF TypeOK
<1>14. /\ entry' = entry /\ answer'[s] = "pending" /\ stack'[s] # <<>>
       /\ \A t \in Submission \ {s} : answer'[t] = answer[t]
       /\ StackInv(s, stack'[s], entry[s], kept', applied')
  BY <1>1, <1>2, <1>8, <1>9, <1>11
<1>15. QED
  BY <1>11, <1>12, <1>13, <1>14, OneSubmission

(* What a server may still apply when its caller has left, the entry proxy of  *)
(* the submission has stored.                                                 *)
LEMMA AbandonInv ==
    ASSUME IInv, NEW s \in Submission, Busy(s), Abandon(s),
           UNCHANGED <<entry, kept, applied>>
    PROVE  EntryInv' /\ late' \subseteq Glpi \X Submission
<1>1. \A x \in late' : x \in late \/ (x = <<Active(s).node, s>> /\ Active(s).node \in Glpi)
  BY DEF Abandon
<1>2. late \subseteq Glpi \X Submission /\ EntryInv
  BY DEF IInv, TypeOK
<1>3. late' \subseteq Glpi \X Submission
  BY <1>1, <1>2
<1>4. ASSUME NEW t \in Submission, NEW g \in Glpi, <<g, t>> \in late', entry[t] \in LocalStore
      PROVE  t \in kept[entry[t]]
  <2>1. CASE <<g, t>> \in late
    BY <1>2, <1>4, <2>1 DEF EntryInv
  <2>2. CASE <<g, t>> \notin late
    <3>1. t = s /\ Active(s).node \in Glpi
      BY <1>1, <1>4, <2>2
    <3>2. QED
      BY <1>4, <3>1, Entered
  <2>3. QED
    BY <2>1, <2>2
<1>5. EntryInv'
  BY <1>2, <1>4 DEF EntryInv
<1>6. QED
  BY <1>3, <1>5

(* A handler stops waiting: those above it are dropped, and it fails.         *)
LEMMA StepTimeout ==
    ASSUME IInv, NEW s \in Submission, NEW k \in 1..MaxDepth, Timeout(s, k)
    PROVE  IInv'
<1> DEFINE handlers == stack[s]
           n == Len(handlers)
           callers == SubSeq(handlers, 1, k)
           new == [callers EXCEPT ![k].phase = "failed"]
<1>1. /\ Busy(s) /\ k < n /\ stack' = [stack EXCEPT ![s] = new] /\ Abandon(s)
      /\ UNCHANGED <<entry, answer, file, kept, applied>>
  BY DEF Timeout
<1>2. /\ handlers \in Seq(Frame) /\ answer[s] = "pending"
      /\ StackInv(s, handlers, entry[s], kept, applied)
  <2>1. Busy(s)
    BY <1>1
  <2>2. QED
    BY <2>1, BusyFacts
<1>3. n \in Nat /\ k \in Nat /\ k >= 1 /\ k \in 1..(n - 1) /\ k \in 1..n
  <2>1. n \in Nat /\ k \in Nat /\ k >= 1
    BY <1>2, LenProperties
  <2> HIDE DEF n
  <2>2. QED
    BY <1>1, <2>1
<1>4. /\ callers \in Seq(Frame) /\ Len(callers) = k
      /\ \A i \in 1..k : callers[i] = handlers[i]
  <2>1. \A i \in 1..k : handlers[i] \in Frame
    <3>1. \A i \in 1..k : i \in 1..n
      BY <1>3
    <3>2. QED
      BY <1>2, <3>1, ElementOfSeq
  <2>2. /\ SubSeq(handlers, 1, k) \in Seq(Frame)
        /\ Len(SubSeq(handlers, 1, k)) = IF 1 <= k THEN k - 1 + 1 ELSE 0
        /\ \A i \in 1..(k - 1 + 1) : SubSeq(handlers, 1, k)[i] = handlers[1 + i - 1]
    <3>1. 1 \in Int /\ k \in Int
      BY <1>3
    <3>2. QED
      BY <2>1, <3>1, SubSeqProperties
  <2>3. QED
    BY <1>3, <2>2
<1> HIDE DEF n, handlers, callers
<1>5. /\ handlers[k] \in Frame /\ Sound(s, handlers[k], kept, applied)
      /\ handlers[k].phase = "forward"
  <2>1. Sound(s, handlers[k], kept, applied)
    BY <1>2, <1>3 DEF StackInv, n
  <2>2. WaitsFor(handlers[k], handlers[k + 1])
    BY <1>2, <1>3 DEF StackInv, n
  <2>3. handlers[k] \in Frame
    BY <1>2, <1>3, ElementOfSeq DEF n
  <2>4. QED
    BY <2>1, <2>2, <2>3 DEF WaitsFor
<1> DEFINE h == [handlers[k] EXCEPT !.phase = "failed"]
<1>6. /\ h \in Frame /\ h.node = handlers[k].node /\ h.next = handlers[k].next
      /\ h.phase = "failed"
  BY <1>5 DEF Frame
<1>7. new = [callers EXCEPT ![k] = h]
  <2>1. callers[k] = handlers[k]
    BY <1>3, <1>4
  <2>2. QED
    BY <2>1
<1> HIDE DEF h, new
<1>8. Sound(s, h, kept, applied)
  BY <1>5, <1>6 DEF Sound
<1>9. new = Append(Front(callers), h)
  <2>1. callers # <<>>
    <3>1. Len(callers) # 0
      BY <1>3, <1>4
    <3>2. QED
      BY <3>1, EmptySeq
  <2>2. /\ Append(Front(callers), h) \in Seq(Frame)
        /\ Len(Append(Front(callers), h)) = k
        /\ \A i \in 1..(k - 1) : Append(Front(callers), h)[i] = callers[i]
        /\ Append(Front(callers), h)[k] = h
    BY <1>4, <1>6, <2>1, ReplaceLast
  <2>3. /\ new \in Seq(Frame) /\ Len(new) = k
        /\ \A i \in 1..k : new[i] = IF i = k THEN h ELSE callers[i]
    <3>1. k \in 1..Len(callers) /\ callers \in Seq(Frame) /\ h \in Frame
      BY <1>3, <1>4, <1>6
    <3>2. /\ [callers EXCEPT ![k] = h] \in Seq(Frame)
          /\ Len([callers EXCEPT ![k] = h]) = Len(callers)
          /\ \A i \in 1..Len(callers) :
                [callers EXCEPT ![k] = h][i] = IF i = k THEN h ELSE callers[i]
      BY <3>1, ExceptSeq
    <3>3. QED
      BY <1>4, <1>7, <3>2
  <2>4. \A i \in 1..k : Append(Front(callers), h)[i] = new[i]
    BY <1>3, <2>2, <2>3
  <2>5. QED
    BY <2>2, <2>3, <2>4, SeqEqual
<1>10. StackInv(s, callers, entry[s], kept, applied)
  <2>1. Len(callers) <= Len(handlers) /\ \A i \in 1..Len(callers) : callers[i] = handlers[i]
    BY <1>3, <1>4 DEF n
  <2>2. QED
    BY <1>2, <1>4, <2>1, CallersInv
<1>11. /\ new \in Seq(Frame) /\ new # <<>> /\ StackInv(s, new, entry[s], kept, applied)
  <2>1. callers # <<>> /\ Last(callers) = callers[k]
    <3>1. Len(callers) # 0
      BY <1>3, <1>4
    <3>2. callers # <<>>
      BY <3>1, EmptySeq
    <3>3. QED
      BY <1>4, <1>6, <3>2, ReplaceLast
  <2>2. h.node = Last(callers).node
    BY <1>3, <1>4, <1>6, <2>1
  <2>3. /\ Append(Front(callers), h) \in Seq(Frame)
        /\ Len(Append(Front(callers), h)) = Len(callers)
    BY <1>4, <1>6, <2>1, ReplaceLast
  <2>4. new # <<>>
    <3>1. Len(new) # 0
      BY <1>3, <1>4, <1>9, <2>3
    <3>2. QED
      BY <3>1, EmptySeq
  <2>5. StackInv(s, Append(Front(callers), h), entry[s], kept, applied)
    BY <1>4, <1>6, <1>8, <1>10, <2>1, <2>2, SetActiveInv
  <2>6. QED
    BY <1>9, <2>3, <2>4, <2>5
<1>12. TypeOK
  BY DEF IInv
<1>13. /\ stack' \in [Submission -> Seq(Frame)] /\ stack'[s] = new
       /\ \A t \in Submission \ {s} : stack'[t] = stack[t]
  BY <1>1, <1>11, <1>12 DEF TypeOK
<1>14. EntryInv' /\ late' \subseteq Glpi \X Submission
  BY <1>1, AbandonInv
<1>15. /\ file' \in [Proxy -> NoFile..Mixed] /\ kept' \in [Proxy -> SUBSET Submission]
       /\ applied' \in [Glpi -> SUBSET Submission] /\ answer' \in [Submission -> Codes]
       /\ \A p \in Proxy : kept[p] \subseteq kept'[p]
       /\ \A g \in Glpi : applied[g] \subseteq applied'[g]
  BY <1>1, <1>12 DEF TypeOK
<1>16. /\ entry' = entry /\ answer'[s] = "pending" /\ stack'[s] # <<>>
       /\ \A t \in Submission \ {s} : answer'[t] = answer[t]
       /\ StackInv(s, stack'[s], entry[s], kept', applied')
  BY <1>1, <1>2, <1>11, <1>13
<1>17. QED
  BY <1>13, <1>14, <1>15, <1>16, OneSubmission

(* The agent stops waiting: every handler is dropped.                        *)
LEMMA StepAgentTimeout ==
    ASSUME IInv, NEW s \in Submission, AgentTimeout(s)
    PROVE  IInv'
<1>1. /\ Busy(s) /\ stack' = [stack EXCEPT ![s] = <<>>]
      /\ answer' = [answer EXCEPT ![s] = "timeout"] /\ Abandon(s)
      /\ UNCHANGED <<entry, file, kept, applied>>
  BY DEF AgentTimeout
<1>2. TypeOK
  BY DEF IInv
<1>3. <<>> \in Seq(Frame) /\ Len(<<>>) = 0
  BY EmptySeq
<1>4. /\ stack' \in [Submission -> Seq(Frame)] /\ stack'[s] = <<>>
      /\ \A t \in Submission \ {s} : stack'[t] = stack[t]
  BY <1>1, <1>2, <1>3 DEF TypeOK
<1>5. /\ answer' \in [Submission -> Codes] /\ answer'[s] = "timeout"
      /\ \A t \in Submission \ {s} : answer'[t] = answer[t]
  BY <1>1, <1>2 DEF TypeOK, Codes
<1>6. EntryInv' /\ late' \subseteq Glpi \X Submission
  BY <1>1, AbandonInv
<1>7. StackInv(s, <<>>, entry[s], kept', applied')
  BY <1>3 DEF StackInv
<1>8. /\ file' \in [Proxy -> NoFile..Mixed] /\ kept' \in [Proxy -> SUBSET Submission]
      /\ applied' \in [Glpi -> SUBSET Submission]
      /\ \A p \in Proxy : kept[p] \subseteq kept'[p]
      /\ \A g \in Glpi : applied[g] \subseteq applied'[g]
  BY <1>1, <1>2 DEF TypeOK
<1>9. /\ entry' = entry /\ answer'[s] # "OK" /\ answer'[s] # "pending"
      /\ StackInv(s, stack'[s], entry[s], kept', applied')
  BY <1>1, <1>4, <1>5, <1>7
<1>10. QED
  BY <1>4, <1>5, <1>6, <1>8, <1>9, OneSubmission

(* A server applies late what it was sent before its caller left.             *)
LEMMA StepApplyLate ==
    ASSUME IInv, NEW s \in Submission, NEW g \in Glpi, ApplyLate(g, s)
    PROVE  IInv'
<1>1. /\ <<g, s>> \in late /\ late' = late \ {<<g, s>>}
      /\ applied' = [applied EXCEPT ![g] = @ \cup {s}]
      /\ UNCHANGED <<entry, stack, answer, file, kept>>
  BY DEF ApplyLate
<1>2. TypeOK
  BY DEF IInv
<1>3. applied \in [Glpi -> SUBSET Submission]
  BY <1>2 DEF TypeOK
<1>4. \A x \in Glpi : applied'[x] = IF x = g THEN applied[x] \cup {s} ELSE applied[x]
  BY <1>1, <1>3
<1>5. applied' \in [Glpi -> SUBSET Submission]
  BY <1>1, <1>3
<1>6. \A x \in Glpi : applied[x] \subseteq applied'[x]
  BY <1>4
<1>7. EntryInv'
  <2>1. EntryInv
    BY DEF IInv
  <2>2. ASSUME NEW t \in Submission, NEW x \in Glpi, entry[t] \in LocalStore,
               t \in applied'[x] \/ <<x, t>> \in late'
        PROVE  t \in kept[entry[t]]
    <3>1. t \in applied[x] \/ <<x, t>> \in late
      <4>1. t \in applied'[x] => t \in applied[x] \/ (x = g /\ t = s)
        BY <1>4
      <4>2. <<g, s>> \in late /\ late' \subseteq late
        BY <1>1
      <4>3. QED
        BY <2>2, <4>1, <4>2
    <3>2. QED
      BY <2>1, <2>2, <3>1 DEF EntryInv
  <2>3. QED
    BY <1>1, <2>2 DEF EntryInv
<1>8. StackInv(s, stack[s], entry[s], kept', applied')
  <2>1. StackInv(s, stack[s], entry[s], kept, applied)
    BY DEF IInv
  <2>2. /\ \A n \in Proxy : s \in kept[n] => s \in kept'[n]
        /\ \A x \in Glpi : s \in applied[x] => s \in applied'[x]
    BY <1>1, <1>6
  <2>3. QED
    BY <2>1, <2>2, StackKeeps
<1>9. answer[s] = "OK" => Delivered(s, entry[s], kept', applied')
  <2>1. answer[s] = "OK" => Delivered(s, entry[s], kept, applied)
    BY DEF IInv, OkMeansDelivered, Delivered
  <2>2. QED
    BY <1>1, <1>6, <2>1 DEF Delivered
<1>10. /\ file' \in [Proxy -> NoFile..Mixed] /\ kept' \in [Proxy -> SUBSET Submission]
       /\ stack' \in [Submission -> Seq(Frame)] /\ answer' \in [Submission -> Codes]
       /\ stack'[s] # <<>> <=> answer'[s] = "pending"
       /\ late' \subseteq Glpi \X Submission
       /\ \A p \in Proxy : kept[p] \subseteq kept'[p]
  BY <1>1, <1>2 DEF TypeOK
<1>11. /\ entry' = entry /\ StackInv(s, stack'[s], entry[s], kept', applied')
       /\ answer'[s] = "OK" => Delivered(s, entry[s], kept', applied')
       /\ \A t \in Submission \ {s} : stack'[t] = stack[t] /\ answer'[t] = answer[t]
  BY <1>1, <1>8, <1>9
<1>12. QED
  BY <1>5, <1>6, <1>7, <1>10, <1>11, OneSubmission

(* Nothing changes, nothing is disturbed.                                    *)
LEMMA StepUnchanged ==
    ASSUME IInv, UNCHANGED vars
    PROVE  IInv'
<1>1. /\ entry' = entry /\ stack' = stack /\ answer' = answer /\ file' = file
      /\ kept' = kept /\ applied' = applied /\ late' = late
  BY DEF vars
<1>2. TypeOK'
  BY <1>1 DEF IInv, TypeOK
<1>3. EntryInv' /\ OkMeansDelivered'
  BY <1>1 DEF IInv, EntryInv, OkMeansDelivered
<1>4. \A s \in Submission : StackInv(s, stack'[s], entry'[s], kept', applied')
  BY <1>1 DEF IInv
<1>5. QED
  BY <1>2, <1>3, <1>4 DEF IInv
-----------------------------------------------------------------------------
(* The invariant starts true and every step keeps it.                        *)

(* Nothing has been sent.                                                    *)
THEOREM InitInv == Init => IInv
<1> SUFFICES ASSUME Init PROVE IInv
  OBVIOUS
<1>1. /\ entry \in [Submission -> Proxy] /\ late = {}
      /\ \A s \in Submission : stack[s] = <<>> /\ answer[s] = "unsent"
      /\ \A g \in Glpi : applied[g] = {}
  BY DEF Init
<1>2. <<>> \in Seq(Frame) /\ Len(<<>>) = 0
  BY EmptySeq
<1>3. stack \in [Submission -> Seq(Frame)]
  BY <1>2 DEF Init
<1>4. answer \in [Submission -> Codes]
  BY DEF Init, Codes
<1>5. file \in [Proxy -> NoFile..Mixed]
  <2>1. NoFile \in NoFile..Mixed
    BY DEF NoFile, Mixed
  <2>2. QED
    BY <2>1 DEF Init
<1>6. kept \in [Proxy -> SUBSET Submission] /\ applied \in [Glpi -> SUBSET Submission]
  BY DEF Init
<1>7. TypeOK
  BY <1>1, <1>3, <1>4, <1>5, <1>6 DEF TypeOK
<1>8. \A s \in Submission : StackInv(s, stack[s], entry[s], kept, applied)
  BY <1>1, <1>2 DEF StackInv
<1>9. EntryInv /\ OkMeansDelivered
  BY <1>1 DEF EntryInv, OkMeansDelivered
<1>10. QED
  BY <1>7, <1>8, <1>9 DEF IInv

(* Every step of a submission, of a timeout and of a late server keeps it.    *)
THEOREM StepInv == IInv /\ [Next]_vars => IInv'
<1> SUFFICES ASSUME IInv, [Next]_vars PROVE IInv'
  OBVIOUS
<1>1. ASSUME NEW s \in Submission, Post(s) PROVE IInv'
  BY <1>1, StepPost
<1>2. ASSUME NEW s \in Submission,
             Reject(s) \/ StoreFails(s) \/ Done(s) \/ ForwardFailed(s) \/ Apply(s) \/ Refuse(s)
      PROVE  IInv'
  BY <1>2, StepReturn
<1>3. ASSUME NEW s \in Submission, Decide(s) PROVE IInv'
  BY <1>3, StepDecide
<1>4. ASSUME NEW s \in Submission, OpenStore(s) PROVE IInv'
  BY <1>4, StepOpenStore
<1>5. ASSUME NEW s \in Submission, WriteStore(s) PROVE IInv'
  BY <1>5, StepWriteStore
<1>6. ASSUME NEW s \in Submission, Forward(s) PROVE IInv'
  BY <1>6, StepForward
<1>7. ASSUME NEW s \in Submission, NEW k \in 1..MaxDepth, Timeout(s, k) PROVE IInv'
  BY <1>7, StepTimeout
<1>8. ASSUME NEW s \in Submission, AgentTimeout(s) PROVE IInv'
  BY <1>8, StepAgentTimeout
<1>9. ASSUME NEW s \in Submission, NEW g \in Glpi, ApplyLate(g, s) PROVE IInv'
  BY <1>9, StepApplyLate
<1>10. CASE Terminated \/ UNCHANGED vars
  BY <1>10, StepUnchanged DEF Terminated
<1>11. QED
  BY <1>1, <1>2, <1>3, <1>4, <1>5, <1>6, <1>7, <1>8, <1>9, <1>10 DEF Next

(* The invariant of every behaviour.                                         *)
THEOREM Invariance == Spec => []IInv
<1>1. QED
  BY InitInv, StepInv, PTL DEF Spec

(* Every variable keeps its type, and a submission has handlers exactly while *)
(* its agent waits.                                                          *)
THEOREM TypeCorrect == Spec => []TypeOK
<1>1. IInv => TypeOK
  BY DEF IInv
<1>2. QED
  BY <1>1, Invariance, PTL

(* An agent that is answered OK can forget its submission: every server       *)
(* behind its proxy has applied it and every local store on the way has it,    *)
(* however the proxies forward to each other and whatever failed or timed out. *)
THEOREM AnswerIsKept == Spec => []OkMeansDelivered
<1>1. IInv => OkMeansDelivered
  BY DEF IInv
<1>2. QED
  BY <1>1, Invariance, PTL

(* A handler that has called another one has stored the submission first, and  *)
(* so has the entry proxy of whatever a server has applied.                    *)
THEOREM StoredFirst == Spec => []StoredBeforeForwarded
<1>1. ASSUME IInv PROVE StoredBeforeForwarded
  <2>1. ASSUME NEW s \in Submission, NEW i \in 1..(Len(stack[s]) - 1),
               stack[s][i].node \in LocalStore
        PROVE  s \in kept[stack[s][i].node]
    <3>1. StackInv(s, stack[s], entry[s], kept, applied) /\ stack[s] \in Seq(Frame)
      BY <1>1 DEF IInv, TypeOK
    <3>2. i \in 1..Len(stack[s])
      <4>1. Len(stack[s]) \in Nat
        BY <3>1, LenProperties
      <4>2. QED
        BY <4>1
    <3>3. Sound(s, stack[s][i], kept, applied) /\ stack[s][i].phase = "forward"
      BY <3>1, <3>2 DEF StackInv, WaitsFor
    <3>4. QED
      BY <2>1, <3>3 DEF Sound
  <2>2. ASSUME NEW s \in Submission, NEW g \in Glpi, s \in applied[g], entry[s] \in LocalStore
        PROVE  s \in kept[entry[s]]
    BY <1>1, <2>2 DEF IInv, EntryInv
  <2>3. QED
    BY <2>1, <2>2 DEF StoredBeforeForwarded
<1>2. QED
  BY <1>1, Invariance, PTL
=============================================================================

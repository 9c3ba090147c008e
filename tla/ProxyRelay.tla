----------------------------- MODULE ProxyRelay -----------------------------
(***************************************************************************)
(* The proxy route of the control server (glpi-http proxy.rs), the         *)
(* decision of the proxy plugin (glpi-plugins proxy.rs) and the client it  *)
(* forwards with (glpi-transport).                                         *)
(*                                                                         *)
(* An agent posts a submission to a proxy and waits.  The handler stores   *)
(* it, then posts it to each of its servers in order, waiting for each:    *)
(* a server may be a GLPI server or another proxy, so that a submission on *)
(* its way is a stack of handlers, each waiting for the one above it.  A   *)
(* caller that has waited too long closes its connection, which drops the  *)
(* handlers above; a GLPI server may still apply what it was sent.         *)
(*                                                                         *)
(* All submissions are of one device, in the order of their numbers.       *)
(***************************************************************************)
EXTENDS Naturals, Sequences, SequencesExt

CONSTANTS
    NumSubmissions,   \* submissions agents make, at most
    Proxy,            \* agents that run the proxy plugin
    Glpi,             \* GLPI servers
    ServersOf,        \* [Proxy -> Seq(Node)], the configured GLPI servers
    LocalStore,       \* proxies with a local_store directory
    OnlyLocalStore,   \* proxies with only_local_store
    GlpiProtocol,     \* proxies with glpi_protocol
    MaxPassThrough,   \* [Proxy -> Nat], max_pass_through
    TrustedBy,        \* [Proxy -> SUBSET Node], clients in httpd-trust
    Agent,            \* any client that is not one of these proxies
    AgentDepths,      \* GLPI-Proxy-ID headers such a client may send (0 for none)
    ForbidNotTrusted, \* proxies with forbid_not_trusted
    MaxDepth          \* bound on the handlers that wait for each other

Submission == 1..NumSubmissions
Node == Proxy \cup Glpi

ASSUME ProxyAssumption ==
    /\ NumSubmissions \in Nat /\ MaxDepth \in Nat
    /\ AgentDepths \subseteq Nat
    /\ Proxy \cap Glpi = {} /\ Agent \notin Node
    /\ ServersOf \in [Proxy -> Seq(Node)]
    /\ LocalStore \cup OnlyLocalStore \cup GlpiProtocol \cup ForbidNotTrusted \subseteq Proxy
    /\ MaxPassThrough \in [Proxy -> Nat]
    /\ TrustedBy \in [Proxy -> SUBSET (Node \cup {Agent})]

VARIABLES
    entry,     \* [Submission -> the proxy its agent sends it to]
    stack,     \* [Submission -> the handlers at work on it, the last one active]
    answer,    \* [Submission -> what its agent was answered]
    file,      \* [Proxy -> the device's file in local_store]
    kept,      \* history: [Proxy -> submissions it has stored]
    applied,   \* history: [Glpi -> submissions it has applied]
    late       \* requests a server received before their caller left

vars == <<entry, stack, answer, file, kept, applied, late>>

NoFile == 0
Mixed == NumSubmissions + 1

Codes ==
    {"unsent", "pending", "OK", "UNTRUSTED-CLIENT", "LIMITED-PROXY", "STORE-ERROR",
     "FORWARD-ERROR", "timeout"}

Frame ==
    [node : Node, depth : Nat, phase : {"plan", "store", "write", "forward", "failed"},
     next : Nat \ {0}]

TypeOK ==
    /\ entry \in [Submission -> Proxy] /\ answer \in [Submission -> Codes]
    /\ stack \in [Submission -> Seq(Frame)]
    /\ \A s \in Submission : stack[s] # <<>> <=> answer[s] = "pending"
    /\ file \in [Proxy -> NoFile..Mixed] /\ kept \in [Proxy -> SUBSET Submission]
    /\ applied \in [Glpi -> SUBSET Submission] /\ late \subseteq Glpi \X Submission

Handler(n, depth) == [node |-> n, depth |-> depth, phase |-> "plan", next |-> 1]
-----------------------------------------------------------------------------
(* proxy.rs of glpi-plugins: the decision. *)

effective_only_local_store(n) ==
    n \in OnlyLocalStore \/ (n \in GlpiProtocol /\ ServersOf[n] = <<>>)

forward_to(n) == IF effective_only_local_store(n) THEN <<>> ELSE ServersOf[n]

Accept == "OK"

plan(n, depth, trusted) ==
    IF n \in ForbidNotTrusted /\ ~trusted THEN "UNTRUSTED-CLIENT"
    ELSE IF depth >= MaxPassThrough[n] THEN "LIMITED-PROXY"
    ELSE Accept

\* TransportForwarder::forward does not send next_depth.
onward_depth(next_depth) == 0
-----------------------------------------------------------------------------
Init ==
    /\ entry \in [Submission -> Proxy]
    /\ stack = [s \in Submission |-> <<>>]
    /\ answer = [s \in Submission |-> "unsent"]
    /\ file = [n \in Proxy |-> NoFile]
    /\ kept = [n \in Proxy |-> {}]
    /\ applied = [g \in Glpi |-> {}]
    /\ late = {}

Busy(s) == answer[s] = "pending" /\ stack[s] # <<>>
Active(s) == Last(stack[s])
SetActive(s, h) == stack' = [stack EXCEPT ![s] = Append(Front(@), h)]
Client(s) == IF Len(stack[s]) = 1 THEN Agent ELSE stack[s][Len(stack[s]) - 1].node

\* The active handler answers: check_status makes any code but a success an
\* error of the caller, which then answers FORWARD-ERROR and goes no further.
Return(s, code) ==
    LET callers == Front(stack[s])
    IN IF callers = <<>>
       THEN /\ stack' = [stack EXCEPT ![s] = <<>>]
            /\ answer' = [answer EXCEPT ![s] = code]
       ELSE /\ stack' = [stack EXCEPT ![s] =
                  Append(Front(callers),
                         IF code = "OK"
                         THEN [Last(callers) EXCEPT !.next = @ + 1]
                         ELSE [Last(callers) EXCEPT !.phase = "failed"])]
            /\ UNCHANGED answer

\* An agent posts the next submission of the device, whatever became of the
\* one before.
Post(s) ==
    /\ answer[s] = "unsent"
    /\ s > 1 => answer[s - 1] # "unsent"
    /\ answer' = [answer EXCEPT ![s] = "pending"]
    /\ \E depth \in AgentDepths : stack' = [stack EXCEPT ![s] = <<Handler(entry[s], depth)>>]
    /\ UNCHANGED <<entry, file, kept, applied, late>>

At(s, phase) == Busy(s) /\ Active(s).node \in Proxy /\ Active(s).phase = phase

Decision(s) ==
    plan(Active(s).node, Active(s).depth, Client(s) \in TrustedBy[Active(s).node])

Reject(s) ==
    /\ At(s, "plan")
    /\ Decision(s) # Accept
    /\ Return(s, Decision(s))
    /\ UNCHANGED <<entry, file, kept, applied, late>>

\* Wrong: what is going to be forwarded is not stored.
Decide_NoStore(s) ==
    /\ At(s, "plan")
    /\ Decision(s) = Accept
    /\ SetActive(s, [Active(s) EXCEPT !.phase = "forward"])
    /\ UNCHANGED <<entry, answer, file, kept, applied, late>>

\* The plan is accepted: store first when there is a directory for it.
Decide(s) ==
    /\ At(s, "plan")
    /\ Decision(s) = Accept
    /\ SetActive(s, [Active(s) EXCEPT
           !.phase = IF Active(s).node \in LocalStore THEN "store" ELSE "forward"])
    /\ UNCHANGED <<entry, answer, file, kept, applied, late>>

\* fs::write truncates the device's file ...
OpenStore(s) ==
    LET n == Active(s).node IN
    /\ At(s, "store")
    /\ file' = [file EXCEPT ![n] = NoFile]
    /\ SetActive(s, [Active(s) EXCEPT !.phase = "write"])
    /\ UNCHANGED <<entry, answer, kept, applied, late>>

\* ... and writes the body from its start: over the bytes another handler
\* wrote meanwhile, the tail of the longer one remains.
WriteStore(s) ==
    LET n == Active(s).node IN
    /\ At(s, "write")
    /\ file' \in {[file EXCEPT ![n] = body] : body \in {s, IF file[n] = NoFile THEN s ELSE Mixed}}
    /\ kept' = [kept EXCEPT ![n] = @ \cup {s}]
    /\ SetActive(s, [Active(s) EXCEPT !.phase = "forward"])
    /\ UNCHANGED <<entry, answer, applied, late>>

\* The directory or the file cannot be written.
StoreFails(s) ==
    /\ At(s, "store") \/ At(s, "write")
    /\ Return(s, "STORE-ERROR")
    /\ UNCHANGED <<entry, file, kept, applied, late>>

\* The body is posted to the next server, which the handler waits for.
Forward(s) ==
    /\ At(s, "forward")
    /\ Active(s).next <= Len(forward_to(Active(s).node))
    /\ Len(stack[s]) < MaxDepth
    /\ stack' = [stack EXCEPT ![s] =
          Append(@, Handler(forward_to(Active(s).node)[Active(s).next],
                            onward_depth(Active(s).depth + 1)))]
    /\ UNCHANGED <<entry, answer, file, kept, applied, late>>

\* Every server has taken it.
Done(s) ==
    /\ At(s, "forward")
    /\ Active(s).next > Len(forward_to(Active(s).node))
    /\ Return(s, "OK")
    /\ UNCHANGED <<entry, file, kept, applied, late>>

\* Wrong: a server that fails is logged and the next one is tried.
ForwardFailed_GoesOn(s) ==
    /\ At(s, "failed")
    /\ SetActive(s, [Active(s) EXCEPT !.phase = "forward", !.next = @ + 1])
    /\ UNCHANGED <<entry, answer, file, kept, applied, late>>

\* One of them has not: the remaining servers are not tried.
ForwardFailed(s) ==
    /\ At(s, "failed")
    /\ Return(s, "FORWARD-ERROR")
    /\ UNCHANGED <<entry, file, kept, applied, late>>

AtGlpi(s) == Busy(s) /\ Active(s).node \in Glpi

Apply(s) ==
    /\ AtGlpi(s)
    /\ applied' = [applied EXCEPT ![Active(s).node] = @ \cup {s}]
    /\ Return(s, "OK")
    /\ UNCHANGED <<entry, file, kept, late>>

\* The server cannot be reached or refuses the submission.
Refuse(s) ==
    /\ AtGlpi(s)
    /\ Return(s, "FORWARD-ERROR")
    /\ UNCHANGED <<entry, file, kept, applied, late>>

\* A handler is dropped where it waits, never inside a write.  A request may
\* be with a GLPI server already, which then applies it late or not at all.
Abandon(s) ==
    /\ Active(s).phase # "write"
    /\ late' \in {late} \cup {late \cup {<<g, s>>} : g \in Glpi \cap {Active(s).node}}

\* Wrong: the client is built without a timeout.
Timeout_Never(s, k) == FALSE

\* The handler at k has waited for 180 seconds; its forward fails.
Timeout(s, k) ==
    /\ Busy(s)
    /\ k < Len(stack[s])
    /\ stack' = [stack EXCEPT ![s] = [SubSeq(@, 1, k) EXCEPT ![k].phase = "failed"]]
    /\ Abandon(s)
    /\ UNCHANGED <<entry, answer, file, kept, applied>>

\* The agent itself has.
AgentTimeout(s) ==
    /\ Busy(s)
    /\ stack' = [stack EXCEPT ![s] = <<>>]
    /\ answer' = [answer EXCEPT ![s] = "timeout"]
    /\ Abandon(s)
    /\ UNCHANGED <<entry, file, kept, applied>>

ApplyLate(g, s) ==
    /\ <<g, s>> \in late
    /\ late' = late \ {<<g, s>>}
    /\ applied' = [applied EXCEPT ![g] = @ \cup {s}]
    /\ UNCHANGED <<entry, stack, answer, file, kept>>

Step(s) ==
    \/ Reject(s) \/ Decide(s) \/ OpenStore(s) \/ WriteStore(s) \/ StoreFails(s) \/ Forward(s)
    \/ Done(s) \/ ForwardFailed(s) \/ Apply(s) \/ Refuse(s)

Terminated ==
    /\ \A s \in Submission : answer[s] \notin {"unsent", "pending"}
    /\ UNCHANGED vars

Next ==
    \/ \E s \in Submission :
          \/ Post(s)
          \/ Reject(s)
          \/ Decide(s)
          \/ OpenStore(s)
          \/ WriteStore(s)
          \/ StoreFails(s)
          \/ Forward(s)
          \/ Done(s)
          \/ ForwardFailed(s)
          \/ Apply(s)
          \/ Refuse(s)
          \/ \E k \in 1..MaxDepth : Timeout(s, k)
          \/ AgentTimeout(s)
          \/ \E g \in Glpi : ApplyLate(g, s)
    \/ Terminated

Spec == Init /\ [][Next]_vars

\* Handlers run, and a caller does not wait for ever: its request has a timeout.
FairSpec ==
    /\ Spec
    /\ \A s \in Submission : WF_vars(Step(s)) /\ WF_vars(\E k \in 1..MaxDepth : Timeout(s, k))
-----------------------------------------------------------------------------
Onward(n) == IF n \in Proxy THEN ToSet(forward_to(n)) ELSE {}

\* The nodes a submission to n is meant to reach.
Reach(n) ==
    {m \in Node : \A S \in SUBSET Node :
                     (n \in S /\ \A k \in S : Onward(k) \subseteq S) => m \in S}

(* An agent that is answered OK can forget its submission: every GLPI      *)
(* server behind the proxies has applied it and every proxy on the way     *)
(* that keeps a local store has stored it, through any partial failure,    *)
(* timeout and retry of other submissions.                                 *)
OkMeansDelivered ==
    \A s \in Submission : answer[s] = "OK" =>
        \A n \in Reach(entry[s]) :
            /\ n \in Glpi => s \in applied[n]
            /\ n \in LocalStore => s \in kept[n]

(* A proxy that keeps a local store has a copy of everything it passes on: *)
(* nothing is sent onward, at any depth, by a proxy that has not stored it *)
(* first, and a GLPI server never has what the entry proxy lacks.          *)
StoredBeforeForwarded ==
    \A s \in Submission :
        /\ \A i \in 1..(Len(stack[s]) - 1) :
              stack[s][i].node \in LocalStore => s \in kept[stack[s][i].node]
        /\ \A g \in Glpi :
              (s \in applied[g] /\ entry[s] \in LocalStore) => s \in kept[entry[s]]

(* Every agent gets an answer, even where proxies forward to each other in *)
(* a circle: the timeouts of the requests take the circle apart.           *)
Answered == \A s \in Submission : (answer[s] = "pending") ~> (answer[s] # "pending")
=============================================================================

--------------------------- MODULE DebuggerProofs ---------------------------
(***************************************************************************)
(* The safety of the debugger and its DAP client, for any number of        *)
(* requests, events and threads, any adapter that Debugger allows and any  *)
(* way its messages are cut into pieces.                                   *)
(*                                                                         *)
(* HeaderInv: the header under way.  TypeInv: the messages under way.      *)
(* ExchangeInv: what the adapter owes and who waits for it.  SessionInv:   *)
(* what a session leaves.  OrderInv: the events, numbered through.         *)
(* FollowInv: the threads they stop.  CommandInv: the command processed;   *)
(* with it, Debugger implements DebugSession.  EndInv, AttachInv, DueInv:  *)
(* who waits for whom, and that nobody waits for what does not come.       *)
(* ReadingInv: why the DAP client reads when nothing is there to read.     *)
(***************************************************************************)
EXTENDS Debugger, SubsequenceProofs, TLAPS

Headers == [phase : Phase \ {"serving"}, body : Nat]

\* The header under way is that of the request the control thread processes,
\* and it does not send the request before it has the acknowledgement.
HeaderInv ==
    /\ issued \in Nat
    /\ header \in Headers
    /\ ctl = "header" <=> header.phase # "idle"
    /\ ctl = "header" => header.body = issued
    /\ header.phase = "reply" => parentHeader = issued
    /\ ctl = "request" => parentHeader = issued

\* What the invariant is about.
headerVars == <<ctl, issued, header, parentHeader>>

LEMMA HeaderStutter ==
    HeaderInv /\ UNCHANGED headerVars => HeaderInv'
  BY DEF HeaderInv, headerVars

\* No header is under way when the front end sends its next request.
LEMMA FrontEndStep ==
    HeaderInv /\ FrontEnd => HeaderInv'
  <1> SUFFICES ASSUME HeaderInv, FrontEnd PROVE HeaderInv'
    OBVIOUS
  <1>1. CASE StartSucceeds
    BY <1>1 DEF StartSucceeds, Takes, HeaderInv, Headers, Phase
  <1>2. ASSUME NEW c \in Commands, AnswersAtOnce(c) PROVE HeaderInv'
    BY <1>2 DEF AnswersAtOnce, Takes, HeaderInv, Headers, Phase, dapVars, linkVars
  <1>3. ASSUME NEW c \in Commands, Forwards(c) PROVE HeaderInv'
    BY <1>3 DEF Forwards, Takes, SendHeader, HeaderInv, Headers, Phase, dapVars
  <1>4. QED BY <1>1, <1>2, <1>3 DEF FrontEnd

LEMMA ControlStep ==
    HeaderInv /\ Control => HeaderInv'
  <1> SUFFICES ASSUME HeaderInv, Control PROVE HeaderInv'
    OBVIOUS
  <1>1. CASE Starts
    BY <1>1 DEF Starts, SendHeader, HeaderInv, Headers, Phase, dapVars
  <1>2. CASE SendsRequest
    BY <1>2 DEF SendsRequest, HeaderInv, Headers, Phase, dapVars
  <1>3. CASE ReceivesReply
    BY <1>3 DEF ReceivesReply, HeaderInv, Headers, Phase, dapVars
  <1>4. CASE Stops
    BY <1>4 DEF Stops, HeaderInv, Headers, Phase, dapVars, linkVars
  <1>5. QED BY <1>1, <1>2, <1>3, <1>4 DEF Control

\* The thread of the DAP client takes a header at one place only, at the poll.
LEMMA PollStep ==
    HeaderInv /\ Poll /\ UNCHANGED ctlVars => HeaderInv'
  <1> SUFFICES ASSUME HeaderInv, Poll, UNCHANGED ctlVars PROVE HeaderInv'
    OBVIOUS
  <1>1. CASE header.phase = "request"
    BY <1>1 DEF Poll, HandleHeaderSocket, HeaderInv, Headers, Phase, ctlVars
  <1>2. CASE header.phase # "request"
    BY <1>2 DEF Poll, HandleHeaderSocket, HeaderInv, Headers, Phase, ctlVars
  <1>3. QED BY <1>1, <1>2

\* Everywhere else it leaves both the header and the parent header alone,
\* whatever it reads from the adapter.
LEMMA DapLeavesHeader ==
    DapStep => Poll \/ UNCHANGED <<header, parentHeader>>
  <1> SUFFICES ASSUME DapStep PROVE Poll \/ UNCHANGED <<header, parentHeader>>
    OBVIOUS
  <1>1. CASE Handshake BY <1>1 DEF Handshake
  <1>2. CASE Read BY <1>2 DEF Read, linkVars
  <1>3. ASSUME NEW w \in Awaited, KeepsWaiting(w) PROVE UNCHANGED <<header, parentHeader>>
    BY <1>3 DEF KeepsWaiting, linkVars
  <1>4. CASE AskThreads BY <1>4 DEF AskThreads, linkVars
  <1>5. CASE ForwardStopped BY <1>5 DEF ForwardStopped, Receives
  <1>6. CASE ForwardEvent BY <1>6 DEF ForwardEvent, linkVars
  <1>7. CASE ForwardResponse BY <1>7 DEF ForwardResponse
  <1>8. CASE EndTurn BY <1>8 DEF EndTurn, linkVars
  <1>9. CASE SendConfigurationDone BY <1>9 DEF SendConfigurationDone, Receives
  <1>10. CASE ReceiveConfigurationDone BY <1>10 DEF ReceiveConfigurationDone, Receives
  <1>11. CASE FinishAttach BY <1>11 DEF FinishAttach, Receives
  <1>12. QED
    BY <1>1, <1>2, <1>3, <1>4, <1>5, <1>6, <1>7, <1>8, <1>9, <1>10, <1>11 DEF DapStep

LEMMA HeaderStep ==
    HeaderInv /\ [Next]_vars => HeaderInv'
  <1> SUFFICES ASSUME HeaderInv, [Next]_vars PROVE HeaderInv'
    OBVIOUS
  <1>1. CASE FrontEnd BY <1>1, FrontEndStep
  <1>2. CASE Control BY <1>2, ControlStep
  <1>3. CASE Dap
    BY <1>3, PollStep, DapLeavesHeader, HeaderStutter DEF Dap, ctlVars, headerVars
  <1>4. CASE Adapter
    BY <1>4, HeaderStutter DEF Adapter, ctlVars, dapVars, linkVars, headerVars
  <1>5. CASE UNCHANGED vars
    BY <1>5, HeaderStutter DEF vars, ctlVars, dapVars, linkVars, headerVars
  <1>6. QED BY <1>1, <1>2, <1>3, <1>4, <1>5 DEF Next

-----------------------------------------------------------------------------
\* The header of the request under way has reached the DAP client before the
\* request itself, whatever the client reads from the adapter meanwhile
\* (xdebugger_base.cpp:396-407, xdap_tcp_client_impl.cpp:245-251).
THEOREM HeadersAreInTurn == Spec => []HeaderInv
  <1>1. Init => HeaderInv
    BY DEF Init, DapInit, HeaderInv, Headers, Phase
  <1>2. QED BY <1>1, HeaderStep, PTL DEF Spec

\* What is published while the adapter works on a request carries the header of
\* that request, even though header and request travel through two pairs of
\* sockets (xdap_tcp_client_impl.cpp:77, 245-251).
THEOREM ParentHeaderIsRight == Spec => []ParentHeaderIsCurrent
  <1>1. HeaderInv => ParentHeaderIsCurrent
    BY DEF HeaderInv, ParentHeaderIsCurrent
  <1>2. QED BY <1>1, HeadersAreInTurn, PTL

-----------------------------------------------------------------------------
(* The messages on their way.                                               *)

\* What is known of a message by its type.
LEMMA MessageFacts ==
    /\ \A c, d : Response(c) = Response(d) => c = d
    /\ \A c : Response(c).type = "response" /\ Response(c).command = c
    /\ \A c \in Words : Response(c) \in Message
    /\ \A c : Response(c) \notin Raised /\ Response(c) # Initialized
    /\ Initialized \in Message /\ Initialized \notin Raised
    /\ Initialized.type = "event" /\ Initialized.kind = "initialized" /\ Initialized.no = 0
    /\ Raised \subseteq Message
  <1>1. \A c, d : Response(c) = Response(d) => c = d
    <2> SUFFICES ASSUME NEW c, NEW d, Response(c) = Response(d) PROVE c = d OBVIOUS
    <2>1. Response(c).command = Response(d).command OBVIOUS
    <2>2. QED BY <2>1 DEF Response
  <1>2. \A c : Response(c).type = "response" /\ Response(c).command = c BY DEF Response
  <1>3. Initialized.type = "event" /\ Initialized.kind = "initialized" /\ Initialized.no = 0
    BY DEF Initialized, Event
  <1>4. \A m \in Raised : m.type = "event" /\ m.no # 0 BY AdapterBounds DEF Raised
  <1>5. QED BY <1>1, <1>2, <1>3, <1>4 DEF Message

LEMMA RaisedFacts ==
    ASSUME NEW m \in Raised
    PROVE  /\ m.type = "event" /\ m.kind \in EventKinds
           /\ m.no \in 1 .. MaxEvents /\ m.no \in Nat
           /\ m.kind \in {"stopped", "continued"} => m.thread \in Threads
           /\ m.kind \notin {"stopped", "continued"} => m.thread = "none"
  BY AdapterBounds DEF Raised, Concerned

\* An event of the adapter with the number that comes next.
LEMMA RaisedNext ==
    ASSUME NEW kind \in EventKinds, NEW t \in Concerned(kind), NEW n \in 1 .. MaxEvents
    PROVE  Event(kind, t, n) \in Raised
  BY DEF Raised, Event, Concerned

LEMMA MessageCases ==
    ASSUME NEW m \in Message
    PROVE  \/ m \in Raised
           \/ m = Initialized
           \/ \E c \in Words : m = Response(c)
  BY DEF Message

LEMMA CommandIsWord == Commands \subseteq Words /\ Awaited \ {"initialized"} \subseteq Words
  BY DEF Words, Awaited

\* The message waited for is one.
LEMMA ExpectedIsMessage ==
    ASSUME NEW w \in Awaited
    PROVE  Expected(w) \in Message /\ Expected(w) \notin Raised
  BY MessageFacts, CommandIsWord DEF Expected, Awaited

-----------------------------------------------------------------------------
(* What comes of waiting for a message.                                     *)

LEMMA Regroup ==
    ASSUME NEW S, NEW x \in Seq(S), NEW y \in Seq(S), NEW z \in Seq(S),
           NEW xy, xy = x \o y, NEW yz, yz = y \o z
    PROVE  xy \o z = x \o yz
  BY ConcatAssociative, SMTT(60)

\* A sequence is what stands before its i-th element, that element, and what
\* stands after it.
LEMMA ThreeParts ==
    ASSUME NEW S, NEW s \in Seq(S), NEW i \in 1 .. Len(s)
    PROVE  /\ SubSeq(s, 1, i - 1) \in Seq(S) /\ <<s[i]>> \in Seq(S)
           /\ SubSeq(s, i + 1, Len(s)) \in Seq(S)
           /\ s = (SubSeq(s, 1, i - 1) \o <<s[i]>>) \o SubSeq(s, i + 1, Len(s))
           /\ i # 1 => /\ SubSeq(s, 1, i - 1) # <<>>
                       /\ Head(SubSeq(s, 1, i - 1)) = Head(s)
  <1> DEFINE u == SubSeq(s, 1, i - 1)
             b == <<s[i]>>
             v == SubSeq(s, i + 1, Len(s))
  <1>1. s = u \o (b \o v)
    <2>1. SubSeq(s, 1, Len(s)) = s BY SubSeqFull
    <2>2. PICK k \in 0 .. Len(s) : k = i - 1 OBVIOUS
    <2>3. SubSeq(s, 1, k) \o SubSeq(s, k + 1, Len(s)) = SubSeq(s, 1, Len(s))
      <3>1. 1 \in 1 .. Len(s) + 1 /\ k \in 1 - 1 .. Len(s) /\ Len(s) \in k .. Len(s)
        BY <2>2, LenProperties
      <3> HIDE DEF u, b, v
      <3>2. QED BY <3>1, ConcatAdjacentSubSeq
    <2>4. SubSeq(s, i, Len(s)) = <<s[i]>> \o SubSeq(s, i + 1, Len(s))
      BY SubSeqRecursiveFirst
    <2>5. k + 1 = i BY <2>2
    <2>6. QED BY <2>1, <2>2, <2>3, <2>4, <2>5
  <1>2. u \in Seq(S) /\ Len(u) = i - 1 /\ \A j \in 1 .. i - 1 : u[j] = s[j]
    BY ElementOfSeq, SubSeqProperties
  <1>3. v \in Seq(S) BY ElementOfSeq, SubSeqProperties
  <1>4. b \in Seq(S) BY ElementOfSeq
  <1> HIDE DEF u, b, v
  <1>5. (u \o b) \o v = u \o (b \o v) BY <1>2, <1>3, <1>4, Regroup, SMTT(60)
  <1>6. i # 1 => u # <<>> /\ Head(u) = Head(s) BY <1>2
  <1>7. QED BY <1>1, <1>2, <1>3, <1>4, <1>5, <1>6 DEF u, b, v

LEMMA HeadOfConcat ==
    ASSUME NEW S, NEW u \in Seq(S), NEW w \in Seq(S), u # <<>>
    PROVE  u \o w # <<>> /\ Head(u \o w) = Head(u)
  <1>1. Len(u) > 0 BY LenProperties
  <1>2. Len(u \o w) > 0 /\ (u \o w)[1] = u[1] BY <1>1, ConcatProperties
  <1>3. QED BY <1>1, <1>2

\* Without the element itself, the part that it makes up is empty.
LEMMA OneOut ==
    ASSUME NEW S, NEW x \in S, NEW b, b = <<x>>
    PROVE  b \in Seq(S) /\ Count(b, {x}) = 1 /\ Without(b, {x}) = <<>>
  <1> DEFINE T == {x}
             U == S \ T
  <1>1. x \in T /\ x \notin U /\ b \in Seq(S) OBVIOUS
  <1> HIDE DEF T, U
  <1>2. Only(<<x>>, T) = IF x \in T THEN <<x>> ELSE <<>> BY OnlyOne
  <1>3. Count(b, T) = 1 BY <1>1, <1>2 DEF Count
  <1>4. Only(<<x>>, U) = IF x \in U THEN <<x>> ELSE <<>> BY OnlyOne
  <1>5. Without(b, T) = <<>> BY <1>1, <1>4, WithoutIs DEF U
  <1>6. QED BY <1>1, <1>3, <1>5 DEF T

\* Of two queues of which the first has its i-th element removed, b is what the
\* element was and u and v are what stands around it.
QueueParts(q, out, i, u, b, v) ==
    /\ q \o out = (u \o b) \o v
    /\ RemoveAt(q, i) \o out = (u \o Without(b, {q[i]})) \o v
    /\ Count(b, {q[i]}) = 1

\* One element taken off a queue that goes on in a second one.
LEMMA TakenFromQueue ==
    ASSUME NEW S, NEW q \in Seq(S), NEW out \in Seq(S), NEW i \in 1 .. Len(q)
    PROVE  /\ RemoveAt(q, i) \in Seq(S)
           /\ i # 1 => RemoveAt(q, i) # <<>> /\ Head(RemoveAt(q, i)) = Head(q)
           /\ \E u, b, v \in Seq(S) : QueueParts(q, out, i, u, b, v)
  <1> DEFINE u == SubSeq(q, 1, i - 1)
             x == q[i]
             b == <<x>>
             w == SubSeq(q, i + 1, Len(q))
  <1>0. x \in S BY ElementOfSeq
  <1>1. /\ u \in Seq(S) /\ b \in Seq(S) /\ w \in Seq(S)
        /\ q = (u \o b) \o w
        /\ i # 1 => u # <<>> /\ Head(u) = Head(q)
    BY ThreeParts
  <1>2. RemoveAt(q, i) = u \o w BY DEF RemoveAt
  <1>3. Count(b, {x}) = 1 /\ Without(b, {x}) = <<>>
    <2> HIDE DEF x
    <2>1. QED BY <1>0, OneOut
  <1> DEFINE v == w \o out
             ub == u \o b
  <1> HIDE DEF u, b, w, x
  <1>4. v \in Seq(S) /\ ub \in Seq(S) BY <1>1, ConcatProperties
  <1>5. (u \o w) \o out = u \o v
    <2>1. u \in Seq(S) /\ w \in Seq(S) BY <1>1
    <2>2. QED BY <2>1, ConcatAssociative, SMTT(60)
  <1>6. u \o <<>> = u BY <1>1, ConcatEmptySeq
  <1>7. i # 1 => RemoveAt(q, i) # <<>> /\ Head(RemoveAt(q, i)) = Head(q)
    BY <1>1, <1>2, HeadOfConcat
  <1>8. RemoveAt(q, i) \in Seq(S) BY <1>1, <1>2, ConcatProperties
  <1> HIDE DEF v, ub
  <1>9. q \o out = ub \o v
    <2>1. q = ub \o w BY <1>1 DEF ub
    <2>2. v = w \o out BY DEF v
    <2>3. ub \in Seq(S) /\ w \in Seq(S) BY <1>1, <1>4
    <2>4. (ub \o w) \o out = ub \o (w \o out) BY <2>3, ConcatAssociative, SMTT(60)
    <2>5. QED BY <2>1, <2>2, <2>4
  <1>10. q \o out = (u \o b) \o v BY <1>9 DEF ub
  <1>11. RemoveAt(q, i) \o out = (u \o Without(b, {x})) \o v
    <2>1. u \o Without(b, {x}) = u BY <1>3, <1>6
    <2>2. QED BY <1>2, <1>5, <2>1
  <1>12. Count(b, {x}) = 1 BY <1>3
  <1>13. QueueParts(q, out, i, u, b, v) BY <1>10, <1>11, <1>12 DEF QueueParts, x
  <1>14. QED BY <1>1, <1>4, <1>7, <1>8, <1>13

LEMMA TakenFromSocket ==
    ASSUME NEW S, NEW q \in Seq(S), NEW out \in Seq(S), NEW k \in 1 .. Len(out)
    PROVE  /\ SubSeq(out, 1, k) \in Seq(S) /\ SubSeq(out, k + 1, Len(out)) \in Seq(S)
           /\ q \o out = (q \o SubSeq(out, 1, k)) \o SubSeq(out, k + 1, Len(out))
  <1> DEFINE b == SubSeq(out, 1, k)
             v == SubSeq(out, k + 1, Len(out))
  <1>1. b \in Seq(S) /\ v \in Seq(S) BY ElementOfSeq, SubSeqProperties
  <1>2. out = b \o v
    <2>1. SubSeq(out, 1, Len(out)) = out BY SubSeqFull
    <2>2. SubSeq(out, 1, k) \o SubSeq(out, k + 1, Len(out)) = SubSeq(out, 1, Len(out))
      BY ConcatAdjacentSubSeq
    <2>3. QED BY <2>1, <2>2
  <1> HIDE DEF b, v
  <1>3. (q \o b) \o v = q \o (b \o v) BY <1>1, ConcatAssociative
  <1>4. QED BY <1>1, <1>2, <1>3 DEF b, v

Queues == messageQueue \in Seq(Message) /\ adapterOut \in Seq(Message)

\* The messages of part b of the two queues that are waited for are taken, the
\* others stay where they are.
TakesFrom(w, o, u, b, v) ==
    /\ Pending = (u \o b) \o v
    /\ o.queue \o o.rest = (u \o Without(b, {Expected(w)})) \o v
    /\ o.found <=> Count(b, {Expected(w)}) # 0
    /\ o.lost <=> Count(b, {Expected(w)}) > 1

LEMMA OutcomeOfQueue ==
    ASSUME Queues, NEW w \in Awaited, Queued(w) # {}, NEW o \in Outcomes(w)
    PROVE  /\ o.queue \in Seq(Message) /\ o.rest \in Seq(Message)
           /\ messageQueue # <<>> /\ Head(messageQueue) # Expected(w)
                 => o.queue # <<>> /\ Head(o.queue) = Head(messageQueue)
           /\ o.found = TRUE /\ o.lost = FALSE
           /\ \E u, b, v \in Seq(Message) : TakesFrom(w, o, u, b, v)
  <1> DEFINE q == messageQueue
             first == CHOOSE i \in Queued(w) : \A j \in Queued(w) : i <= j
  <1>1. o = [found |-> TRUE, lost |-> FALSE, queue |-> RemoveAt(q, first), rest |-> adapterOut]
    BY DEF Outcomes
  <1>2. first \in 1 .. Len(q) /\ q[first] = Expected(w)
    <2>1. Queued(w) \in SUBSET Nat /\ Queued(w) \subseteq 1 .. Len(q) BY DEF Queued, Queues
    <2>2. \E i \in Queued(w) : \A j \in Queued(w) : i <= j BY <2>1, LeastNumber
    <2>3. first \in Queued(w) BY <2>2
    <2>4. QED BY <2>1, <2>3 DEF Queued
  <1> HIDE DEF first
  <1>3. q \in Seq(Message) /\ adapterOut \in Seq(Message) BY DEF Queues
  <1>4. PICK i \in 1 .. Len(q) : i = first BY <1>2
  <1> HIDE DEF q
  <1> DEFINE out == adapterOut
  <1>a. out \in Seq(Message) BY <1>3
  <1> HIDE DEF out
  <1>b. /\ RemoveAt(q, i) \in Seq(Message)
        /\ i # 1 => RemoveAt(q, i) # <<>> /\ Head(RemoveAt(q, i)) = Head(q)
        /\ \E u, b, v \in Seq(Message) : QueueParts(q, out, i, u, b, v)
    BY <1>3, <1>a, TakenFromQueue
  <1>5. /\ RemoveAt(q, i) \in Seq(Message)
        /\ i # 1 => RemoveAt(q, i) # <<>> /\ Head(RemoveAt(q, i)) = Head(q)
        /\ \E u, b, v \in Seq(Message) : QueueParts(q, adapterOut, i, u, b, v)
    BY <1>b DEF out
  <1>6. q # <<>> /\ Head(q) # Expected(w) => i # 1 BY <1>2, <1>4
  <1>7. \E u, b, v \in Seq(Message) : TakesFrom(w, o, u, b, v)
    <2>0. PICK u, b, v \in Seq(Message) : QueueParts(q, adapterOut, i, u, b, v) BY <1>5
    <2>1. /\ q \o adapterOut = (u \o b) \o v
          /\ RemoveAt(q, i) \o adapterOut = (u \o Without(b, {q[i]})) \o v
          /\ Count(b, {q[i]}) = 1
      BY <2>0 DEF QueueParts
    <2>2. q[i] = Expected(w) BY <1>2, <1>4
    <2>3. /\ o.queue = RemoveAt(q, i) /\ o.rest = adapterOut
          /\ o.found = TRUE /\ o.lost = FALSE
      BY <1>1, <1>4
    <2>4. Count(b, {q[i]}) # 0 /\ ~(Count(b, {q[i]}) > 1) BY <2>1
    <2>5. TakesFrom(w, o, u, b, v) BY <2>1, <2>2, <2>3, <2>4, Zenon DEF TakesFrom, Pending, q
    <2>6. QED BY <2>5
  <1>8. QED BY <1>1, <1>3, <1>4, <1>5, <1>6, <1>7 DEF q

LEMMA OutcomeOfSocket ==
    ASSUME Queues, NEW w \in Awaited, Queued(w) = {}, NEW o \in Outcomes(w)
    PROVE  /\ o.queue \in Seq(Message) /\ o.rest \in Seq(Message)
           /\ messageQueue # <<>> => o.queue # <<>> /\ Head(o.queue) = Head(messageQueue)
           /\ o.found \in BOOLEAN /\ o.lost \in BOOLEAN
           /\ \E u, b, v \in Seq(Message) : TakesFrom(w, o, u, b, v)
  <1> DEFINE q == messageQueue
             out == adapterOut
             T == {Expected(w)}
  <1>1. q \in Seq(Message) /\ out \in Seq(Message) BY DEF Queues
  <1>2. PICK k \in 1 .. Len(out) : o = Sorted(w, k) BY DEF Outcomes, Batches
  <1> DEFINE b == SubSeq(out, 1, k)
             v == SubSeq(out, k + 1, Len(out))
  <1>3. Batches[k] = b BY DEF Batches
  <1>4. /\ o.found = (Count(b, T) > 0)
        /\ o.lost = (Count(b, T) > 1)
        /\ o.queue = q \o Without(b, T)
        /\ o.rest = v
    BY <1>2, <1>3 DEF Sorted
  <1> HIDE DEF q, out, T
  <1>5. /\ b \in Seq(Message) /\ v \in Seq(Message)
        /\ q \o out = (q \o b) \o v
    <2>1. \A j \in 1 .. Len(out) :
              /\ SubSeq(out, 1, j) \in Seq(Message) /\ SubSeq(out, j + 1, Len(out)) \in Seq(Message)
              /\ q \o out = (q \o SubSeq(out, 1, j)) \o SubSeq(out, j + 1, Len(out))
      BY <1>1, TakenFromSocket
    <2>2. QED BY <2>1
  <1> HIDE DEF b, v
  <1>6. Without(b, T) \in Seq(Message) /\ Count(b, T) \in Nat
    BY <1>5, WithoutIsSeq, CountNat
  <1>7. o.queue \in Seq(Message) BY <1>1, <1>4, <1>6, ConcatProperties
  <1>8. q # <<>> => o.queue # <<>> /\ Head(o.queue) = Head(q)
    BY <1>1, <1>4, <1>6, HeadOfConcat
  <1>9. TakesFrom(w, o, q, b, v)
    <2>1. o.found <=> Count(b, T) # 0
      <3>1. Count(b, T) > 0 <=> Count(b, T) # 0 BY <1>6
      <3>2. QED BY <1>4, <3>1, Zenon
    <2>2. o.queue \o o.rest = (q \o Without(b, T)) \o v BY <1>4
    <2>3. o.lost <=> Count(b, T) > 1 BY <1>4
    <2>4. QED BY <1>5, <2>1, <2>2, <2>3 DEF TakesFrom, Pending, q, out, T
  <1>10. QED BY <1>1, <1>4, <1>5, <1>6, <1>7, <1>8, <1>9 DEF q

LEMMA OutcomeShape ==
    ASSUME Queues, NEW w \in Awaited, NEW o \in Outcomes(w)
    PROVE  /\ o.queue \in Seq(Message) /\ o.rest \in Seq(Message)
           /\ messageQueue # <<>> /\ Head(messageQueue) # Expected(w)
                 => o.queue # <<>> /\ Head(o.queue) = Head(messageQueue)
           /\ o.found \in BOOLEAN /\ o.lost \in BOOLEAN
           /\ \E u, b, v \in Seq(Message) : TakesFrom(w, o, u, b, v)
  <1>1. CASE Queued(w) # {} BY <1>1, OutcomeOfQueue
  <1>2. CASE Queued(w) = {} BY <1>2, OutcomeOfSocket
  <1>3. QED BY <1>1, <1>2

\* Nothing else than the message waited for leaves the queues, nor does it
\* change places.
LEMMA OutcomeKeepsOthers ==
    ASSUME Queues, NEW w \in Awaited, NEW o \in Outcomes(w), NEW T, Expected(w) \notin T
    PROVE  Only(o.queue \o o.rest, T) = Only(Pending, T)
  <1> DEFINE A == {Expected(w)}
  <1>1. PICK u, b, v \in Seq(Message) : TakesFrom(w, o, u, b, v) BY OutcomeShape
  <1>2. A \intersect T = {} OBVIOUS
  <1>3. /\ Pending = (u \o b) \o v
        /\ o.queue \o o.rest = (u \o Without(b, A)) \o v
    BY <1>1 DEF TakesFrom
  <1> HIDE DEF A
  <1>4. Only((u \o Without(b, A)) \o v, T) = Only((u \o b) \o v, T) BY <1>2, OthersStay
  <1>5. QED BY <1>3, <1>4

\* At least one such message leaves them when the wait is over, none before; and
\* one only, if none is lost.
LEMMA OutcomeTakes ==
    ASSUME Queues, NEW w \in Awaited, NEW o \in Outcomes(w)
    PROVE  /\ ~o.found => o.queue \o o.rest = Pending
           /\ o.found => Count(o.queue \o o.rest, {Expected(w)}) < Count(Pending, {Expected(w)})
           /\ o.found /\ ~o.lost
                => Count(o.queue \o o.rest, {Expected(w)}) = Count(Pending, {Expected(w)}) - 1
  <1> DEFINE A == {Expected(w)}
  <1>1. PICK u, b, v \in Seq(Message) : TakesFrom(w, o, u, b, v) BY OutcomeShape
  <1>2. /\ Pending = (u \o b) \o v
        /\ o.queue \o o.rest = (u \o Without(b, A)) \o v
        /\ o.found <=> Count(b, A) # 0
        /\ o.lost <=> Count(b, A) > 1
    BY <1>1 DEF TakesFrom
  <1> HIDE DEF A
  <1>3. ~o.found => o.queue \o o.rest = Pending
    <2>1. Count(b, A) = 0 => Without(b, A) = b BY WithoutNone
    <2>2. QED BY <1>2, <2>1
  <1>4. /\ o.found => Count(o.queue \o o.rest, A) < Count(Pending, A)
        /\ o.found /\ ~o.lost => Count(o.queue \o o.rest, A) = Count(Pending, A) - 1
    <2>1. Count((u \o Without(b, A)) \o v, A) = Count((u \o b) \o v, A) - Count(b, A)
      BY FewerLeft
    <2>2. Count((u \o b) \o v, A) \in Nat
      <3> DEFINE ub == u \o b
      <3>1. ub \in Seq(Message) BY ConcatProperties
      <3> HIDE DEF ub
      <3>2. ub \o v \in Seq(Message) BY <3>1, ConcatProperties
      <3>3. QED BY <3>2, CountNat DEF ub
    <2>3. Count(b, A) \in Nat BY CountNat
    <2>4. QED BY <1>2, <2>1, <2>2, <2>3
  <1>5. QED BY <1>3, <1>4 DEF A

-----------------------------------------------------------------------------
(* Types.                                                                   *)

\* The thread asks for the list of threads because of the event at the front of
\* its queue, which stays there until the list has come.
FrontInv ==
    dap = "threads" => /\ messageQueue # <<>>
                       /\ Head(messageQueue) \in Raised
                       /\ Head(messageQueue).kind = "all_stopped"

TypeInv == TypeOK /\ FrontInv

LEMMA TypeInit ==
    Init => TypeInv
  <1> SUFFICES ASSUME Init PROVE TypeInv
    OBVIOUS
  <1> USE DEF Init, AdapterInit, DapInit
  <1>1. /\ ctl \in CtlState /\ command \in Commands \union {"none"}
        /\ {isStarted, breakpoints} \subseteq BOOLEAN
    BY DEF CtlState
  <1>2. issued \in 0 .. MaxRequests BY DebuggerBounds
  <1>3. AdapterOK BY AdapterBounds DEF AdapterOK, AdapterState
  <1>4. DapOK BY DEF DapOK, DapState, Phase, IdleSocket
  <1>5. MessagesOK BY DEF MessagesOK, Phase, IdleSocket, Words
  <1>6. FrontInv BY DEF FrontInv
  <1>7. QED BY <1>1, <1>2, <1>3, <1>4, <1>5, <1>6 DEF TypeInv, TypeOK

LEMMA TypeFrontEnd ==
    TypeInv /\ FrontEnd => TypeInv'
  <1> SUFFICES ASSUME TypeInv, FrontEnd PROVE TypeInv'
    OBVIOUS
  <1> USE DEF TypeInv, TypeOK, MessagesOK, FrontInv, Queues, CtlState, AdapterOK, DapOK, Takes
  <1>1. CASE StartSucceeds
    BY <1>1, DebuggerBounds DEF StartSucceeds, AdapterStarts, AdapterState, DapState, Phase, Words
  <1>2. ASSUME NEW c \in Commands, AnswersAtOnce(c) PROVE TypeInv'
    BY <1>2, DebuggerBounds DEF AnswersAtOnce, adapterVars, dapVars, linkVars
  <1>3. ASSUME NEW c \in Commands, Forwards(c) PROVE TypeInv'
    BY <1>3, DebuggerBounds DEF Forwards, SendHeader, adapterVars, dapVars, Phase
  <1>4. QED BY <1>1, <1>2, <1>3 DEF FrontEnd

LEMMA TypeControl ==
    TypeInv /\ Control => TypeInv'
  <1> SUFFICES ASSUME TypeInv, Control PROVE TypeInv'
    OBVIOUS
  <1> USE DEF TypeInv, TypeOK, MessagesOK, FrontInv, Queues, CtlState, AdapterOK, DapOK,
              adapterVars, dapVars, linkVars
  <1>1. CASE Starts
    BY <1>1, DebuggerBounds DEF Starts, SendHeader, IdleSocket, Phase, Words
  <1>2. CASE SendsRequest
    BY <1>2 DEF SendsRequest, Phase, Words
  <1>3. CASE ReceivesReply
    BY <1>3 DEF ReceivesReply, IdleSocket, Phase, Words
  <1>4. CASE Stops
    BY <1>4 DEF Stops
  <1>5. QED BY <1>1, <1>2, <1>3, <1>4 DEF Control

\* The four ways the adapter answers, and what it answers.
LEMMA AnswerCases ==
    ASSUME NEW c, NEW p, NEW m \in Answers(c, p).messages
    PROVE  \/ /\ c = "attach" /\ adapter = "running"
              /\ \/ Answers(c, p).to = "attaching" /\ m = <<Initialized>>
                 \/ Answers(c, p).to = "attached" /\ m = <<Initialized, Response(c)>>
           \/ /\ c = "configurationDone" /\ adapter = "attaching"
              /\ Answers(c, p).to = "attached"
              /\ \/ m = <<Response(c), Response("attach")>>
                 \/ m = <<Response("attach"), Response(c)>>
           \/ c = "disconnect" /\ Answers(c, p).to = "gone" /\ m = <<Response(c)>>
           \/ c # "disconnect" /\ Answers(c, p).to = adapter /\ m = <<Response(c)>>
  <1>1. CASE c = "attach" /\ adapter = "running"
    <2>1. Answers(c, p) = IF p THEN [to |-> "attaching", messages |-> {<<Initialized>>}]
                          ELSE [to |-> "attached", messages |-> {<<Initialized, Response(c)>>}]
      BY <1>1 DEF Answers
    <2>2. CASE p
      <3>1. Answers(c, p) = [to |-> "attaching", messages |-> {<<Initialized>>}] BY <2>1, <2>2
      <3>2. m = <<Initialized>> /\ Answers(c, p).to = "attaching" BY <3>1
      <3>3. QED BY <1>1, <3>2
    <2>3. CASE ~p
      <3>1. Answers(c, p) = [to |-> "attached", messages |-> {<<Initialized, Response(c)>>}]
        BY <2>1, <2>3
      <3>2. m = <<Initialized, Response(c)>> /\ Answers(c, p).to = "attached" BY <3>1
      <3>3. QED BY <1>1, <3>2
    <2>4. QED BY <2>2, <2>3
  <1>2. CASE c = "configurationDone" /\ adapter = "attaching"
    <2>1. Answers(c, p) = [to |-> "attached", messages |-> {<<Response(c), Response("attach")>>,
                                                           <<Response("attach"), Response(c)>>}]
      BY <1>2 DEF Answers
    <2>2. QED BY <1>2, <2>1
  <1>3. CASE c = "disconnect"
    <2>1. Answers(c, p) = [to |-> "gone", messages |-> {<<Response(c)>>}]
      BY <1>3 DEF Answers
    <2>2. QED BY <1>3, <2>1
  <1>4. CASE ~ (\/ c = "attach" /\ adapter = "running"
                \/ c = "configurationDone" /\ adapter = "attaching"
                \/ c = "disconnect")
    <2>1. Answers(c, p) = [to |-> adapter, messages |-> {<<Response(c)>>}]
      BY <1>4 DEF Answers
    <2>2. QED BY <1>4, <2>1
  <1>5. QED BY <1>1, <1>2, <1>3, <1>4

LEMMA OneOrTwo ==
    ASSUME NEW S, NEW x \in S, NEW y \in S
    PROVE  <<x>> \in Seq(S) /\ <<x, y>> \in Seq(S)
  OBVIOUS

\* What the adapter answers are messages.
LEMMA AnswersAreMessages ==
    ASSUME NEW c \in Words, NEW p, adapter \in AdapterState, NEW m \in Answers(c, p).messages
    PROVE  m \in Seq(Message) /\ Answers(c, p).to \in AdapterState
  <1>1. /\ Initialized \in Message /\ Response(c) \in Message
        /\ Response("attach") \in Message
    BY MessageFacts, CommandIsWord DEF Awaited
  <1> DEFINE r == Response(c)
             a == Response("attach")
  <1>2. m \in {<<Initialized>>, <<Initialized, r>>, <<r, a>>, <<a, r>>, <<r>>}
        /\ Answers(c, p).to \in {"attaching", "attached", "gone", adapter}
    BY AnswerCases
  <1>3. {<<Initialized>>, <<Initialized, r>>, <<r, a>>, <<a, r>>, <<r>>} \subseteq Seq(Message)
    <2> HIDE DEF r, a
    <2>1. r \in Message /\ a \in Message BY <1>1 DEF r, a
    <2>2. QED BY <1>1, <2>1, OneOrTwo
  <1>4. QED BY <1>2, <1>3 DEF AdapterState

LEMMA TypeAdapter ==
    TypeInv /\ Adapter => TypeInv'
  <1> SUFFICES ASSUME TypeInv, Adapter PROVE TypeInv'
    OBVIOUS
  <1> USE DEF TypeInv, TypeOK, MessagesOK, FrontInv, Queues, CtlState, AdapterOK, DapOK,
              ctlVars, dapVars, linkVars
  <1>0. UNCHANGED <<ctlVars, dapVars, linkVars, stoppedThreads>> BY DEF Adapter
  <1>1. CASE AdapterAnswers(parallel)
    <2> DEFINE c == Head(adapterIn)
    <2>1. c \in Words /\ Tail(adapterIn) \in Seq(Words)
      BY <1>1, HeadThenTail DEF AdapterAnswers
    <2>2. PICK m \in Answers(c, parallel).messages : adapterOut' = adapterOut \o m
      BY <1>1 DEF AdapterAnswers
    <2>3. m \in Seq(Message) /\ Answers(c, parallel).to \in AdapterState
      BY <2>1, AnswersAreMessages
    <2>4. adapterOut' \in Seq(Message) BY <2>2, <2>3, ConcatProperties
    <2>5. adapter' \in AdapterState /\ halted' \subseteq Threads /\ raised' = raised
          /\ adapterIn' = Tail(adapterIn)
      BY <1>1, <2>3 DEF AdapterAnswers
    <2> HIDE DEF c
    <2>6. QED BY <1>0, <2>1, <2>4, <2>5
  <1>2. CASE AdapterRefuses
    <2>1. Response("attach") \in Message BY MessageFacts, CommandIsWord DEF Awaited
    <2>2. Tail(adapterIn) \in Seq(Words) BY <1>2, HeadThenTail DEF AdapterRefuses
    <2>3. QED BY <1>0, <1>2, <2>1, <2>2 DEF AdapterRefuses
  <1>3. ASSUME NEW kind \in EventKinds, NEW t \in Concerned(kind), AdapterRaises(kind, t)
        PROVE  TypeInv'
    <2>1. raised + 1 \in 1 .. MaxEvents BY <1>3, AdapterBounds DEF AdapterRaises
    <2>2. Event(kind, t, raised + 1) \in Message BY <2>1, RaisedNext DEF Message
    <2>3. After(kind, t) \subseteq Threads BY DEF After, Concerned
    <2>4. QED BY <1>0, <1>3, <2>1, <2>2, <2>3 DEF AdapterRaises
  <1>4. CASE AdapterDies
    BY <1>0, <1>4 DEF AdapterDies, AdapterState
  <1>5. QED BY <1>1, <1>2, <1>3, <1>4 DEF Adapter, AdapterStep

LEMMA ReplyTypes ==
    ASSUME request \in [phase : Phase, body : Words], NEW c \in Words,
           NEW next \in DapState, Reply(c, next)
    PROVE  /\ request' \in [phase : Phase, body : Words]
           /\ dap' \in {next, "terminated"} /\ dap' \in DapState
  BY DEF Reply, Phase, DapState

\* What the callback makes of the set of stopped threads.
LEMMA PublishTypes ==
    ASSUME stoppedThreads \subseteq Threads, published \in Seq(Nat),
           NEW e \in Raised \union {Initialized}, Publish(e)
    PROVE  stoppedThreads' \subseteq Threads /\ published' \in Seq(Nat)
  <1>1. e.no \in Nat BY RaisedFacts, MessageFacts
  <1>2. e.kind = "stopped" => e.thread \in Threads BY RaisedFacts, MessageFacts
  <1>3. QED BY <1>1, <1>2 DEF Publish, HandleEvent

\* An event at the front of the queue is one the adapter raised, or "initialized".
LEMMA FrontIsMessage ==
    ASSUME Queues, messageQueue # <<>>
    PROVE  /\ Head(messageQueue) \in Message /\ Tail(messageQueue) \in Seq(Message)
           /\ Head(messageQueue).type = "event" => Head(messageQueue) \in Raised \union {Initialized}
           /\ Head(messageQueue).type = "event" /\ Head(messageQueue).kind = "all_stopped"
                 => Head(messageQueue) \in Raised
           /\ Head(messageQueue).type = "response"
                 => /\ Head(messageQueue).command \in Words
                    /\ Head(messageQueue) = Response(Head(messageQueue).command)
  <1> DEFINE h == Head(messageQueue)
  <1>1. h \in Message /\ Tail(messageQueue) \in Seq(Message) BY HeadThenTail DEF Queues
  <1> HIDE DEF h
  <1>2. CASE h \in Raised BY <1>1, <1>2, RaisedFacts DEF h
  <1>3. CASE h = Initialized BY <1>1, <1>3, MessageFacts DEF h
  <1>4. ASSUME NEW c \in Words, h = Response(c)
        PROVE  h.type = "response" /\ h.command = c /\ h = Response(h.command)
    BY <1>4, MessageFacts
  <1>5. QED BY <1>1, <1>2, <1>3, <1>4, MessageCases DEF h

\* What an outcome of a wait leaves in the two queues.
LEMMA OutcomeTypes ==
    ASSUME Queues, NEW w \in Awaited, NEW o \in Outcomes(w)
    PROVE  /\ o.queue \in Seq(Message) /\ o.rest \in Seq(Message)
           /\ o.found \in BOOLEAN /\ o.lost \in BOOLEAN
  BY OutcomeShape

\* The event that the list of threads was asked for is still at the front.
LEMMA OutcomeKeepsFront ==
    ASSUME TypeInv, dap = "threads", NEW o \in Outcomes("threads")
    PROVE  o.queue # <<>> /\ Head(o.queue) = Head(messageQueue)
  <1>1. "threads" \in Awaited BY DEF Awaited
  <1>2. messageQueue # <<>> /\ Head(messageQueue) \in Raised
    BY DEF TypeInv, FrontInv
  <1>3. Head(messageQueue) # Expected("threads") BY <1>1, <1>2, ExpectedIsMessage
  <1>4. QED BY <1>1, <1>2, <1>3, OutcomeShape DEF TypeInv, TypeOK, MessagesOK, Queues

LEMMA TypeDap ==
    TypeInv /\ Dap => TypeInv'
  <1> SUFFICES ASSUME TypeInv, Dap PROVE TypeInv'
    OBVIOUS
  <1> USE DEF TypeInv, TypeOK, MessagesOK, FrontInv, Queues, CtlState, AdapterOK, DapOK,
              ctlVars, adapterVars, linkVars
  <1>0. UNCHANGED ctlVars BY DEF Dap
  <1>w. ASSUME NEW w \in Awaited, NEW o, Receives(w, o)
        PROVE  /\ dap = w
               /\ o.queue \in Seq(Message) /\ adapterOut' \in Seq(Message)
               /\ {overwritten', notice'} \subseteq BOOLEAN
               /\ UNCHANGED <<adapter, halted, raised, header>>
               /\ UNCHANGED <<parallel, requestStop, tcpReady, parentHeader>>
    BY <1>w, OutcomeTypes DEF Receives
  <1>1. CASE Handshake
    BY <1>0, <1>1 DEF Handshake, DapState, Phase, Words
  <1>2. CASE Poll
    <2>1. adapterIn' \in Seq(Words) /\ request' \in [phase : Phase, body : Words]
      <3>1. CASE request.phase = "request"
        <4>1. request' = [request EXCEPT !.phase = "serving"]
              /\ adapterIn' = Append(adapterIn, request.body)
          BY <1>2, <3>1 DEF Poll, HandleControlSocket
        <4>2. request' \in [phase : Phase, body : Words] BY <4>1 DEF Phase
        <4>3. request.body \in Words OBVIOUS
        <4>4. adapterIn' \in Seq(Words) BY <4>1, <4>3
        <4>5. QED BY <4>2, <4>4
      <3>2. CASE request.phase # "request"
        BY <1>2, <3>2 DEF Poll, HandleControlSocket
      <3>3. QED BY <3>1, <3>2
    <2>2. parentHeader' \in Nat /\ header' \in [phase : Phase \ {"serving"}, body : Nat]
      BY <1>2 DEF Poll, HandleHeaderSocket, Phase
    <2>3. dap' \in DapState /\ dap' # "threads" /\ tcpReady' \in BOOLEAN
      BY <1>2 DEF Poll, DapState, Awaited, Polled, Readable
    <2>4. QED BY <1>0, <1>2, <2>1, <2>2, <2>3 DEF Poll
  <1>3. CASE Read
    <2>1. PICK k \in 1 .. Len(adapterOut) :
              /\ messageQueue' = messageQueue \o SubSeq(adapterOut, 1, k)
              /\ adapterOut' = SubSeq(adapterOut, k + 1, Len(adapterOut))
      BY <1>3 DEF Read, Batches
    <2>2. SubSeq(adapterOut, 1, k) \in Seq(Message) /\ adapterOut' \in Seq(Message)
      BY <2>1, TakenFromSocket
    <2>3. messageQueue' \in Seq(Message) BY <2>1, <2>2, ConcatProperties
    <2>4. QED BY <1>0, <1>3, <2>2, <2>3 DEF Read, DapState
  <1>4. ASSUME NEW w \in Awaited, KeepsWaiting(w) PROVE TypeInv'
    <2>1. PICK o \in Outcomes(w) : messageQueue' = o.queue /\ adapterOut' = o.rest
      BY <1>4 DEF KeepsWaiting
    <2>2. messageQueue' \in Seq(Message) /\ adapterOut' \in Seq(Message)
      BY <2>1, OutcomeTypes
    <2>3. dap = "threads" => messageQueue' # <<>> /\ Head(messageQueue') = Head(messageQueue)
      BY <1>4, <2>1, OutcomeKeepsFront DEF KeepsWaiting
    <2>4. QED BY <1>0, <1>4, <2>2, <2>3 DEF KeepsWaiting
  <1>5. CASE AskThreads
    <2>1. "threads" \in Words BY DEF Words
    <2>2. Head(messageQueue) \in Raised BY <1>5, FrontIsMessage DEF AskThreads
    <2>3. QED BY <1>0, <1>5, <2>1, <2>2 DEF AskThreads, DapState, Awaited
  <1>6. CASE ForwardStopped
    <2>1. "threads" \in Awaited BY DEF Awaited
    <2>2. PICK o \in Outcomes("threads") : Receives("threads", o) /\ messageQueue' = Tail(o.queue)
      BY <1>6 DEF ForwardStopped
    <2>3. o.queue # <<>> /\ o.queue \in Seq(Message) /\ adapterOut' \in Seq(Message)
          /\ dap = "threads" /\ overwritten' \in BOOLEAN
      BY <2>1, <2>2, <1>w, OutcomeKeepsFront
    <2>4. messageQueue' \in Seq(Message) BY <2>2, <2>3, HeadThenTail
    <2>5. stoppedThreads' \subseteq Threads /\ published' \in Seq(Nat)
      BY <1>6, <2>3, PublishTypes DEF ForwardStopped
    <2>6. QED BY <1>0, <1>6, <2>1, <2>2, <2>3, <2>4, <2>5, <1>w DEF ForwardStopped, DapState
  <1>7. CASE ForwardEvent
    <2>1. stoppedThreads' \subseteq Threads /\ published' \in Seq(Nat)
      BY <1>7, PublishTypes, FrontIsMessage DEF ForwardEvent
    <2>2. messageQueue' \in Seq(Message) BY <1>7, FrontIsMessage DEF ForwardEvent
    <2>3. QED BY <1>0, <1>7, <2>1, <2>2 DEF ForwardEvent
  <1>8. CASE ForwardResponse
    <2>1. Head(messageQueue).command \in Words BY <1>8, FrontIsMessage DEF ForwardResponse
    <2>2. request' \in [phase : Phase, body : Words] /\ dap' \in {dap, "terminated"}
          /\ dap' \in DapState
      BY <1>8, <2>1, ReplyTypes DEF ForwardResponse
    <2>3. messageQueue' \in Seq(Message) BY <1>8, FrontIsMessage DEF ForwardResponse
    <2>4. requestStop' \in BOOLEAN BY <1>8 DEF ForwardResponse
    <2>5. QED BY <1>0, <1>8, <2>2, <2>3, <2>4 DEF ForwardResponse
  <1>9. CASE EndTurn
    BY <1>0, <1>9 DEF EndTurn, DapState
  <1>10. CASE SendConfigurationDone
    <2>1. "initialized" \in Awaited BY DEF Awaited
    <2>2. PICK o : Receives("initialized", o) /\ messageQueue' = o.queue
      BY <1>10 DEF SendConfigurationDone
    <2>3. "configurationDone" \in Words BY DEF Words
    <2>4. QED BY <1>0, <1>10, <2>1, <2>2, <2>3, <1>w DEF SendConfigurationDone, DapState, Awaited
  <1>11. CASE ReceiveConfigurationDone
    <2>1. "configurationDone" \in Awaited BY DEF Awaited
    <2>2. PICK o : Receives("configurationDone", o) /\ messageQueue' = o.queue
      BY <1>11 DEF ReceiveConfigurationDone
    <2>3. QED BY <1>0, <1>11, <2>1, <2>2, <1>w DEF ReceiveConfigurationDone, DapState, Awaited
  <1>12. CASE FinishAttach
    <2>1. "attach" \in Awaited /\ "attach" \in Words BY DEF Awaited, Words
    <2>2. PICK o : Receives("attach", o) /\ messageQueue' = o.queue
      BY <1>12 DEF FinishAttach
    <2>3. stoppedThreads' \subseteq Threads /\ published' \in Seq(Nat)
      BY <1>12, PublishTypes DEF FinishAttach
    <2> DEFINE next == IF tcpReady THEN "reading" ELSE "processing"
    <2>4. request' \in [phase : Phase, body : Words] /\ dap' \in {next, "terminated"}
          /\ dap' \in DapState
      <3>1. next \in DapState /\ Reply("attach", next) BY <1>12 DEF FinishAttach, DapState
      <3> HIDE DEF next
      <3>2. QED BY <2>1, <3>1, ReplyTypes
    <2>5. QED BY <1>0, <1>12, <2>1, <2>2, <2>3, <2>4, <1>w DEF FinishAttach
  <1>13. QED
    BY <1>1, <1>2, <1>3, <1>4, <1>5, <1>6, <1>7, <1>8, <1>9, <1>10, <1>11, <1>12
       DEF Dap, DapStep

LEMMA TypeStep ==
    TypeInv /\ [Next]_vars => TypeInv'
  <1> SUFFICES ASSUME TypeInv, [Next]_vars PROVE TypeInv'
    OBVIOUS
  <1>1. CASE UNCHANGED vars
    BY <1>1 DEF vars, ctlVars, adapterVars, dapVars, linkVars, TypeInv, TypeOK, MessagesOK, FrontInv, Queues,
                AdapterOK, DapOK
  <1>2. QED BY <1>1, TypeFrontEnd, TypeControl, TypeDap, TypeAdapter DEF Next

\* The debugger is correctly typed, and so is every message on its way.
THEOREM TypesAreKept == Spec => []TypeInv
  BY TypeInit, TypeStep, PTL DEF Spec

\* Every variable keeps its type: what is under way between the two threads and
\* the adapter is always a message that one of them can handle.
THEOREM TypeCorrect == Spec => []TypeOK
  <1>1. TypeInv => TypeOK BY DEF TypeInv
  <1>2. QED BY <1>1, TypesAreKept, PTL

-----------------------------------------------------------------------------
(* What a step does to the messages pending: the adapter puts some at their *)
(* end, the DAP client takes some from their front or, after a wait, those  *)
(* it has waited for.                                                       *)

LEMMA PendingIsSeq ==
    ASSUME TypeInv
    PROVE  Pending \in Seq(Message)
  BY ConcatProperties DEF TypeInv, TypeOK, MessagesOK, Queues, Pending

LEMMA ReadKeepsPending ==
    ASSUME TypeInv, Read
    PROVE  Pending' = Pending
  <1> DEFINE q == messageQueue
             out == adapterOut
  <1>1. q \in Seq(Message) /\ out \in Seq(Message) BY DEF TypeInv, TypeOK, MessagesOK, Queues
  <1>2. PICK k \in 1 .. Len(out) :
            messageQueue' = q \o SubSeq(out, 1, k) /\ adapterOut' = SubSeq(out, k + 1, Len(out))
    BY DEF Read, Batches
  <1>3. Pending' = (q \o SubSeq(out, 1, k)) \o SubSeq(out, k + 1, Len(out))
    BY <1>2 DEF Pending
  <1> HIDE DEF q, out
  <1>4. q \o out = (q \o SubSeq(out, 1, k)) \o SubSeq(out, k + 1, Len(out))
    BY <1>1, TakenFromSocket
  <1>5. QED BY <1>3, <1>4 DEF Pending, q, out

LEMMA WaitingKeepsPending ==
    ASSUME TypeInv, NEW w \in Awaited, KeepsWaiting(w)
    PROVE  Pending' = Pending
  <1>1. PICK o \in Outcomes(w) : ~o.found /\ messageQueue' = o.queue /\ adapterOut' = o.rest
    BY DEF KeepsWaiting
  <1>2. o.queue \o o.rest = Pending BY <1>1, OutcomeTakes DEF TypeInv, TypeOK, MessagesOK, Queues
  <1>3. QED BY <1>1, <1>2 DEF Pending

\* The steps that leave them all alone.
LEMMA PendingStays ==
    ASSUME TypeInv,
           \/ \E c \in Commands : AnswersAtOnce(c) \/ Forwards(c)
           \/ Control \/ Handshake \/ Poll \/ Read \/ (\E w \in Awaited : KeepsWaiting(w))
           \/ AskThreads \/ EndTurn
           \/ (AdapterDies /\ UNCHANGED dapVars)
    PROVE  Pending' = Pending
  <1>1. ASSUME UNCHANGED <<messageQueue, adapterOut>> PROVE Pending' = Pending
    BY <1>1 DEF Pending
  <1>2. ASSUME NEW c \in Commands, AnswersAtOnce(c) \/ Forwards(c)
        PROVE  UNCHANGED <<messageQueue, adapterOut>>
    BY <1>2 DEF AnswersAtOnce, Forwards, adapterVars, dapVars
  <1>3. ASSUME Control PROVE UNCHANGED <<messageQueue, adapterOut>>
    BY <1>3 DEF Control, Starts, SendsRequest, ReceivesReply, Stops, adapterVars, dapVars
  <1>4. ASSUME Handshake \/ Poll \/ AskThreads \/ EndTurn
        PROVE  UNCHANGED <<messageQueue, adapterOut>>
    BY <1>4 DEF Handshake, Poll, AskThreads, EndTurn, adapterVars
  <1>5. ASSUME AdapterDies, UNCHANGED dapVars PROVE UNCHANGED <<messageQueue, adapterOut>>
    BY <1>5 DEF AdapterDies, dapVars
  <1>6. QED
    BY <1>1, <1>2, <1>3, <1>4, <1>5, ReadKeepsPending, WaitingKeepsPending

LEMMA PendingAtFront ==
    ASSUME TypeInv, messageQueue # <<>>
    PROVE  /\ Pending # <<>> /\ Head(Pending) = Head(messageQueue)
           /\ Tail(Pending) = Tail(messageQueue) \o adapterOut
  BY FrontOfTwo DEF TypeInv, TypeOK, MessagesOK, Queues, Pending

\* The steps that deal with the message at the front.
LEMMA PendingHanded ==
    ASSUME TypeInv, ForwardEvent \/ ForwardResponse
    PROVE  Pending # <<>> /\ Head(Pending) = Head(messageQueue) /\ Pending' = Tail(Pending)
  <1>1. messageQueue # <<>> /\ messageQueue' = Tail(messageQueue) /\ adapterOut' = adapterOut
    BY DEF ForwardEvent, ForwardResponse, adapterVars
  <1>2. QED BY <1>1, PendingAtFront DEF Pending

\* The end of a wait.
LEMMA PendingReceived ==
    ASSUME TypeInv, NEW w \in Awaited, NEW o, Receives(w, o), messageQueue' = o.queue
    PROVE  /\ \A T : Expected(w) \notin T => Only(Pending', T) = Only(Pending, T)
           /\ Count(Pending', {Expected(w)}) < Count(Pending, {Expected(w)})
           /\ ~overwritten' => Count(Pending', {Expected(w)}) = Count(Pending, {Expected(w)}) - 1
  <1>1. o \in Outcomes(w) /\ o.found /\ adapterOut' = o.rest /\ (~overwritten' => ~o.lost)
    BY DEF Receives
  <1>2. Pending' = o.queue \o o.rest BY <1>1 DEF Pending
  <1>3. Queues BY DEF TypeInv, TypeOK, MessagesOK, Queues
  <1>4. QED BY <1>1, <1>2, <1>3, OutcomeKeepsOthers, OutcomeTakes

\* The end of the wait for the list of threads: the event is handed on as well.
LEMMA PendingStopped ==
    ASSUME TypeInv, ForwardStopped
    PROVE  \E left \in Seq(Message) :
              /\ \A T : Expected("threads") \notin T => Only(left, T) = Only(Pending, T)
              /\ Count(left, {Expected("threads")}) < Count(Pending, {Expected("threads")})
              /\ ~overwritten' => Count(left, {Expected("threads")})
                                    = Count(Pending, {Expected("threads")}) - 1
              /\ left # <<>> /\ Head(left) = Head(messageQueue) /\ Pending' = Tail(left)
  <1>1. "threads" \in Awaited BY DEF Awaited
  <1>2. PICK o : Receives("threads", o) /\ messageQueue' = Tail(o.queue) BY DEF ForwardStopped
  <1>3. /\ o \in Outcomes("threads") /\ o.found /\ (~overwritten' => ~o.lost)
        /\ adapterOut' = o.rest /\ dap = "threads"
    BY <1>2 DEF Receives
  <1>4. Queues BY DEF TypeInv, TypeOK, MessagesOK, Queues
  <1> DEFINE left == o.queue \o o.rest
             A == Expected("threads")
  <1>5. /\ \A T : A \notin T => Only(left, T) = Only(Pending, T)
        /\ Count(left, {A}) < Count(Pending, {A})
        /\ ~overwritten' => Count(left, {A}) = Count(Pending, {A}) - 1
    BY <1>1, <1>3, <1>4, OutcomeKeepsOthers, OutcomeTakes
  <1>6. o.queue \in Seq(Message) /\ o.rest \in Seq(Message)
    BY <1>1, <1>3, <1>4, OutcomeTypes
  <1>7. o.queue # <<>> /\ Head(o.queue) = Head(messageQueue)
    BY <1>3, OutcomeKeepsFront
  <1>8. left \in Seq(Message) BY <1>6, ConcatProperties
  <1>9. left # <<>> /\ Head(left) = Head(o.queue) /\ Tail(left) = Tail(o.queue) \o o.rest
    BY <1>6, <1>7, FrontOfTwo
  <1>10. Pending' = Tail(left) BY <1>2, <1>3, <1>9 DEF Pending
  <1> HIDE DEF left
  <1>11. QED BY <1>5, <1>7, <1>8, <1>9, <1>10

\* What the adapter sends comes last.
LEMMA PendingSent ==
    ASSUME TypeInv, NEW m \in Seq(Message), adapterOut' = adapterOut \o m,
           messageQueue' = messageQueue
    PROVE  Pending' = Pending \o m
  <1> DEFINE q == messageQueue
             out == adapterOut
             outm == out \o m
             qout == q \o out
  <1>1. q \in Seq(Message) /\ out \in Seq(Message) BY DEF TypeInv, TypeOK, MessagesOK, Queues
  <1>2. Pending' = q \o outm /\ Pending = qout BY DEF Pending
  <1> HIDE DEF q, out
  <1>3. qout \o m = q \o outm BY <1>1, Regroup, SMTT(60)
  <1>4. QED BY <1>2, <1>3

-----------------------------------------------------------------------------
(* Requests and responses.                                                  *)

\* The responses to c that are on their way or that the adapter still owes.
Owed(c) ==
    Count(Pending, {Response(c)}) + Count(adapterIn, {c})
        + (IF adapter = "attaching" /\ c = "attach" THEN 1 ELSE 0)

\* Those the DAP client has a use for: it serves a request for c, or waits for
\* the response to a request of its own.
Asked(c) ==
    (IF request.phase = "serving" /\ request.body = c THEN 1 ELSE 0)
        + (IF dap = c /\ c \in {"threads", "configurationDone"} THEN 1 ELSE 0)

OwedInv == \A c \in Words : Owed(c) <= Asked(c)

\* The two ends of the pair of sockets of the requests.
ChannelInv ==
    /\ ctl \in {"idle", "header", "stopping"} <=> request.phase = "idle"
    /\ dap = "handshake" <=> ctl = "starting" /\ request.phase = "request"
    /\ ctl = "starting" => request.phase \in {"request", "reply"}
    /\ ctl = "request" => request.body = command
    /\ dap # "terminated"

ExchangeInv == ChannelInv /\ OwedInv

LEMMA OwedNat ==
    ASSUME TypeInv
    PROVE  \A c : Count(Pending, {Response(c)}) \in Nat /\ Count(adapterIn, {c}) \in Nat
  BY PendingIsSeq, CountNat DEF TypeInv, TypeOK, MessagesOK

LEMMA OwedIsNat ==
    ASSUME TypeInv, TypeInv', NEW c
    PROVE  Owed(c) \in Nat /\ Owed(c)' \in Nat
  <1>1. Count(Pending', {Response(c)}) \in Nat /\ Count(adapterIn', {c}) \in Nat
    <2>1. Pending' \in Seq(Message) /\ adapterIn' \in Seq(Words)
      BY ConcatProperties DEF TypeInv, TypeOK, MessagesOK, Queues, Pending
    <2>2. QED BY <2>1, CountNat
  <1>2. Owed(c) \in Nat BY OwedNat DEF Owed
  <1>3. Owed(c)' \in Nat BY <1>1 DEF Owed
  <1>4. QED BY <1>2, <1>3

\* No more is owed if no more is on its way, and no more is attached to.
LEMMA OwedStays ==
    ASSUME TypeInv, TypeInv', OwedInv,
           Pending' = Pending, adapterIn' = adapterIn,
           adapter' = adapter \/ adapter' # "attaching",
           \A c \in Words : Asked(c) <= Asked(c)'
    PROVE  OwedInv'
  <1> SUFFICES ASSUME NEW c \in Words PROVE Owed(c)' <= Asked(c)'
    BY DEF OwedInv
  <1>1. Owed(c) <= Asked(c) /\ Asked(c) <= Asked(c)' BY DEF OwedInv
  <1>2. Count(Pending, {Response(c)}) \in Nat /\ Count(adapterIn, {c}) \in Nat BY OwedNat
  <1>3. Asked(c) \in Nat /\ Asked(c)' \in Nat BY DEF Asked
  <1>4. Owed(c)' <= Owed(c) /\ Owed(c) \in Nat /\ Owed(c)' \in Nat BY <1>2 DEF Owed
  <1>5. QED BY <1>1, <1>3, <1>4

LEMMA ExchangeInit ==
    Init => ExchangeInv
  <1> SUFFICES ASSUME Init PROVE ExchangeInv
    OBVIOUS
  <1>1. ChannelInv BY DEF Init, DapInit, ChannelInv, IdleSocket
  <1>2. Pending = <<>> /\ adapterIn = <<>> BY DEF Init, DapInit, AdapterInit, Pending
  <1>3. \A c \in Words : Owed(c) = 0 BY <1>2, CountEmpty DEF Owed, Init, AdapterInit
  <1>4. \A c \in Words : Asked(c) \in Nat BY DEF Asked
  <1>5. QED BY <1>1, <1>3, <1>4 DEF ExchangeInv, OwedInv

LEMMA ExchangeFrontEnd ==
    TypeInv /\ TypeInv' /\ ExchangeInv /\ FrontEnd => ExchangeInv'
  <1> SUFFICES ASSUME TypeInv, TypeInv', ExchangeInv, FrontEnd PROVE ExchangeInv'
    OBVIOUS
  <1>1. CASE StartSucceeds
    <2>1. ctl = "idle" /\ request.phase = "idle" /\ dap \in {"unborn", "done"}
      BY <1>1 DEF StartSucceeds, Takes, ExchangeInv, ChannelInv
    <2>2. ChannelInv' BY <1>1 DEF StartSucceeds, ChannelInv
    <2>3. OwedInv'
      <3> SUFFICES ASSUME NEW c \in Words PROVE Owed(c)' <= Asked(c)'
        BY DEF OwedInv
      <3>1. messageQueue \in Seq(Message) /\ adapterOut \in Seq(Message)
        BY DEF TypeInv, TypeOK, MessagesOK, Queues
      <3>2. Pending' = messageQueue
        <4>1. Pending' = messageQueue \o <<>>
          BY <1>1 DEF StartSucceeds, AdapterStarts, Pending
        <4>2. QED BY <3>1, <4>1, ConcatEmptySeq
      <3>3. adapterIn' = <<>> /\ adapter' = "running"
        BY <1>1 DEF StartSucceeds, AdapterStarts
      <3> DEFINE R == {Response(c)}
      <3>4. Count(Pending, R) = Count(messageQueue, R) + Count(adapterOut, R)
        BY <3>1, CountConcat DEF Pending
      <3>5. Count(messageQueue, R) \in Nat /\ Count(adapterOut, R) \in Nat
        BY <3>1, CountNat
      <3>6. Count(adapterIn, {c}) \in Nat BY OwedNat
      <3>7. Owed(c) <= Asked(c) BY DEF ExchangeInv, OwedInv
      <3>8. Asked(c) = 0 /\ Asked(c)' \in Nat BY <2>1 DEF Asked
      <3>9. Count(messageQueue, R) = 0 BY <3>4, <3>5, <3>6, <3>7, <3>8 DEF Owed
      <3>10. Owed(c)' = 0 BY <3>2, <3>3, <3>9, CountEmpty DEF Owed
      <3>11. QED BY <3>8, <3>10
    <2>4. QED BY <2>2, <2>3 DEF ExchangeInv
  <1>2. ASSUME NEW c \in Commands, AnswersAtOnce(c) \/ Forwards(c) PROVE ExchangeInv'
    <2>1. /\ ctl = "idle" /\ ctl' \in {"idle", "stopping", "header"}
          /\ UNCHANGED <<request, dap, adapter, adapterIn>>
      BY <1>2 DEF AnswersAtOnce, Forwards, Takes, adapterVars, dapVars, linkVars
    <2>2. ChannelInv' BY <2>1 DEF ExchangeInv, ChannelInv
    <2>3. Pending' = Pending BY <1>2, PendingStays
    <2>4. \A d \in Words : Asked(d) <= Asked(d)' BY <2>1 DEF Asked
    <2>5. OwedInv' BY <2>1, <2>3, <2>4, OwedStays DEF ExchangeInv
    <2>6. QED BY <2>2, <2>5 DEF ExchangeInv
  <1>3. QED BY <1>1, <1>2 DEF FrontEnd

LEMMA ExchangeControl ==
    TypeInv /\ TypeInv' /\ ExchangeInv /\ Control => ExchangeInv'
  <1> SUFFICES ASSUME TypeInv, TypeInv', ExchangeInv, Control PROVE ExchangeInv'
    OBVIOUS
  <1>1. UNCHANGED <<dap, adapter, adapterIn>> /\ Pending' = Pending
    BY PendingStays DEF Control, Starts, SendsRequest, ReceivesReply, Stops, adapterVars, dapVars
  <1>2. request.phase # "serving" \/ UNCHANGED request
    BY DEF ExchangeInv, ChannelInv, Control, Starts, SendsRequest, ReceivesReply, Stops,
           adapterVars, dapVars, linkVars
  <1>3. ChannelInv'
    <2>1. CASE Starts
      BY <2>1, <1>1 DEF ExchangeInv, ChannelInv, Starts, IdleSocket
    <2>2. CASE SendsRequest
      BY <2>2, <1>1 DEF ExchangeInv, ChannelInv, SendsRequest
    <2>3. CASE ReceivesReply
      BY <2>3, <1>1 DEF ExchangeInv, ChannelInv, ReceivesReply, IdleSocket
    <2>4. CASE Stops
      BY <2>4, <1>1 DEF ExchangeInv, ChannelInv, Stops, linkVars
    <2>5. QED BY <2>1, <2>2, <2>3, <2>4 DEF Control
  <1>4. \A c \in Words : Asked(c) <= Asked(c)' BY <1>1, <1>2 DEF Asked
  <1>5. OwedInv' BY <1>1, <1>4, OwedStays DEF ExchangeInv
  <1>6. QED BY <1>3, <1>5 DEF ExchangeInv

\* What is answered was owed, and what was owed is answered or still owed.
LEMMA AnswerCounts ==
    ASSUME NEW c \in Words, NEW p, NEW m \in Answers(c, p).messages, NEW d \in Words
    PROVE  /\ Count(m, {Response(d)}) + (IF Answers(c, p).to = "attaching" /\ d = "attach" THEN 1 ELSE 0)
                 <= (IF c = d THEN 1 ELSE 0)
                     + (IF adapter = "attaching" /\ d = "attach" THEN 1 ELSE 0)
           /\ \/ adapter = "attaching" /\ Answers(c, p).to = "gone"
              \/ Count(m, {Response(d)}) + (IF Answers(c, p).to = "attaching" /\ d = "attach" THEN 1 ELSE 0)
                    = (IF c = d THEN 1 ELSE 0)
                          + (IF adapter = "attaching" /\ d = "attach" THEN 1 ELSE 0)
  <1> DEFINE R == {Response(d)}
             rc == Response(c)
             ra == Response("attach")
  <1>1. /\ rc \in R <=> c = d
        /\ ra \in R <=> d = "attach"
        /\ Initialized \notin R
    BY MessageFacts
  <1>2. rc \in Message /\ ra \in Message /\ Initialized \in Message
    BY MessageFacts, CommandIsWord DEF Awaited
  <1>3. \A x, y \in Message :
            /\ Count(<<x>>, R) = (IF x \in R THEN 1 ELSE 0)
            /\ Count(<<x, y>>, R) = (IF x \in R THEN 1 ELSE 0) + (IF y \in R THEN 1 ELSE 0)
    <2> SUFFICES ASSUME NEW x \in Message, NEW y \in Message
                 PROVE  /\ Count(<<x>>, R) = (IF x \in R THEN 1 ELSE 0)
                        /\ Count(<<x, y>>, R) = (IF x \in R THEN 1 ELSE 0) + (IF y \in R THEN 1 ELSE 0)
      OBVIOUS
    <2> HIDE DEF R
    <2>1. Count(<<x>>, R) = (IF x \in R THEN 1 ELSE 0) BY CountOne
    <2>2. <<x, y>> = Append(<<x>>, y) /\ <<x>> \in Seq(Message) OBVIOUS
    <2>3. PICK s \in Seq(Message) : s = <<x>> BY <2>2
    <2>4. Count(Append(s, y), R) = Count(s, R) + (IF y \in R THEN 1 ELSE 0) BY CountAppend
    <2>5. QED BY <2>1, <2>2, <2>3, <2>4
  <1>4. \/ /\ c = "attach" /\ adapter = "running"
           /\ \/ Answers(c, p).to = "attaching" /\ m = <<Initialized>>
              \/ Answers(c, p).to = "attached" /\ m = <<Initialized, rc>>
        \/ /\ c = "configurationDone" /\ adapter = "attaching"
           /\ Answers(c, p).to = "attached"
           /\ m = <<rc, ra>> \/ m = <<ra, rc>>
        \/ c = "disconnect" /\ Answers(c, p).to = "gone" /\ m = <<rc>>
        \/ c # "disconnect" /\ Answers(c, p).to = adapter /\ m = <<rc>>
    BY AnswerCases
  <1> HIDE DEF R, rc, ra
  <1>5. /\ Count(<<Initialized>>, R) = 0
        /\ Count(<<rc>>, R) = (IF c = d THEN 1 ELSE 0)
        /\ Count(<<Initialized, rc>>, R) = (IF c = d THEN 1 ELSE 0)
        /\ Count(<<rc, ra>>, R) = (IF c = d THEN 1 ELSE 0) + (IF d = "attach" THEN 1 ELSE 0)
        /\ Count(<<ra, rc>>, R) = (IF c = d THEN 1 ELSE 0) + (IF d = "attach" THEN 1 ELSE 0)
    <2>1. Count(<<Initialized>>, R) = (IF Initialized \in R THEN 1 ELSE 0) BY <1>2, <1>3
    <2>2. Count(<<rc>>, R) = (IF rc \in R THEN 1 ELSE 0) BY <1>2, <1>3
    <2>3. Count(<<Initialized, rc>>, R) = (IF Initialized \in R THEN 1 ELSE 0) + (IF rc \in R THEN 1 ELSE 0)
      BY <1>2, <1>3
    <2>4. Count(<<rc, ra>>, R) = (IF rc \in R THEN 1 ELSE 0) + (IF ra \in R THEN 1 ELSE 0)
      BY <1>2, <1>3
    <2>5. Count(<<ra, rc>>, R) = (IF ra \in R THEN 1 ELSE 0) + (IF rc \in R THEN 1 ELSE 0)
      BY <1>2, <1>3
    <2>6. QED BY <1>1, <2>1, <2>2, <2>3, <2>4, <2>5
  <1>6. /\ Count(m, R) + (IF Answers(c, p).to = "attaching" /\ d = "attach" THEN 1 ELSE 0)
              <= (IF c = d THEN 1 ELSE 0)
                     + (IF adapter = "attaching" /\ d = "attach" THEN 1 ELSE 0)
        /\ \/ adapter = "attaching" /\ Answers(c, p).to = "gone"
           \/ Count(m, R) + (IF Answers(c, p).to = "attaching" /\ d = "attach" THEN 1 ELSE 0)
                 = (IF c = d THEN 1 ELSE 0)
                       + (IF adapter = "attaching" /\ d = "attach" THEN 1 ELSE 0)
    <2>1. CASE c = "attach" /\ adapter = "running" /\ Answers(c, p).to = "attaching" /\ m = <<Initialized>>
      BY <1>5, <2>1
    <2>2. CASE adapter = "running" /\ Answers(c, p).to = "attached" /\ m = <<Initialized, rc>>
      BY <1>5, <2>2
    <2>3. CASE adapter = "attaching" /\ Answers(c, p).to = "attached" /\ m \in {<<rc, ra>>, <<ra, rc>>}
      BY <1>5, <2>3
    <2>4. CASE Answers(c, p).to \in {"gone", adapter} /\ m = <<rc>>
      BY <1>5, <2>4
    <2>5. QED BY <1>4, <2>1, <2>2, <2>3, <2>4
  <1>7. QED BY <1>6 DEF R

\* The adapter owes no more than before, and no less as long as it lives, unless
\* it leaves in the middle of an attach.
LEMMA AdapterOwes ==
    ASSUME TypeInv, TypeInv', Adapter, NEW d \in Words
    PROVE  /\ Owed(d)' <= Owed(d)
           /\ adapter' = "dead" \/ (adapter = "attaching" /\ adapter' = "gone") \/ Owed(d)' = Owed(d)
  <1> DEFINE R == {Response(d)}
  <1>1. messageQueue' = messageQueue BY DEF Adapter, dapVars
  <1>2. Pending \in Seq(Message) /\ adapterIn \in Seq(Words)
    BY PendingIsSeq DEF TypeInv, TypeOK, MessagesOK
  <1>3. Count(Pending, R) \in Nat /\ Count(adapterIn, {d}) \in Nat BY OwedNat
  <1>4. CASE AdapterAnswers(parallel)
    <2> DEFINE c == Head(adapterIn)
    <2>1. adapterIn # <<>> /\ adapterIn' = Tail(adapterIn) /\ adapter' = Answers(c, parallel).to
      BY <1>4 DEF AdapterAnswers
    <2>2. c \in Words BY <1>2, <2>1, HeadThenTail
    <2>3. PICK m \in Answers(c, parallel).messages : adapterOut' = adapterOut \o m
      BY <1>4 DEF AdapterAnswers
    <2>4. m \in Seq(Message) BY <2>2, AnswersAreMessages DEF TypeInv, TypeOK, AdapterOK
    <2>5. Pending' = Pending \o m BY <1>1, <2>3, <2>4, PendingSent
    <2>6. Count(adapterIn', {d}) = Count(adapterIn, {d}) - (IF c = d THEN 1 ELSE 0)
      BY <1>2, <2>1, CountTail
    <2>7. /\ Count(m, R) + (IF adapter' = "attaching" /\ d = "attach" THEN 1 ELSE 0)
                <= (IF c = d THEN 1 ELSE 0)
                       + (IF adapter = "attaching" /\ d = "attach" THEN 1 ELSE 0)
          /\ \/ adapter = "attaching" /\ adapter' = "gone"
             \/ Count(m, R) + (IF adapter' = "attaching" /\ d = "attach" THEN 1 ELSE 0)
                   = (IF c = d THEN 1 ELSE 0)
                         + (IF adapter = "attaching" /\ d = "attach" THEN 1 ELSE 0)
      BY <2>1, <2>2, AnswerCounts
    <2> HIDE DEF c, R
    <2>8. Count(Pending', R) = Count(Pending, R) + Count(m, R) BY <1>2, <2>4, <2>5, CountConcat
    <2>9. Count(m, R) \in Nat BY <2>4, CountNat
    <2>10. QED BY <1>3, <2>6, <2>7, <2>8, <2>9 DEF Owed, R
  <1>5. CASE AdapterRefuses
    <2> DEFINE e == Response("attach")
    <2>1. /\ adapterIn # <<>> /\ Head(adapterIn) = "attach" /\ adapterIn' = Tail(adapterIn)
          /\ adapter' = adapter /\ adapterOut' = Append(adapterOut, e)
      BY <1>5 DEF AdapterRefuses
    <2>2. e \in Message /\ (e \in R <=> d = "attach")
      BY MessageFacts, CommandIsWord DEF Awaited
    <2>3. Count(adapterIn', {d}) = Count(adapterIn, {d}) - (IF d = "attach" THEN 1 ELSE 0)
      BY <1>2, <2>1, CountTail
    <2> HIDE DEF e, R
    <2>4. Pending' = Append(Pending, e)
      BY <1>1, <2>1, <2>2, AppendToConcat DEF TypeInv, TypeOK, MessagesOK, Queues, Pending
    <2>5. Count(Pending', R) = Count(Pending, R) + (IF d = "attach" THEN 1 ELSE 0)
      BY <1>2, <2>2, <2>4, CountAppend
    <2>6. QED BY <1>3, <2>1, <2>3, <2>5 DEF Owed, R
  <1>6. ASSUME NEW kind \in EventKinds, NEW t \in Concerned(kind), AdapterRaises(kind, t)
        PROVE  Owed(d)' = Owed(d) /\ Owed(d) \in Int
    <2> DEFINE e == Event(kind, t, raised + 1)
    <2>1. adapterIn' = adapterIn /\ adapter' = adapter /\ adapterOut' = Append(adapterOut, e)
      BY <1>6 DEF AdapterRaises
    <2>2. e \in Message /\ e \notin R
      <3>1. raised + 1 \in 1 .. MaxEvents
        BY <1>6, AdapterBounds DEF AdapterRaises, TypeInv, TypeOK, AdapterOK
      <3>2. e \in Raised BY <3>1, RaisedNext
      <3>3. QED BY <3>2, MessageFacts
    <2> HIDE DEF e, R
    <2>3. Pending' = Append(Pending, e)
      BY <1>1, <2>1, <2>2, AppendToConcat DEF TypeInv, TypeOK, MessagesOK, Queues, Pending
    <2>4. Count(Pending', R) = Count(Pending, R) + 0 BY <1>2, <2>2, <2>3, CountAppend
    <2>5. QED BY <1>3, <2>1, <2>4 DEF Owed, R
  <1>7. CASE AdapterDies
    <2>1. Pending' = Pending BY <1>1, <1>7 DEF AdapterDies, Pending
    <2>2. adapterIn' = adapterIn /\ adapter' = "dead" BY <1>7 DEF AdapterDies
    <2>3. QED BY <1>3, <2>1, <2>2 DEF Owed
  <1>8. QED BY <1>4, <1>5, <1>6, <1>7 DEF Adapter, AdapterStep

LEMMA ExchangeAdapter ==
    TypeInv /\ TypeInv' /\ ExchangeInv /\ Adapter => ExchangeInv'
  <1> SUFFICES ASSUME TypeInv, TypeInv', ExchangeInv, Adapter PROVE ExchangeInv'
    OBVIOUS
  <1>1. UNCHANGED <<ctl, command, dap, request>>
    BY DEF Adapter, ctlVars, dapVars, linkVars
  <1>2. ChannelInv' BY <1>1 DEF ExchangeInv, ChannelInv
  <1>3. ASSUME NEW d \in Words PROVE Owed(d)' <= Asked(d)'
    <2>1. Asked(d)' = Asked(d) /\ Asked(d) \in Int BY <1>1 DEF Asked
    <2>2. Owed(d)' <= Owed(d) /\ Owed(d) <= Asked(d) BY AdapterOwes DEF ExchangeInv, OwedInv
    <2>3. Owed(d) \in Int /\ Owed(d)' \in Int BY OwedIsNat
    <2>4. QED BY <2>1, <2>2, <2>3
  <1>4. QED BY <1>2, <1>3 DEF ExchangeInv, OwedInv

\* A wait takes one response to its own command at least, and no other; and one
\* only, unless a message is lost.
LEMMA CountsReceived ==
    ASSUME TypeInv, NEW w \in Awaited, NEW o, Receives(w, o), messageQueue' = o.queue,
           NEW d \in Words
    PROVE  /\ Count(Pending', {Response(d)}) <= Count(Pending, {Response(d)})
           /\ w # "initialized" /\ d = w
                 => Count(Pending', {Response(d)}) < Count(Pending, {Response(d)})
           /\ ~overwritten'
                 => Count(Pending', {Response(d)}) = Count(Pending, {Response(d)})
                        - (IF w # "initialized" /\ d = w THEN 1 ELSE 0)
  <1> DEFINE R == {Response(d)}
             A == Expected(w)
  <1>1. /\ \A T : A \notin T => Only(Pending', T) = Only(Pending, T)
        /\ Count(Pending', {A}) < Count(Pending, {A})
        /\ ~overwritten' => Count(Pending', {A}) = Count(Pending, {A}) - 1
    BY PendingReceived
  <1>2. w # "initialized" /\ d = w => {A} = R BY DEF Expected
  <1>3. ~(w # "initialized" /\ d = w) => A \notin R BY MessageFacts DEF Expected
  <1> HIDE DEF R, A
  <1>4. Count(Pending, R) \in Nat BY PendingIsSeq, CountNat
  <1>5. A \notin R => Count(Pending', R) = Count(Pending, R) BY <1>1 DEF Count
  <1>6. w # "initialized" /\ d = w => Count(Pending', R) < Count(Pending, R) BY <1>1, <1>2
  <1>7. CASE w # "initialized" /\ d = w
    <2>1. Count(Pending', R) < Count(Pending, R) BY <1>6, <1>7
    <2>2. Count(Pending', R) \in Nat
      <3>1. {A} = R BY <1>2, <1>7
      <3>2. Receives(w, o) /\ o \in Outcomes(w) /\ adapterOut' = o.rest BY DEF Receives
      <3>3. messageQueue' \in Seq(Message) /\ adapterOut' \in Seq(Message)
        BY <3>2, OutcomeTypes DEF TypeInv, TypeOK, MessagesOK, Queues
      <3>4. Pending' \in Seq(Message) BY <3>3, ConcatProperties DEF Pending
      <3>5. QED BY <3>4, CountNat
    <2>3. ~overwritten' => Count(Pending', R) = Count(Pending, R) - 1 BY <1>1, <1>2, <1>7
    <2>4. QED BY <1>4, <1>7, <2>1, <2>2, <2>3 DEF R
  <1>8. CASE ~(w # "initialized" /\ d = w)
    BY <1>3, <1>4, <1>5, <1>8 DEF R
  <1>9. QED BY <1>7, <1>8

LEMMA CountsStopped ==
    ASSUME TypeInv, TypeInv', ForwardStopped, NEW d \in Words
    PROVE  /\ Count(Pending', {Response(d)}) <= Count(Pending, {Response(d)})
           /\ d = "threads" => Count(Pending', {Response(d)}) < Count(Pending, {Response(d)})
           /\ ~overwritten'
                 => Count(Pending', {Response(d)}) = Count(Pending, {Response(d)})
                        - (IF d = "threads" THEN 1 ELSE 0)
  <1> DEFINE R == {Response(d)}
             A == Expected("threads")
  <1>1. PICK left \in Seq(Message) :
              /\ \A T : A \notin T => Only(left, T) = Only(Pending, T)
              /\ Count(left, {A}) < Count(Pending, {A})
              /\ ~overwritten' => Count(left, {A}) = Count(Pending, {A}) - 1
              /\ left # <<>> /\ Head(left) = Head(messageQueue) /\ Pending' = Tail(left)
    BY PendingStopped
  <1>2. d = "threads" => {A} = R BY DEF Expected
  <1>3. d # "threads" => A \notin R BY MessageFacts DEF Expected
  <1>4. Head(left) \notin R
    <2>1. Head(messageQueue) \in Raised
      BY DEF ForwardStopped, Receives, TypeInv, FrontInv
    <2>2. QED BY <1>1, <2>1, MessageFacts
  <1> HIDE DEF R, A
  <1>5. Count(Pending', R) = Count(left, R) - 0 BY <1>1, <1>4, CountTail
  <1>6. Count(Pending, R) \in Nat /\ Count(left, R) \in Nat BY <1>1, PendingIsSeq, CountNat
  <1>7. CASE d = "threads"
    <2>1. /\ Count(left, R) < Count(Pending, R)
          /\ ~overwritten' => Count(left, R) = Count(Pending, R) - 1
      BY <1>1, <1>2, <1>7
    <2>2. QED BY <1>5, <1>6, <1>7, <2>1 DEF R
  <1>8. CASE d # "threads"
    <2>1. Count(left, R) = Count(Pending, R) BY <1>1, <1>3, <1>8 DEF Count
    <2>2. QED BY <1>5, <1>6, <1>8, <2>1 DEF R
  <1>9. QED BY <1>7, <1>8

LEMMA CountsHanded ==
    ASSUME TypeInv, ForwardEvent \/ ForwardResponse, NEW d \in Words
    PROVE  Count(Pending', {Response(d)})
              = Count(Pending, {Response(d)}) - (IF Head(messageQueue) = Response(d) THEN 1 ELSE 0)
  <1> DEFINE R == {Response(d)}
  <1>1. Pending # <<>> /\ Head(Pending) = Head(messageQueue) /\ Pending' = Tail(Pending)
        /\ Pending \in Seq(Message)
    BY PendingHanded, PendingIsSeq
  <1>2. Head(Pending) \in R <=> Head(messageQueue) = Response(d) BY <1>1
  <1> HIDE DEF R
  <1>3. Count(Tail(Pending), R) = Count(Pending, R) - (IF Head(Pending) \in R THEN 1 ELSE 0)
    BY <1>1, CountTail
  <1>4. QED BY <1>1, <1>2, <1>3 DEF R

\* A response at the front is the answer to the request that is served.
LEMMA FrontIsServed ==
    ASSUME TypeInv, ExchangeInv, NEW c \in Words, Count(Pending, {Response(c)}) # 0
    PROVE  \/ request.phase = "serving" /\ request.body = c
           \/ dap = c /\ c \in {"threads", "configurationDone"}
  <1>1. Count(Pending, {Response(c)}) \in Nat /\ Count(adapterIn, {c}) \in Nat BY OwedNat
  <1>2. Owed(c) > 0 BY <1>1 DEF Owed
  <1>3. Owed(c) <= Asked(c) BY DEF ExchangeInv, OwedInv
  <1>4. Owed(c) \in Int /\ Asked(c) \in Int BY <1>1 DEF Owed, Asked
  <1>5. Asked(c) > 0 BY <1>2, <1>3, <1>4
  <1>6. QED BY <1>5 DEF Asked

LEMMA ChannelDap ==
    TypeInv /\ ExchangeInv /\ Dap => ChannelInv'
  <1> SUFFICES ASSUME TypeInv, ExchangeInv, Dap PROVE ChannelInv'
    OBVIOUS
  <1> USE DEF ExchangeInv, ChannelInv
  <1>0. UNCHANGED <<ctl, command>> BY DEF Dap, ctlVars
  <1>1. CASE Handshake
    BY <1>0, <1>1 DEF Handshake
  <1>2. CASE Poll
    <2>1. dap = "polling" /\ dap' \in {"initialized", "reading", "processing"} BY <1>2 DEF Poll
    <2>2. CASE request.phase = "request"
      <3>1. request' = [request EXCEPT !.phase = "serving"]
        BY <1>2, <2>2 DEF Poll, HandleControlSocket
      <3>2. request'.phase = "serving" /\ request'.body = request.body
        BY <3>1 DEF TypeInv, TypeOK, MessagesOK
      <3>3. QED BY <1>0, <2>1, <2>2, <3>2
    <2>3. CASE request.phase # "request"
      BY <1>0, <1>2, <2>1, <2>3 DEF Poll, HandleControlSocket
    <2>4. QED BY <2>2, <2>3
  <1>3. CASE Read
    BY <1>0, <1>3 DEF Read, linkVars
  <1>4. ASSUME NEW w \in Awaited, KeepsWaiting(w) PROVE ChannelInv'
    BY <1>0, <1>4 DEF KeepsWaiting, linkVars
  <1>5. CASE AskThreads
    BY <1>0, <1>5 DEF AskThreads, linkVars
  <1>6. CASE ForwardStopped
    BY <1>0, <1>6 DEF ForwardStopped, Receives
  <1>7. CASE ForwardEvent
    BY <1>0, <1>7 DEF ForwardEvent, linkVars
  <1>8. CASE ForwardResponse
    <2> DEFINE c == Head(messageQueue).command
    <2>1. c \in Words /\ Head(messageQueue) = Response(c)
      BY <1>8, FrontIsMessage DEF ForwardResponse, TypeInv, TypeOK, MessagesOK, Queues
    <2>2. /\ Count(Pending', {Response(c)}) = Count(Pending, {Response(c)}) - 1
          /\ Count(Pending', {Response(c)}) \in Nat /\ Count(Pending, {Response(c)}) \in Nat
      <3>1. Pending' = Tail(Pending) /\ Pending # <<>> /\ Pending \in Seq(Message)
        BY <1>8, PendingHanded, PendingIsSeq
      <3>2. Pending' \in Seq(Message) BY <3>1, HeadThenTail
      <3>3. QED BY <1>8, <2>1, <3>1, <3>2, CountNat, CountsHanded
    <2>3. Count(Pending, {Response(c)}) # 0 BY <2>2
    <2>4. dap = "processing" /\ Reply(c, dap) BY <1>8 DEF ForwardResponse
    <2> HIDE DEF c
    <2>5. request.phase = "serving" /\ request.body = c BY <2>1, <2>3, <2>4, FrontIsServed
    <2>6. request' = [phase |-> "reply", body |-> c] /\ dap' = dap BY <2>4, <2>5 DEF Reply
    <2>7. QED BY <1>0, <2>4, <2>5, <2>6
  <1>9. CASE EndTurn
    BY <1>0, <1>9 DEF EndTurn, linkVars
  <1>10. CASE SendConfigurationDone
    BY <1>0, <1>10 DEF SendConfigurationDone, Receives
  <1>11. CASE ReceiveConfigurationDone
    BY <1>0, <1>11 DEF ReceiveConfigurationDone, Receives
  <1>12. CASE FinishAttach
    <2>1. "attach" \in Awaited /\ "attach" \in Words BY DEF Awaited, Words
    <2>2. PICK o : Receives("attach", o) /\ messageQueue' = o.queue
      BY <1>12 DEF FinishAttach
    <2>3. Count(Pending, {Response("attach")}) # 0
      <3>1. Receives("attach", o) /\ o \in Outcomes("attach") /\ adapterOut' = o.rest
        BY <2>2 DEF Receives
      <3>2. messageQueue' \in Seq(Message) /\ adapterOut' \in Seq(Message)
        BY <2>1, <2>2, <3>1, OutcomeTypes DEF TypeInv, TypeOK, MessagesOK, Queues
      <3>3. Pending' \in Seq(Message) BY <3>2, ConcatProperties DEF Pending
      <3>4. Count(Pending', {Response("attach")}) \in Nat BY <3>3, CountNat
      <3>5. Count(Pending', {Response("attach")}) < Count(Pending, {Response("attach")})
        BY <2>1, <2>2, CountsReceived
      <3>6. QED BY <3>4, <3>5
    <2>4. dap = "attach" BY <2>2 DEF Receives
    <2>5. request.phase = "serving" /\ request.body = "attach" BY <2>1, <2>3, <2>4, FrontIsServed
    <2>6. request' = [phase |-> "reply", body |-> "attach"] /\ dap' \in {"reading", "processing"}
      BY <1>12, <2>5 DEF FinishAttach, Reply
    <2>7. QED BY <1>0, <2>4, <2>5, <2>6
  <1>13. QED
    BY <1>1, <1>2, <1>3, <1>4, <1>5, <1>6, <1>7, <1>8, <1>9, <1>10, <1>11, <1>12
       DEF Dap, DapStep

\* What comes is balanced by what is asked for, exactly if no message is lost.
Balances(c) ==
    LET after  == Count(Pending', {Response(c)}) + Count(adapterIn', {c}) + Asked(c)
        before == Count(Pending, {Response(c)}) + Count(adapterIn, {c}) + Asked(c)'
    IN  after <= before /\ (~overwritten' => after = before)

LEMMA OwedBalance ==
    ASSUME TypeInv, TypeInv', OwedInv, adapter' = adapter, NEW c \in Words, Balances(c)
    PROVE  Owed(c)' <= Asked(c)'
  <1>1. Count(Pending, {Response(c)}) \in Nat /\ Count(adapterIn, {c}) \in Nat BY OwedNat
  <1>2. Count(Pending', {Response(c)}) \in Nat /\ Count(adapterIn', {c}) \in Nat
    <2>1. Pending' \in Seq(Message) /\ adapterIn' \in Seq(Words)
      BY ConcatProperties DEF TypeInv, TypeOK, MessagesOK, Queues, Pending
    <2>2. QED BY <2>1, CountNat
  <1>3. Asked(c) \in Int /\ Asked(c)' \in Int BY DEF Asked
  <1>4. Owed(c) <= Asked(c) BY DEF OwedInv
  <1> DEFINE a == IF adapter = "attaching" /\ c = "attach" THEN 1 ELSE 0
  <1>5. a \in Int /\ a' = a OBVIOUS
  <1>6. /\ Owed(c) = Count(Pending, {Response(c)}) + Count(adapterIn, {c}) + a
        /\ Owed(c)' = Count(Pending', {Response(c)}) + Count(adapterIn', {c}) + a'
    BY DEF Owed
  <1> HIDE DEF a
  <1>7. QED BY <1>1, <1>2, <1>3, <1>4, <1>5, <1>6 DEF Balances

\* Each step of the DAP client that asks for something sends it off, and each
\* that has got something takes it from what is pending.
LEMMA DapBalances ==
    ASSUME TypeInv, TypeInv', ExchangeInv, ChannelInv', Dap, NEW c \in Words
    PROVE  Balances(c) /\ adapter' = adapter
  <1>n. /\ Count(Pending, {Response(c)}) \in Nat /\ Count(adapterIn, {c}) \in Nat
        /\ Count(Pending', {Response(c)}) \in Nat
        /\ Asked(c) \in Int /\ Asked(c)' \in Int
    <2>1. Pending' \in Seq(Message)
      BY ConcatProperties DEF TypeInv, TypeOK, MessagesOK, Queues, Pending
    <2>2. Asked(c) \in Int /\ Asked(c)' \in Int BY DEF Asked
    <2>3. QED BY <2>1, <2>2, OwedNat, CountNat
  <1>1. ASSUME Pending' = Pending, adapterIn' = adapterIn, adapter' = adapter,
               request' = request \/ "serving" \notin {request.phase, request'.phase},
               dap' = dap \/ {dap, dap'} \intersect {"threads", "configurationDone"} = {}
        PROVE  Balances(c) /\ adapter' = adapter
    <2>1. Asked(c)' = Asked(c) BY <1>1 DEF Asked
    <2>2. QED BY <1>n, <1>1, <2>1 DEF Balances
  <1>2. CASE Handshake
    BY <1>1, <1>2, PendingStays DEF Handshake, adapterVars
  <1>3. CASE Poll
    <2>1. Pending' = Pending /\ adapter' = adapter /\ dap = "polling"
          /\ dap' \in {"initialized", "reading", "processing"}
      BY <1>3, PendingStays DEF Poll
    <2>2. CASE request.phase = "request"
      <3>1. request' = [request EXCEPT !.phase = "serving"]
            /\ adapterIn' = Append(adapterIn, request.body)
        BY <1>3, <2>2 DEF Poll, HandleControlSocket
      <3>2. request'.phase = "serving" /\ request'.body = request.body /\ request.body \in Words
        BY <3>1 DEF TypeInv, TypeOK, MessagesOK
      <3>3. Count(adapterIn', {c}) = Count(adapterIn, {c}) + (IF request.body = c THEN 1 ELSE 0)
        BY <3>1, <3>2, CountAppend DEF TypeInv, TypeOK, MessagesOK
      <3>4. Asked(c) = 0 /\ Asked(c)' = (IF request.body = c THEN 1 ELSE 0)
        BY <2>1, <2>2, <3>2 DEF Asked
      <3>5. QED BY <1>n, <2>1, <3>3, <3>4 DEF Balances
    <2>3. CASE request.phase # "request"
      BY <1>1, <1>3, <2>1, <2>3 DEF Poll, HandleControlSocket
    <2>4. QED BY <2>2, <2>3
  <1>4. CASE Read
    BY <1>1, <1>4, PendingStays DEF Read, linkVars
  <1>5. ASSUME NEW w \in Awaited, KeepsWaiting(w) PROVE Balances(c) /\ adapter' = adapter
    BY <1>1, <1>5, PendingStays DEF KeepsWaiting, linkVars
  <1>6. CASE AskThreads
    <2>1. Pending' = Pending BY <1>6, PendingStays
    <2>2. /\ UNCHANGED <<adapter, request>>
          /\ adapterIn' = Append(adapterIn, "threads") /\ "threads" \in Words
          /\ dap = "processing" /\ dap' = "threads"
      BY <1>6 DEF AskThreads, linkVars, Words
    <2>3. Count(adapterIn', {c}) = Count(adapterIn, {c}) + (IF c = "threads" THEN 1 ELSE 0)
      BY <2>2, CountAppend DEF TypeInv, TypeOK, MessagesOK
    <2>4. Asked(c)' = Asked(c) + (IF c = "threads" THEN 1 ELSE 0)
      BY <2>2 DEF Asked
    <2>5. QED BY <1>n, <2>1, <2>2, <2>3, <2>4 DEF Balances
  <1>7. CASE ForwardStopped
    <2>1. /\ UNCHANGED <<adapter, adapterIn, request>>
          /\ dap = "threads" /\ dap' = "processing"
      BY <1>7 DEF ForwardStopped, Receives
    <2>2. Asked(c)' = Asked(c) - (IF c = "threads" THEN 1 ELSE 0)
      BY <2>1 DEF Asked
    <2>3. /\ Count(Pending', {Response(c)}) <= Count(Pending, {Response(c)})
          /\ c = "threads" => Count(Pending', {Response(c)}) < Count(Pending, {Response(c)})
          /\ ~overwritten'
                => Count(Pending', {Response(c)}) = Count(Pending, {Response(c)})
                       - (IF c = "threads" THEN 1 ELSE 0)
      BY <1>7, CountsStopped
    <2>4. CASE c = "threads" BY <1>n, <2>1, <2>2, <2>3, <2>4 DEF Balances
    <2>5. CASE c # "threads" BY <1>n, <2>1, <2>2, <2>3, <2>5 DEF Balances
    <2>6. QED BY <2>4, <2>5
  <1>8. CASE ForwardEvent
    <2>1. UNCHANGED <<adapter, adapterIn, request, dap>> BY <1>8 DEF ForwardEvent, adapterVars, linkVars
    <2>2. Head(messageQueue) # Response(c)
      BY <1>8, FrontIsMessage, MessageFacts DEF ForwardEvent, TypeInv, TypeOK, MessagesOK
    <2>3. Count(Pending', {Response(c)}) = Count(Pending, {Response(c)}) - 0
      BY <1>8, <2>2, CountsHanded
    <2>4. Asked(c)' = Asked(c) BY <2>1 DEF Asked
    <2>5. QED BY <1>n, <2>1, <2>3, <2>4 DEF Balances
  <1>9. CASE ForwardResponse
    <2> DEFINE r == Head(messageQueue).command
    <2>1. UNCHANGED <<adapter, adapterIn>> /\ dap = "processing" /\ Reply(r, dap)
      BY <1>9 DEF ForwardResponse, adapterVars
    <2>2. r \in Words /\ Head(messageQueue) = Response(r)
      BY <1>9, FrontIsMessage DEF ForwardResponse, TypeInv, TypeOK, MessagesOK, Queues
    <2> HIDE DEF r
    <2>3. /\ request.phase = "serving"
          /\ request' = [phase |-> "reply", body |-> r] /\ dap' = dap
      BY <2>1 DEF Reply, ChannelInv
    <2>4. Count(Pending', {Response(c)}) = Count(Pending, {Response(c)}) - (IF r = c THEN 1 ELSE 0)
      <3>1. Head(messageQueue) = Response(c) <=> r = c BY <2>2, MessageFacts
      <3>2. QED BY <1>9, <3>1, CountsHanded
    <2>5. request.body = r
      <3>1. Count(Pending', {Response(r)}) = Count(Pending, {Response(r)}) - 1
        BY <1>9, <2>2, CountsHanded
      <3>2. Count(Pending', {Response(r)}) \in Nat /\ Count(Pending, {Response(r)}) \in Nat
        <4>1. Pending' \in Seq(Message)
          BY ConcatProperties DEF TypeInv, TypeOK, MessagesOK, Queues, Pending
        <4>2. QED BY <4>1, OwedNat, CountNat
      <3>3. Count(Pending, {Response(r)}) # 0 BY <3>1, <3>2
      <3>4. QED BY <2>1, <2>2, <3>3, FrontIsServed
    <2>6. Asked(c) = (IF r = c THEN 1 ELSE 0) /\ Asked(c)' = 0
      BY <2>1, <2>3, <2>5 DEF Asked
    <2>7. QED BY <1>n, <2>1, <2>4, <2>6 DEF Balances
  <1>10. CASE EndTurn
    BY <1>1, <1>10, PendingStays DEF EndTurn, adapterVars, linkVars
  <1>11. ASSUME NEW w \in {"initialized", "configurationDone", "attach"},
                NEW o, Receives(w, o), messageQueue' = o.queue
         PROVE  /\ dap = w
                /\ Count(Pending', {Response(c)}) <= Count(Pending, {Response(c)})
                /\ w # "initialized" /\ c = w
                      => Count(Pending', {Response(c)}) + 1 <= Count(Pending, {Response(c)})
                /\ ~overwritten'
                      => Count(Pending', {Response(c)}) = Count(Pending, {Response(c)})
                             - (IF w # "initialized" /\ c = w THEN 1 ELSE 0)
    <2>1. w \in Awaited BY DEF Awaited
    <2>2. dap = w BY <1>11 DEF Receives
    <2>3. /\ Count(Pending', {Response(c)}) <= Count(Pending, {Response(c)})
          /\ w # "initialized" /\ c = w
                => Count(Pending', {Response(c)}) < Count(Pending, {Response(c)})
          /\ ~overwritten'
                => Count(Pending', {Response(c)}) = Count(Pending, {Response(c)})
                       - (IF w # "initialized" /\ c = w THEN 1 ELSE 0)
      BY <1>11, <2>1, CountsReceived
    <2>4. QED BY <1>n, <2>2, <2>3
  <1>12. CASE SendConfigurationDone
    <2>1. PICK o : Receives("initialized", o) /\ messageQueue' = o.queue
      BY <1>12 DEF SendConfigurationDone
    <2>2. UNCHANGED <<adapter, request>> /\ dap' = "configurationDone" /\ dap = "initialized"
          /\ adapterIn' = Append(adapterIn, "configurationDone") /\ "configurationDone" \in Words
      BY <1>12, <2>1 DEF SendConfigurationDone, Receives, Words
    <2>3. /\ Count(Pending', {Response(c)}) <= Count(Pending, {Response(c)})
          /\ ~overwritten' => Count(Pending', {Response(c)}) = Count(Pending, {Response(c)}) - 0
      BY <1>11, <2>1
    <2>4. Count(adapterIn', {c}) = Count(adapterIn, {c}) + (IF c = "configurationDone" THEN 1 ELSE 0)
      BY <2>2, CountAppend DEF TypeInv, TypeOK, MessagesOK
    <2>5. Asked(c)' = Asked(c) + (IF c = "configurationDone" THEN 1 ELSE 0)
      BY <2>2 DEF Asked
    <2>6. QED BY <1>n, <2>2, <2>3, <2>4, <2>5 DEF Balances
  <1>13. CASE ReceiveConfigurationDone
    <2>1. PICK o : Receives("configurationDone", o) /\ messageQueue' = o.queue
      BY <1>13 DEF ReceiveConfigurationDone
    <2>2. UNCHANGED <<adapter, adapterIn, request>> /\ dap' = "attach" /\ dap = "configurationDone"
      BY <1>13, <2>1 DEF ReceiveConfigurationDone, Receives
    <2>3. /\ Count(Pending', {Response(c)}) <= Count(Pending, {Response(c)})
          /\ c = "configurationDone"
                => Count(Pending', {Response(c)}) + 1 <= Count(Pending, {Response(c)})
          /\ ~overwritten'
                => Count(Pending', {Response(c)}) = Count(Pending, {Response(c)})
                       - (IF c = "configurationDone" THEN 1 ELSE 0)
      BY <1>11, <2>1
    <2>4. Asked(c)' = Asked(c) - (IF c = "configurationDone" THEN 1 ELSE 0)
      BY <2>2 DEF Asked
    <2>5. QED BY <1>n, <2>2, <2>3, <2>4 DEF Balances
  <1>14. CASE FinishAttach
    <2>1. PICK o : Receives("attach", o) /\ messageQueue' = o.queue
      BY <1>14 DEF FinishAttach
    <2>2. UNCHANGED <<adapter, adapterIn>> /\ dap = "attach"
      BY <1>14, <2>1 DEF FinishAttach, Receives
    <2>3. /\ request.phase = "serving" /\ dap' \in {"reading", "processing"}
          /\ request' = [phase |-> "reply", body |-> "attach"]
      BY <1>14 DEF FinishAttach, Reply, ChannelInv
    <2>4. /\ Count(Pending', {Response(c)}) <= Count(Pending, {Response(c)})
          /\ c = "attach"
                => Count(Pending', {Response(c)}) + 1 <= Count(Pending, {Response(c)})
          /\ ~overwritten'
                => Count(Pending', {Response(c)}) = Count(Pending, {Response(c)})
                       - (IF c = "attach" THEN 1 ELSE 0)
      BY <1>11, <2>1
    <2>5. request.body = "attach"
      <3>1. "attach" \in Words /\ "attach" \in Awaited BY DEF Words, Awaited
      <3> DEFINE before == Count(Pending, {Response("attach")})
                 after == Count(Pending', {Response("attach")})
      <3>2. before \in Nat /\ after \in Nat
        <4>1. Pending' \in Seq(Message)
          BY ConcatProperties DEF TypeInv, TypeOK, MessagesOK, Queues, Pending
        <4>2. QED BY <4>1, OwedNat, CountNat
      <3>3. after < before BY <2>1, <3>1, CountsReceived
      <3> HIDE DEF before, after
      <3>4. before # 0 BY <3>2, <3>3
      <3>5. Count(Pending, {Response("attach")}) # 0 BY <3>4 DEF before
      <3>6. QED BY <2>2, <3>1, <3>5, FrontIsServed
    <2>6. Asked(c) = (IF c = "attach" THEN 1 ELSE 0) /\ Asked(c)' = 0
      BY <2>2, <2>3, <2>5 DEF Asked
    <2>7. QED BY <1>n, <2>2, <2>4, <2>6 DEF Balances
  <1>15. QED
    BY <1>2, <1>3, <1>4, <1>5, <1>6, <1>7, <1>8, <1>9, <1>10, <1>12, <1>13, <1>14
       DEF Dap, DapStep

LEMMA OwedDap ==
    TypeInv /\ TypeInv' /\ ExchangeInv /\ ChannelInv' /\ Dap => OwedInv'
  BY DapBalances, OwedBalance DEF ExchangeInv, OwedInv

LEMMA ExchangeStep ==
    TypeInv /\ ExchangeInv /\ [Next]_vars => ExchangeInv'
  <1> SUFFICES ASSUME TypeInv, ExchangeInv, [Next]_vars PROVE ExchangeInv'
    OBVIOUS
  <1>0. TypeInv' BY TypeStep
  <1>1. CASE FrontEnd BY <1>0, <1>1, ExchangeFrontEnd
  <1>2. CASE Control BY <1>0, <1>2, ExchangeControl
  <1>3. CASE Dap BY <1>0, <1>3, ChannelDap, OwedDap DEF ExchangeInv
  <1>4. CASE Adapter BY <1>0, <1>4, ExchangeAdapter
  <1>5. CASE UNCHANGED vars
    <2>1. UNCHANGED <<ctl, command, dap, request, adapter, adapterIn, messageQueue, adapterOut>>
      BY <1>5 DEF vars, ctlVars, adapterVars, dapVars, linkVars
    <2>2. ChannelInv' BY <2>1 DEF ExchangeInv, ChannelInv
    <2>3. OwedInv' BY <2>1 DEF ExchangeInv, OwedInv, Owed, Asked, Pending
    <2>4. QED BY <2>2, <2>3 DEF ExchangeInv
  <1>6. QED BY <1>1, <1>2, <1>3, <1>4, <1>5 DEF Next

-----------------------------------------------------------------------------
\* No response is on its way, or owed by the adapter, that the thread of the DAP
\* client has no use for: neither when it looks through its queue for one of
\* its own nor when it empties the queue, so that its REP socket is never asked
\* to send out of turn (xdap_tcp_client_impl.cpp:103-143, 365-412).
THEOREM ExchangeIsKept == Spec => []ExchangeInv
  BY ExchangeInit, ExchangeStep, TypesAreKept, PTL DEF Spec

\* The response to a request is that to the command of the request.
THEOREM RepliesAreInTurn == Spec => []RepliesInTurn
  <1>1. ExchangeInv => RepliesInTurn BY DEF ExchangeInv, ChannelInv, RepliesInTurn
  <1>2. QED BY <1>1, ExchangeIsKept, PTL

-----------------------------------------------------------------------------
(* What is left of a session: the events the adapter has raised and its     *)
(* response to "disconnect".                                                *)

Disconnected == Response("disconnect")

Late == Raised \union {Disconnected}

News == Only(Pending, Late)

LEMMA LateFacts ==
    /\ Raised \subseteq Late /\ Late \subseteq Message
    /\ Disconnected \in Late /\ Disconnected \notin Raised
    /\ Initialized \notin Late
    /\ \A c : Response(c) \in Late <=> c = "disconnect"
    /\ \A w \in Awaited : Expected(w) \notin Late
  <1>1. \A c : Response(c) \in Late <=> c = "disconnect"
    BY MessageFacts DEF Late, Disconnected
  <1>2. Initialized \notin Late BY MessageFacts DEF Late, Disconnected
  <1>3. \A w \in Awaited : Expected(w) \notin Late
    BY <1>1, <1>2 DEF Expected, Awaited
  <1>4. Disconnected \in Message
    BY MessageFacts, CommandIsWord, DebuggerBounds DEF Disconnected
  <1>5. QED BY <1>1, <1>2, <1>3, <1>4, MessageFacts DEF Late, Disconnected

LEMMA NewsIsSeq ==
    ASSUME TypeInv
    PROVE  News \in Seq(Late)
  BY PendingIsSeq, OnlyIsSeq DEF News

\* The events among the news are those pending, whatever they are about.
LEMMA NewsHasEvents ==
    ASSUME TypeInv
    PROVE  \A T : T \subseteq Late => Only(Pending, T) = Only(News, T)
  <1> SUFFICES ASSUME NEW T, T \subseteq Late PROVE Only(Pending, T) = Only(News, T)
    OBVIOUS
  <1>1. Late \intersect T = T OBVIOUS
  <1>2. Only(Only(Pending, Late), T) = Only(Pending, Late \intersect T)
    BY PendingIsSeq, OnlyOnly
  <1>3. QED BY <1>1, <1>2 DEF News

\* The message at the front of the queue is dealt with.
LEMMA NewsAtFront ==
    ASSUME NEW left \in Seq(Message), left # <<>>, Only(left, Late) = News,
           Pending' = Tail(left)
    PROVE  IF Head(left) \in Late
           THEN News # <<>> /\ Head(News) = Head(left) /\ News' = Tail(News)
           ELSE News' = News
  <1>1. IF Head(left) \in Late
        THEN /\ Only(left, Late) # <<>> /\ Head(Only(left, Late)) = Head(left)
             /\ Only(Tail(left), Late) = Tail(Only(left, Late))
        ELSE Only(Tail(left), Late) = Only(left, Late)
    BY OnlyFront
  <1>2. News' = Only(Tail(left), Late)
    BY DEF News, Late, Raised, Disconnected, Response
  <1>3. QED BY <1>1, <1>2

-----------------------------------------------------------------------------
(* What a step does to the news.                                            *)

\* It says nothing of the events of the adapter.
SameNews ==
    /\ News' = News
    /\ published' \in {published, Append(published, 0)}
    /\ stoppedThreads' = stoppedThreads

\* It hands the first of them to the callback and publishes it.
HandsOn ==
    /\ News # <<>> /\ Head(News) \in Raised
    /\ News' = Tail(News)
    /\ Publish(Head(News))

\* It passes the response to "disconnect" on.
Parts ==
    /\ News # <<>> /\ Head(News) = Disconnected
    /\ News' = Tail(News)
    /\ published' = published /\ stoppedThreads' = stoppedThreads

\* It does not reply to "disconnect".
KeepsSession ==
    request' = request \/ request'.phase # "reply" \/ request'.body # "disconnect"

LEMMA NewsStays ==
    ASSUME Pending' = Pending
    PROVE  News' = News
  BY DEF News, Late, Raised, Disconnected, Response

LEMMA NewsReceived ==
    ASSUME TypeInv, NEW w \in Awaited, NEW o, Receives(w, o), messageQueue' = o.queue
    PROVE  News' = News
  <1>1. Only(Pending', Late) = Only(Pending, Late) BY PendingReceived, LateFacts
  <1>2. News' = Only(Pending', Late) BY DEF News, Late, Raised, Disconnected, Response
  <1>3. QED BY <1>1, <1>2 DEF News

LEMMA PublishesNothing ==
    ASSUME Publish(Initialized)
    PROVE  stoppedThreads' = stoppedThreads /\ published' = Append(published, 0)
  BY MessageFacts DEF Publish, HandleEvent

LEMMA DapNews ==
    ASSUME TypeInv, DapStep
    PROVE  \/ SameNews /\ KeepsSession
           \/ HandsOn /\ request' = request
           \/ Parts
  <1>1. CASE Handshake
    <2>1. News' = News BY <1>1, PendingStays, NewsStays
    <2>2. QED BY <1>1, <2>1 DEF Handshake, SameNews, KeepsSession
  <1>2. CASE Poll
    <2>1. News' = News BY <1>2, PendingStays, NewsStays
    <2>2. published' = published /\ stoppedThreads' = stoppedThreads BY <1>2 DEF Poll
    <2>3. KeepsSession
      BY <1>2 DEF Poll, HandleControlSocket, KeepsSession, TypeInv, TypeOK, MessagesOK, Phase
    <2>4. QED BY <2>1, <2>2, <2>3 DEF SameNews
  <1>3. CASE Read \/ AskThreads \/ EndTurn
    <2>1. News' = News BY <1>3, PendingStays, NewsStays
    <2>2. published' = published /\ stoppedThreads' = stoppedThreads /\ request' = request
      BY <1>3 DEF Read, AskThreads, EndTurn, linkVars
    <2>3. QED BY <2>1, <2>2 DEF SameNews, KeepsSession
  <1>4. ASSUME NEW w \in Awaited, KeepsWaiting(w) PROVE SameNews /\ KeepsSession
    <2>1. News' = News BY <1>4, PendingStays, NewsStays
    <2>2. published' = published /\ stoppedThreads' = stoppedThreads /\ request' = request
      BY <1>4 DEF KeepsWaiting, linkVars
    <2>3. QED BY <2>1, <2>2 DEF SameNews, KeepsSession
  <1>5. CASE ForwardStopped
    <2>1. PICK left \in Seq(Message) :
              /\ \A T : Expected("threads") \notin T => Only(left, T) = Only(Pending, T)
              /\ left # <<>> /\ Head(left) = Head(messageQueue) /\ Pending' = Tail(left)
      BY <1>5, PendingStopped
    <2>2. "threads" \in Awaited BY DEF Awaited
    <2>3. Only(left, Late) = News BY <2>1, <2>2, LateFacts DEF News
    <2>4. dap = "threads" /\ Publish(Head(messageQueue)) /\ request' = request
      BY <1>5 DEF ForwardStopped, Receives
    <2>5. Head(left) \in Raised BY <2>1, <2>4 DEF TypeInv, FrontInv
    <2>6. Head(left) \in Late BY <2>5, LateFacts
    <2>7. News # <<>> /\ Head(News) = Head(left) /\ News' = Tail(News)
      BY <2>1, <2>3, <2>6, NewsAtFront
    <2>8. HandsOn BY <2>1, <2>4, <2>5, <2>7 DEF HandsOn
    <2>9. QED BY <2>4, <2>8
  <1>6. CASE ForwardEvent
    <2>1. Pending # <<>> /\ Head(Pending) = Head(messageQueue) /\ Pending' = Tail(Pending)
      BY <1>6, PendingHanded
    <2>2. /\ messageQueue # <<>> /\ Head(messageQueue).type = "event"
          /\ Publish(Head(messageQueue)) /\ request' = request
      BY <1>6 DEF ForwardEvent, linkVars
    <2>3. Head(messageQueue) \in Raised \union {Initialized}
      BY <2>2, FrontIsMessage DEF TypeInv, TypeOK, MessagesOK, Queues
    <2>4. IF Head(Pending) \in Late
          THEN News # <<>> /\ Head(News) = Head(Pending) /\ News' = Tail(News)
          ELSE News' = News
      BY <2>1, PendingIsSeq, NewsAtFront DEF News
    <2>5. CASE Head(messageQueue) \in Raised
      <3>1. News # <<>> /\ Head(News) = Head(messageQueue) /\ News' = Tail(News)
        BY <2>1, <2>4, <2>5, LateFacts
      <3>2. HandsOn BY <2>2, <2>5, <3>1 DEF HandsOn
      <3>3. QED BY <2>2, <3>2
    <2>6. CASE Head(messageQueue) = Initialized
      <3>1. News' = News BY <2>1, <2>4, <2>6, LateFacts
      <3>2. stoppedThreads' = stoppedThreads /\ published' = Append(published, 0)
        BY <2>2, <2>6, PublishesNothing
      <3>3. QED BY <2>2, <3>1, <3>2 DEF SameNews, KeepsSession
    <2>7. QED BY <2>3, <2>5, <2>6
  <1>7. CASE ForwardResponse
    <2> DEFINE c == Head(messageQueue).command
    <2>1. Pending # <<>> /\ Head(Pending) = Head(messageQueue) /\ Pending' = Tail(Pending)
      BY <1>7, PendingHanded
    <2>2. /\ messageQueue # <<>> /\ Head(messageQueue).type = "response"
          /\ published' = published /\ stoppedThreads' = stoppedThreads /\ Reply(c, dap)
      BY <1>7 DEF ForwardResponse
    <2>3. Head(messageQueue) = Response(c)
      BY <2>2, FrontIsMessage DEF TypeInv, TypeOK, MessagesOK, Queues
    <2>4. IF Head(Pending) \in Late
          THEN News # <<>> /\ Head(News) = Head(Pending) /\ News' = Tail(News)
          ELSE News' = News
      BY <2>1, PendingIsSeq, NewsAtFront DEF News
    <2> HIDE DEF c
    <2>5. CASE c = "disconnect"
      <3>1. Head(messageQueue) = Disconnected BY <2>3, <2>5 DEF Disconnected
      <3>2. Parts BY <2>1, <2>2, <2>4, <3>1, LateFacts DEF Parts
      <3>3. QED BY <3>2
    <2>6. CASE c # "disconnect"
      <3>1. News' = News BY <2>1, <2>3, <2>4, <2>6, LateFacts
      <3>2. KeepsSession BY <2>2, <2>6 DEF Reply, KeepsSession
      <3>3. QED BY <2>2, <3>1, <3>2 DEF SameNews
    <2>7. QED BY <2>5, <2>6
  <1>8. CASE SendConfigurationDone \/ ReceiveConfigurationDone
    <2>1. \E w \in Awaited : \E o : Receives(w, o) /\ messageQueue' = o.queue
      BY <1>8 DEF SendConfigurationDone, ReceiveConfigurationDone, Awaited
    <2>2. News' = News BY <2>1, NewsReceived
    <2>3. published' = published /\ stoppedThreads' = stoppedThreads /\ request' = request
      BY <1>8 DEF SendConfigurationDone, ReceiveConfigurationDone
    <2>4. QED BY <2>2, <2>3 DEF SameNews, KeepsSession
  <1>9. CASE FinishAttach
    <2>1. \E o : Receives("attach", o) /\ messageQueue' = o.queue BY <1>9 DEF FinishAttach
    <2>2. "attach" \in Awaited BY DEF Awaited
    <2>3. News' = News BY <2>1, <2>2, NewsReceived
    <2>4. stoppedThreads' = stoppedThreads /\ published' = Append(published, 0)
      BY <1>9, PublishesNothing DEF FinishAttach
    <2>5. KeepsSession BY <1>9 DEF FinishAttach, Reply, KeepsSession
    <2>6. QED BY <2>3, <2>4, <2>5 DEF SameNews
  <1>10. QED
    BY <1>1, <1>2, <1>3, <1>4, <1>5, <1>6, <1>7, <1>8, <1>9 DEF DapStep

LEMMA DapLeavesAdapter ==
    DapStep => UNCHANGED <<adapter, halted, raised>>
  BY DEF DapStep, Handshake, Poll, Read, KeepsWaiting, AskThreads, ForwardStopped, ForwardEvent,
         ForwardResponse, EndTurn, SendConfigurationDone, ReceiveConfigurationDone, FinishAttach,
         Receives, adapterVars

\* What the adapter answers is no news, but to "disconnect".
LEMMA AnswersLate ==
    ASSUME NEW c \in Words, NEW p, NEW m \in Answers(c, p).messages
    PROVE  Only(m, Late) = IF c = "disconnect" THEN <<Disconnected>> ELSE <<>>
  <1> DEFINE r == Response(c)
             a == Response("attach")
  <1>1. r \in Message /\ a \in Message /\ Initialized \in Message
    BY MessageFacts, CommandIsWord DEF Awaited
  <1>2. (r \in Late <=> c = "disconnect") /\ a \notin Late /\ Initialized \notin Late
    BY LateFacts
  <1>3. \/ c = "attach" /\ m \in {<<Initialized>>, <<Initialized, r>>}
        \/ c = "configurationDone" /\ m \in {<<r, a>>, <<a, r>>}
        \/ m = <<r>>
    BY AnswerCases
  <1>4. CASE c = "disconnect"
    <2>1. m = <<Disconnected>> BY <1>3, <1>4 DEF Disconnected
    <2>2. Only(<<Disconnected>>, Late) = <<Disconnected>> BY OnlyOne, LateFacts
    <2>3. QED BY <1>4, <2>1, <2>2
  <1>5. CASE c # "disconnect"
    <2> HIDE DEF r, a
    <2>1. r \notin Late BY <1>2, <1>5
    <2> DEFINE early(s) == s \in Seq(Message) /\ \A i \in 1 .. Len(s) : s[i] \notin Late
    <2>a. \A x, y \in Message : x \notin Late /\ y \notin Late => early(<<x>>) /\ early(<<x, y>>)
      OBVIOUS
    <2> HIDE DEF early
    <2>b. early(m)
      <3>1. \/ m \in {<<Initialized>>, <<Initialized, r>>}
            \/ m \in {<<r, a>>, <<a, r>>}
            \/ m = <<r>>
        BY <1>3
      <3>2. /\ early(<<Initialized>>) /\ early(<<Initialized, r>>) /\ early(<<r, a>>)
            /\ early(<<a, r>>) /\ early(<<r>>)
        BY <1>1, <1>2, <2>1, <2>a
      <3>3. QED BY <3>1, <3>2
    <2>2. m \in Seq(Message) /\ \A i \in 1 .. Len(m) : m[i] \notin Late BY <2>b DEF early
    <2>3. Only(m, Late) = <<>> BY <2>2, OnlyNone
    <2>4. QED BY <1>5, <2>3
  <1>6. QED BY <1>4, <1>5

\* The adapter is heard of for the last time, raises an event, or does neither.
Leaves == News' = Append(News, Disconnected) /\ raised' = raised /\ adapter' = "gone"

RaisesOne(kind, t) ==
    /\ raised < MaxEvents
    /\ News' = Append(News, Event(kind, t, raised + 1))
    /\ raised' = raised + 1
    /\ halted' = After(kind, t)
    /\ adapter' = adapter

RaisesNone ==
    News' = News /\ UNCHANGED <<raised, halted>> /\ adapter' \notin {"gone", "off"}

LEMMA AdapterNews ==
    ASSUME TypeInv, AdapterStep(parallel), UNCHANGED dapVars
    PROVE  /\ Alive
           /\ \/ Leaves
              \/ \E kind \in EventKinds : \E t \in Concerned(kind) : RaisesOne(kind, t)
              \/ RaisesNone
  <1>1. Pending \in Seq(Message) /\ messageQueue' = messageQueue
    BY PendingIsSeq DEF dapVars
  <1>2. ASSUME NEW m \in Seq(Message), adapterOut' = adapterOut \o m
        PROVE  News' = News \o Only(m, Late)
    <2>1. Pending' = Pending \o m BY <1>1, <1>2, PendingSent
    <2>2. Only(Pending \o m, Late) = Only(Pending, Late) \o Only(m, Late) BY <1>1, OnlyConcat
    <2>3. News' = Only(Pending', Late) BY DEF News, Late, Raised, Disconnected, Response
    <2>4. QED BY <2>1, <2>2, <2>3 DEF News
  <1>3. ASSUME NEW m \in Message, adapterOut' = Append(adapterOut, m)
        PROVE  News' = IF m \in Late THEN Append(News, m) ELSE News
    <2>1. Pending' = Append(Pending, m)
      BY <1>1, <1>3, AppendToConcat DEF TypeInv, TypeOK, MessagesOK, Queues, Pending
    <2>2. Only(Append(Pending, m), Late)
              = IF m \in Late THEN Append(Only(Pending, Late), m) ELSE Only(Pending, Late)
      BY <1>1, OnlyAppend
    <2>3. News' = Only(Pending', Late) BY DEF News, Late, Raised, Disconnected, Response
    <2>4. QED BY <2>1, <2>2, <2>3 DEF News
  <1>4. CASE AdapterAnswers(parallel)
    <2> DEFINE c == Head(adapterIn)
    <2>1. /\ Alive /\ adapter' = Answers(c, parallel).to /\ raised' = raised
          /\ halted' = IF Answers(c, parallel).to = "gone" THEN {} ELSE halted
      BY <1>4 DEF AdapterAnswers
    <2>2. PICK m \in Answers(c, parallel).messages : adapterOut' = adapterOut \o m
      BY <1>4 DEF AdapterAnswers
    <2>3. c \in Words BY <1>4, HeadThenTail DEF AdapterAnswers, TypeInv, TypeOK, MessagesOK
    <2>4. m \in Seq(Message) BY <2>3, AnswersAreMessages DEF TypeInv, TypeOK, AdapterOK
    <2>5. Only(m, Late) = IF c = "disconnect" THEN <<Disconnected>> ELSE <<>>
      BY <2>3, AnswersLate
    <2>6. IF c = "disconnect" THEN Answers(c, parallel).to = "gone"
                              ELSE Answers(c, parallel).to \notin {"gone", "off"}
      BY <2>1, AnswerCases DEF Alive
    <2> HIDE DEF c
    <2>7. News' = News \o Only(m, Late) BY <1>2, <2>2, <2>4
    <2>8. News \in Seq(Late) BY NewsIsSeq
    <2>9. CASE c = "disconnect"
      <3>1. News' = News \o <<Disconnected>> BY <2>5, <2>7, <2>9
      <3>2. News \o <<Disconnected>> = Append(News, Disconnected) BY <2>8, AppendIsConcat, LateFacts
      <3>3. QED BY <2>1, <2>6, <2>9, <3>1, <3>2 DEF Leaves
    <2>10. CASE c # "disconnect"
      <3>1. News' = News \o <<>> BY <2>5, <2>7, <2>10
      <3>2. News' = News BY <2>8, <3>1, ConcatEmptySeq
      <3>3. QED BY <2>1, <2>6, <2>10, <3>2 DEF RaisesNone
    <2>11. QED BY <2>9, <2>10
  <1>5. CASE AdapterRefuses
    <2>1. Response("attach") \in Message /\ Response("attach") \notin Late
      BY MessageFacts, CommandIsWord, LateFacts DEF Awaited
    <2>2. News' = News BY <1>3, <1>5, <2>1 DEF AdapterRefuses
    <2>3. QED BY <1>5, <2>2 DEF AdapterRefuses, RaisesNone, Alive
  <1>6. ASSUME NEW kind \in EventKinds, NEW t \in Concerned(kind), AdapterRaises(kind, t)
        PROVE  Alive /\ RaisesOne(kind, t)
    <2>1. raised + 1 \in 1 .. MaxEvents
      BY <1>6, AdapterBounds DEF AdapterRaises, TypeInv, TypeOK, AdapterOK
    <2>2. Event(kind, t, raised + 1) \in Late /\ Event(kind, t, raised + 1) \in Message
      BY <2>1, RaisedNext, LateFacts
    <2>3. News' = Append(News, Event(kind, t, raised + 1)) BY <1>3, <1>6, <2>2 DEF AdapterRaises
    <2>4. QED BY <1>6, <2>3 DEF AdapterRaises, RaisesOne, Alive
  <1>7. CASE AdapterDies
    <2>1. News' = News BY <1>7, PendingStays, NewsStays
    <2>2. QED BY <1>7, <2>1 DEF AdapterDies, RaisesNone
  <1>8. QED BY <1>4, <1>5, <1>6, <1>7 DEF AdapterStep

-----------------------------------------------------------------------------
(* The end of a session.                                                    *)

Over == adapter \in {"off", "gone"} /\ News = <<>>

\* The response to "disconnect" is the last that is heard of an adapter.
LastWord ==
    \A i \in 1 .. Len(News) : News[i] = Disconnected => i = Len(News) /\ adapter = "gone"

SessionInv ==
    /\ LastWord
    /\ ctl = "request" /\ request.phase = "reply" /\ request.body = "disconnect" => Over
    /\ ctl = "stopping" => Over
    /\ ctl # "starting" /\ ~isStarted => Over
    /\ ctl \in {"header", "request"} => isStarted
    /\ ctl = "idle" /\ ~isStarted => stoppedThreads = {} /\ ~breakpoints

\* The steps of the control thread.
Calls == Control \/ \E c \in Commands : AnswersAtOnce(c) \/ Forwards(c)

\* They leave what comes from the adapter alone.
LEMMA CallsKeepNews ==
    ASSUME TypeInv, Calls
    PROVE  News' = News /\ UNCHANGED <<adapter, halted, raised, published>>
  <1>1. News' = News BY PendingStays, NewsStays DEF Calls
  <1>2. ASSUME NEW c \in Commands, AnswersAtOnce(c) \/ Forwards(c)
        PROVE  UNCHANGED <<adapter, halted, raised, published>>
    BY <1>2 DEF AnswersAtOnce, Forwards, adapterVars, dapVars
  <1>3. Control => UNCHANGED <<adapter, halted, raised, published>>
    BY DEF Control, Starts, SendsRequest, ReceivesReply, Stops, adapterVars, dapVars
  <1>4. QED BY <1>1, <1>2, <1>3 DEF Calls

\* A session that starts after another one finds nothing of it.
LEMMA NewsAtStart ==
    ASSUME TypeInv, StartSucceeds, News = <<>>
    PROVE  News' = <<>>
  <1> DEFINE q == messageQueue
             out == adapterOut
  <1>1. q \in Seq(Message) /\ out \in Seq(Message) BY DEF TypeInv, TypeOK, MessagesOK, Queues
  <1>2. Pending' = q \o <<>> BY DEF StartSucceeds, AdapterStarts, Pending
  <1>3. News = Only(q \o out, Late) BY DEF News, Pending
  <1> HIDE DEF q, out
  <1>4. Pending' = q BY <1>1, <1>2, ConcatEmptySeq
  <1>5. News' = Only(q, Late)
    BY <1>4 DEF News, Late, Raised, Disconnected, Response
  <1>6. Only(q, Late) \in Seq(Late) /\ Only(out, Late) \in Seq(Late)
    BY <1>1, OnlyIsSeq
  <1>7. Only(q, Late) \o Only(out, Late) = <<>> BY <1>1, <1>3, OnlyConcat
  <1> DEFINE a == Only(q, Late)
             b == Only(out, Late)
  <1>8. a \in Seq(Late) /\ b \in Seq(Late) /\ a \o b = <<>> BY <1>6, <1>7
  <1> HIDE DEF a, b
  <1>9. Len(a) + Len(b) = 0 /\ Len(a) \in Nat /\ Len(b) \in Nat
    BY <1>8, ConcatProperties, LenProperties, EmptySeq
  <1>10. a = <<>> BY <1>8, <1>9, EmptySeq
  <1>11. QED BY <1>5, <1>10 DEF a

\* What is over stays over until a session starts.
LEMMA OverStays ==
    ASSUME TypeInv, Over, Calls \/ DapStep \/ Adapter
    PROVE  Over'
  <1>1. CASE Calls BY <1>1, CallsKeepNews DEF Over
  <1>2. CASE DapStep
    <2>1. News' = News
      BY <1>2, DapNews DEF Over, SameNews, HandsOn, Parts
    <2>2. QED BY <1>2, <2>1, DapLeavesAdapter DEF Over
  <1>3. CASE Adapter
    <2>1. Alive BY <1>3, AdapterNews DEF Adapter
    <2>2. QED BY <2>1 DEF Over, Alive
  <1>4. QED BY <1>1, <1>2, <1>3

LEMMA LastWordStays ==
    ASSUME TypeInv, LastWord, Calls \/ DapStep \/ Adapter
    PROVE  LastWord'
  <1>0. News \in Seq(Late) BY NewsIsSeq
  <1>1. CASE Calls
    BY <1>1, CallsKeepNews DEF LastWord, Disconnected, Response
  <1>2. CASE DapStep
    <2>1. adapter' = adapter BY <1>2, DapLeavesAdapter
    <2>2. News' = News \/ (News # <<>> /\ News' = Tail(News))
      BY <1>2, DapNews DEF SameNews, HandsOn, Parts
    <2>3. CASE News' = News BY <2>1, <2>3 DEF LastWord, Disconnected, Response
    <2>4. CASE News # <<>> /\ News' = Tail(News)
      <3>1. Len(News') = Len(News) - 1 /\ \A i \in 1 .. Len(News') : News'[i] = News[i + 1]
        BY <1>0, <2>4
      <3>2. Len(News) \in Nat BY <1>0
      <3>3. QED BY <2>1, <3>1, <3>2 DEF LastWord, Disconnected, Response
    <2>5. QED BY <2>2, <2>3, <2>4
  <1>3. CASE Adapter
    <2>1. /\ Alive
          /\ \/ Leaves
             \/ \E kind \in EventKinds : \E t \in Concerned(kind) : RaisesOne(kind, t)
             \/ RaisesNone
      BY <1>3, AdapterNews DEF Adapter
    <2>2. \A i \in 1 .. Len(News) : News[i] # Disconnected BY <2>1 DEF LastWord, Alive
    <2>3. CASE Leaves
      <3>1. Len(News') = Len(News) + 1 /\ \A i \in 1 .. Len(News) : News'[i] = News[i]
        BY <1>0, <2>3 DEF Leaves
      <3>2. Len(News) \in Nat BY <1>0
      <3>3. QED BY <2>2, <2>3, <3>1, <3>2 DEF Leaves, LastWord, Disconnected, Response
    <2>4. ASSUME NEW kind \in EventKinds, NEW t \in Concerned(kind), RaisesOne(kind, t)
          PROVE  LastWord'
      <3> DEFINE e == Event(kind, t, raised + 1)
      <3>1. e # Disconnected
        <4>1. e.type = "event" BY DEF Event
        <4>2. Disconnected.type = "response" BY MessageFacts DEF Disconnected
        <4>3. QED BY <4>1, <4>2
      <3>2. News' = Append(News, e) BY <2>4 DEF RaisesOne
      <3> HIDE DEF e
      <3>3. /\ Len(News') = Len(News) + 1 /\ News'[Len(News) + 1] = e
            /\ \A i \in 1 .. Len(News) : News'[i] = News[i]
        BY <1>0, <3>2
      <3>4. Len(News) \in Nat BY <1>0
      <3>5. \A i \in 1 .. Len(News') : News'[i] # Disconnected BY <2>2, <3>1, <3>3, <3>4
      <3>6. QED BY <3>5 DEF LastWord, Disconnected, Response
    <2>5. CASE RaisesNone BY <2>2, <2>5 DEF RaisesNone, LastWord, Disconnected, Response
    <2>6. QED BY <2>1, <2>3, <2>4, <2>5
  <1>4. QED BY <1>1, <1>2, <1>3

LEMMA SessionInit ==
    Init => SessionInv
  <1> SUFFICES ASSUME Init PROVE SessionInv
    OBVIOUS
  <1>1. Pending = <<>> BY DEF Init, DapInit, AdapterInit, Pending
  <1>2. News = <<>> BY <1>1, OnlyEmpty DEF News
  <1>3. LastWord BY <1>2 DEF LastWord
  <1>4. Over BY <1>2 DEF Over, Init, AdapterInit
  <1>5. QED BY <1>3, <1>4 DEF SessionInv, Init, DapInit

LEMMA SessionCalls ==
    TypeInv /\ ExchangeInv /\ SessionInv /\ Calls => SessionInv'
  <1> SUFFICES ASSUME TypeInv, ExchangeInv, SessionInv, Calls PROVE SessionInv'
    OBVIOUS
  <1>1. LastWord' BY LastWordStays DEF SessionInv
  <1>2. Over => Over' BY OverStays
  <1>3. ASSUME NEW c \in Commands, AnswersAtOnce(c) \/ Forwards(c) PROVE SessionInv'
    <2>1. CASE AnswersAtOnce(c)
      BY <1>1, <1>2, <2>1 DEF AnswersAtOnce, Takes, linkVars, SessionInv
    <2>2. CASE Forwards(c)
      BY <1>1, <1>2, <2>2 DEF Forwards, Takes, SessionInv
    <2>3. QED BY <1>3, <2>1, <2>2
  <1>4. CASE Starts BY <1>1, <1>2, <1>4 DEF Starts, SessionInv
  <1>5. CASE SendsRequest
    BY <1>1, <1>2, <1>5 DEF SendsRequest, SessionInv
  <1>6. CASE ReceivesReply
    <2>1. command = "disconnect" => Over
      BY <1>6 DEF ReceivesReply, SessionInv, ExchangeInv, ChannelInv
    <2>2. QED BY <1>1, <1>2, <1>6, <2>1 DEF ReceivesReply, SessionInv, IdleSocket
  <1>7. CASE Stops BY <1>1, <1>2, <1>7 DEF Stops, SessionInv
  <1>8. QED BY <1>3, <1>4, <1>5, <1>6, <1>7 DEF Calls, Control

LEMMA SessionDap ==
    TypeInv /\ SessionInv /\ Dap => SessionInv'
  <1> SUFFICES ASSUME TypeInv, SessionInv, Dap PROVE SessionInv'
    OBVIOUS
  <1>1. LastWord' BY LastWordStays DEF SessionInv, Dap
  <1>2. Over => Over' BY OverStays DEF Dap
  <1>3. UNCHANGED <<ctl, isStarted, breakpoints>> BY DEF Dap, ctlVars
  <1>4. ctl = "idle" /\ ~isStarted => stoppedThreads' = stoppedThreads
    <2>1. ctl = "idle" /\ ~isStarted => News = <<>> BY DEF SessionInv, Over
    <2>2. QED BY <2>1, DapNews DEF Dap, SameNews, HandsOn, Parts
  <1>5. ctl = "request" /\ request'.phase = "reply" /\ request'.body = "disconnect" => Over'
    <2>1. CASE KeepsSession
      BY <1>2, <2>1 DEF KeepsSession, SessionInv
    <2>2. CASE Parts
      <3>1. News \in Seq(Late) BY NewsIsSeq
      <3>2. News # <<>> /\ News[1] = Disconnected /\ News' = Tail(News) BY <2>2 DEF Parts
      <3>3. Len(News) \in Nat /\ Len(News) # 0 BY <3>1, <3>2
      <3>4. Len(News) = 1 /\ adapter = "gone"
        <4>1. LastWord BY DEF SessionInv
        <4>2. 1 \in 1 .. Len(News) BY <3>3
        <4>3. QED BY <3>2, <4>1, <4>2 DEF LastWord
      <3>5. News' = <<>> BY <3>1, <3>2, <3>4
      <3>6. adapter' = adapter BY DapLeavesAdapter DEF Dap
      <3>7. QED BY <3>4, <3>5, <3>6 DEF Over
    <2>3. QED BY <2>1, <2>2, DapNews DEF Dap, KeepsSession
  <1>6. QED BY <1>1, <1>2, <1>3, <1>4, <1>5 DEF SessionInv

LEMMA SessionStep ==
    TypeInv /\ ExchangeInv /\ SessionInv /\ [Next]_vars => SessionInv'
  <1> SUFFICES ASSUME TypeInv, ExchangeInv, SessionInv, [Next]_vars PROVE SessionInv'
    OBVIOUS
  <1>1. CASE StartSucceeds
    <2>1. ctl = "idle" /\ ~isStarted BY <1>1 DEF StartSucceeds, Takes
    <2>2. News = <<>> BY <2>1 DEF SessionInv, Over
    <2>3. News' = <<>> BY <1>1, <2>2, NewsAtStart
    <2>4. LastWord' BY <2>3 DEF LastWord
    <2>5. ctl' = "starting" BY <1>1 DEF StartSucceeds
    <2>6. QED BY <2>4, <2>5 DEF SessionInv
  <1>2. CASE Calls BY <1>2, SessionCalls
  <1>3. CASE Dap BY <1>3, SessionDap
  <1>4. CASE Adapter
    <2>1. LastWord' BY <1>4, LastWordStays DEF SessionInv
    <2>2. Over => Over' BY <1>4, OverStays
    <2>3. UNCHANGED <<ctl, isStarted, breakpoints, request, stoppedThreads>>
      BY <1>4 DEF Adapter, ctlVars, linkVars
    <2>4. QED BY <2>1, <2>2, <2>3 DEF SessionInv
  <1>5. CASE UNCHANGED vars
    <2>1. UNCHANGED <<ctl, isStarted, breakpoints, request, stoppedThreads, adapter,
                      messageQueue, adapterOut>>
      BY <1>5 DEF vars, ctlVars, adapterVars, dapVars, linkVars
    <2>2. News' = News BY <2>1, NewsStays DEF Pending
    <2>3. LastWord' BY <2>1, <2>2 DEF SessionInv, LastWord, Disconnected, Response
    <2>4. QED BY <2>1, <2>2, <2>3 DEF SessionInv, Over
  <1>6. QED BY <1>1, <1>2, <1>3, <1>4, <1>5 DEF Next, FrontEnd, Calls

\* Once the response to "disconnect" has been passed on, nothing that the
\* adapter has sent is left to hand to the callback, and the adapter is gone: it
\* is the last that it sends, and the DAP client keeps the order of what it
\* reads (xdap_tcp_client_impl.cpp:103-143, xdebugger_base.cpp:411-418).
THEOREM SessionIsKept == Spec => []SessionInv
  BY SessionInit, SessionStep, TypesAreKept, ExchangeIsKept, PTL DEF Spec

\* A session leaves no event, no stopped thread and no breakpoint to the next.
THEOREM NothingIsLeft == Spec => []SessionLeavesNothing
  <1>1. TypeInv /\ SessionInv => SessionLeavesNothing
    <2> SUFFICES ASSUME TypeInv, SessionInv PROVE SessionLeavesNothing
      OBVIOUS
    <2>1. ctl = "stopping" => \A i \in DOMAIN Pending : Pending[i] \notin Raised
      <3> SUFFICES ASSUME ctl = "stopping" PROVE \A i \in 1 .. Len(Pending) : Pending[i] \notin Raised
        BY PendingIsSeq
      <3>1. Only(Pending, Late) = <<>> BY DEF SessionInv, Over, News
      <3>2. \A i \in 1 .. Len(Pending) : Pending[i] \notin Late BY <3>1, PendingIsSeq, OnlyNone
      <3>3. QED BY <3>2, LateFacts
    <2>2. QED BY <2>1 DEF SessionInv, SessionLeavesNothing
  <1>2. QED BY <1>1, TypesAreKept, SessionIsKept, PTL

-----------------------------------------------------------------------------
(* The order of the events.                                                 *)

Waiting == Only(News, Raised)

LEMMA UnderwayIsWaiting ==
    TypeInv => Underway = Waiting
  BY NewsHasEvents, LateFacts DEF Underway, Waiting

LEMMA UnderwayIsWaitingNext ==
    TypeInv' => Underway' = Waiting'
  <1>1. (TypeInv => Underway = Waiting)' BY UnderwayIsWaiting, PTL
  <1>2. QED BY <1>1

\* The events given and the events waiting are numbered through.
OrderInv ==
    /\ Len(Given) + Len(Waiting) = raised
    /\ \A i \in 1 .. Len(Given) : Given[i] = i
    /\ \A i \in 1 .. Len(Waiting) : Waiting[i].no = Len(Given) + i

LEMMA OrderTypes ==
    ASSUME TypeInv
    PROVE  /\ Waiting \in Seq(Raised) /\ Len(Waiting) \in Nat
           /\ Given \in Seq(Nat) /\ Len(Given) \in Nat
           /\ raised \in Nat
  <1>2. Waiting \in Seq(Raised) BY NewsIsSeq, OnlyIsSeq DEF Waiting
  <1>3. Given \in Seq(Nat) BY OnlyIsSeq DEF Given, TypeInv, TypeOK, MessagesOK
  <1>4. QED
    BY <1>2, <1>3, LenProperties, AdapterBounds DEF TypeInv, TypeOK, AdapterOK

\* What a step does to the events waiting and to those given.
LEMMA EventsStay ==
    ASSUME TypeInv, News' = News, published' \in {published, Append(published, 0)}
    PROVE  Waiting' = Waiting /\ Given' = Given
  <1> DEFINE M == 1 .. MaxEvents
  <1>1. Waiting' = Waiting BY DEF Waiting, Raised
  <1>2. published \in Seq(Nat) /\ 0 \notin M /\ 0 \in Nat BY DEF TypeInv, TypeOK, MessagesOK
  <1>3. Given' = Only(published', M) /\ Given = Only(published, M) BY DEF Given
  <1> HIDE DEF M
  <1>4. Only(Append(published, 0), M) = Only(published, M) BY <1>2, OnlyAppend
  <1>5. QED BY <1>1, <1>3, <1>4

LEMMA EventIsHandedOn ==
    ASSUME TypeInv, HandsOn
    PROVE  /\ Waiting # <<>> /\ Head(Waiting) = Head(News) /\ Waiting' = Tail(Waiting)
           /\ Given' = Append(Given, Head(News).no)
  <1> DEFINE e == Head(News)
  <1>1. News \in Seq(Late) /\ News # <<>> /\ e \in Raised
    BY NewsIsSeq DEF HandsOn
  <1>2. Waiting' = Only(Tail(News), Raised) BY DEF HandsOn, Waiting, Raised
  <1>3. Waiting # <<>> /\ Head(Waiting) = e /\ Waiting' = Tail(Waiting)
    BY <1>1, <1>2, OnlyFront DEF Waiting
  <1> HIDE DEF e
  <1>4. Given' = Append(Given, e.no)
    <2> DEFINE M == 1 .. MaxEvents
    <2>1. e.no \in M /\ e.no \in Nat BY <1>1, RaisedFacts
    <2>2. published \in Seq(Nat) BY DEF TypeInv, TypeOK, MessagesOK
    <2>3. published' = Append(published, e.no) BY DEF HandsOn, Publish, e
    <2>4. Given' = Only(published', M) /\ Given = Only(published, M) BY DEF Given
    <2> HIDE DEF M
    <2>5. ASSUME NEW n \in Nat, n \in M
          PROVE  Only(Append(published, n), M) = Append(Only(published, M), n)
      BY <2>2, <2>5, OnlyAppend
    <2>6. QED BY <2>1, <2>3, <2>4, <2>5
  <1>5. QED BY <1>3, <1>4 DEF e

\* The response to "disconnect" is none of them.
LEMMA EventsStayAtTheEnd ==
    ASSUME TypeInv, Parts \/ Leaves
    PROVE  Waiting' = Waiting
  <1>1. News \in Seq(Late) /\ Disconnected \in Late /\ Disconnected \notin Raised
    BY NewsIsSeq, LateFacts
  <1>2. Waiting' = Only(News', Raised) BY DEF Waiting, Raised
  <1>3. CASE Parts
    <2>1. Only(Tail(News), Raised) = Only(News, Raised)
      BY <1>1, <1>3, OnlyFront DEF Parts
    <2>2. QED BY <1>2, <1>3, <2>1 DEF Parts, Waiting
  <1>4. CASE Leaves
    <2>1. Only(Append(News, Disconnected), Raised) = Only(News, Raised)
      BY <1>1, OnlyAppend
    <2>2. QED BY <1>2, <1>4, <2>1 DEF Leaves, Waiting
  <1>5. QED BY <1>3, <1>4

LEMMA EventIsRaised ==
    ASSUME TypeInv, NEW kind \in EventKinds, NEW t \in Concerned(kind), RaisesOne(kind, t),
           NEW e, e = Event(kind, t, raised + 1)
    PROVE  e \in Raised /\ e \in Late /\ e.no = raised + 1 /\ Waiting' = Append(Waiting, e)
  <1>1. raised + 1 \in 1 .. MaxEvents
    BY AdapterBounds DEF RaisesOne, TypeInv, TypeOK, AdapterOK
  <1>2. e \in Raised /\ e \in Late BY <1>1, RaisedNext, LateFacts
  <1>3. e.no = raised + 1 BY DEF Event
  <1>4. News \in Seq(Late) /\ News' = Append(News, e) BY NewsIsSeq DEF RaisesOne
  <1>5. Waiting' = Only(News', Raised) BY DEF Waiting, Raised
  <1>6. Only(Append(News, e), Raised) = Append(Only(News, Raised), e)
    BY <1>2, <1>4, OnlyAppend
  <1>7. QED BY <1>2, <1>3, <1>4, <1>5, <1>6 DEF Waiting

LEMMA OrderStutter ==
    ASSUME TypeInv, OrderInv, News' = News, raised' = raised,
           published' \in {published, Append(published, 0)}
    PROVE  OrderInv'
  BY EventsStay DEF OrderInv

\* The event handed on is the next one.
LEMMA OrderHandsOn ==
    ASSUME TypeInv, OrderInv, HandsOn, raised' = raised
    PROVE  OrderInv'
  <1> DEFINE w == Waiting
             g == Given
             e == Head(News)
  <1>1. w # <<>> /\ Head(w) = e /\ Waiting' = Tail(w) /\ Given' = Append(g, e.no)
    BY EventIsHandedOn
  <1>2. /\ w \in Seq(Raised) /\ Len(w) \in Nat /\ g \in Seq(Nat) /\ Len(g) \in Nat
        /\ raised \in Nat
    BY OrderTypes
  <1>3. /\ Len(g) + Len(w) = raised
        /\ \A i \in 1 .. Len(g) : g[i] = i
        /\ \A i \in 1 .. Len(w) : w[i].no = Len(g) + i
    BY DEF OrderInv
  <1> HIDE DEF w, g, e
  <1>4. Len(w) # 0 /\ w[1] = e BY <1>1, <1>2
  <1>5. e.no = Len(g) + 1
    <2>1. 1 \in 1 .. Len(w) BY <1>2, <1>4
    <2>2. w[1].no = Len(g) + 1 BY <1>3, <2>1
    <2>3. QED BY <1>4, <2>2
  <1>6. Len(Given') = Len(g) + 1 /\ \A i \in 1 .. Len(g) + 1 : Given'[i] = i
    BY <1>1, <1>2, <1>3, <1>5
  <1>7. /\ Len(Waiting') = Len(w) - 1
         /\ \A i \in 1 .. Len(w) - 1 : Waiting'[i].no = Len(g) + 1 + i
    <2>1. Len(Waiting') = Len(w) - 1 /\ \A i \in 1 .. Len(w) - 1 : Waiting'[i] = w[i + 1]
      BY <1>1, <1>2, <1>4
    <2>2. \A i \in 1 .. Len(w) - 1 : w[i + 1].no = Len(g) + 1 + i BY <1>2, <1>3
    <2>3. QED BY <2>1, <2>2
  <1>8. Len(Given') + Len(Waiting') = raised' BY <1>2, <1>3, <1>6, <1>7
  <1>9. \A i \in 1 .. Len(Given') : Given'[i] = i BY <1>6
  <1>10. \A i \in 1 .. Len(Waiting') : Waiting'[i].no = Len(Given') + i BY <1>6, <1>7
  <1>11. QED BY <1>8, <1>9, <1>10 DEF OrderInv

LEMMA OrderParts ==
    ASSUME TypeInv, OrderInv, raised' = raised, published' = published,
           Parts \/ Leaves
    PROVE  OrderInv'
  BY EventsStayAtTheEnd DEF OrderInv, Given

LEMMA OrderRaises ==
    ASSUME TypeInv, OrderInv, published' = published,
           NEW kind \in EventKinds, NEW t \in Concerned(kind), RaisesOne(kind, t)
    PROVE  OrderInv'
  <1> DEFINE w == Waiting
             g == Given
             e == Event(kind, t, raised + 1)
  <1>1. e \in Raised /\ e.no = raised + 1 /\ Waiting' = Append(w, e) BY EventIsRaised
  <1>2. /\ w \in Seq(Raised) /\ Len(w) \in Nat /\ g \in Seq(Nat) /\ Len(g) \in Nat
        /\ raised \in Nat
    BY OrderTypes
  <1>3. raised' = raised + 1 BY DEF RaisesOne
  <1> HIDE DEF e
  <1>4. Given' = g BY DEF Given
  <1>5. /\ Len(g) + Len(w) = raised
        /\ \A i \in 1 .. Len(g) : g[i] = i
        /\ \A i \in 1 .. Len(w) : w[i].no = Len(g) + i
    BY DEF OrderInv
  <1> HIDE DEF w, g
  <1>6. /\ Len(Waiting') = Len(w) + 1
        /\ \A i \in 1 .. Len(w) + 1 : Waiting'[i].no = Len(g) + i
    <2>1. /\ Len(Waiting') = Len(w) + 1 /\ Waiting'[Len(w) + 1] = e
          /\ \A i \in 1 .. Len(w) : Waiting'[i] = w[i]
      BY <1>1, <1>2
    <2>2. e.no = Len(g) + (Len(w) + 1)
      <3>1. raised + 1 = Len(g) + (Len(w) + 1) BY <1>2, <1>5
      <3>2. QED BY <1>1, <3>1
    <2>3. ASSUME NEW i \in 1 .. Len(w) + 1 PROVE Waiting'[i].no = Len(g) + i
      <3>1. CASE i = Len(w) + 1 BY <2>1, <2>2, <3>1
      <3>2. CASE i # Len(w) + 1
        <4>1. i \in 1 .. Len(w) BY <1>2, <3>2
        <4>2. QED BY <1>5, <2>1, <4>1
      <3>3. QED BY <3>1, <3>2
    <2>4. QED BY <2>1, <2>3
  <1>7. Len(Given') + Len(Waiting') = raised'
    <2>1. Len(Given') = Len(g) /\ Len(Waiting') = Len(w) + 1 BY <1>4, <1>6
    <2>2. raised' = raised + 1 /\ Len(g) + Len(w) = raised BY <1>3, <1>5
    <2>3. Len(g) \in Nat /\ Len(w) \in Nat BY <1>2
    <2>4. QED BY <2>1, <2>2, <2>3
  <1>8. \A i \in 1 .. Len(Given') : Given'[i] = i BY <1>4, <1>5
  <1>9. \A i \in 1 .. Len(Waiting') : Waiting'[i].no = Len(Given') + i BY <1>4, <1>6
  <1>10. QED BY <1>7, <1>8, <1>9 DEF OrderInv

LEMMA OrderInit ==
    Init => OrderInv
  <1> SUFFICES ASSUME Init PROVE OrderInv
    OBVIOUS
  <1>1. Pending = <<>> /\ published = <<>> /\ raised = 0
    BY DEF Init, DapInit, AdapterInit, Pending
  <1>2. Waiting = <<>> /\ Given = <<>> BY <1>1, OnlyEmpty DEF News, Waiting, Given
  <1>3. QED BY <1>1, <1>2 DEF OrderInv

LEMMA OrderStep ==
    TypeInv /\ SessionInv /\ OrderInv /\ [Next]_vars => OrderInv'
  <1> SUFFICES ASSUME TypeInv, SessionInv, OrderInv, [Next]_vars PROVE OrderInv'
    OBVIOUS
  <1>1. CASE StartSucceeds
    <2>1. News = <<>>
      BY <1>1 DEF StartSucceeds, Takes, SessionInv, Over
    <2>2. News' = <<>> BY <1>1, <2>1, NewsAtStart
    <2>3. published' = published /\ raised' = raised
      BY <1>1 DEF StartSucceeds, AdapterStarts
    <2>4. QED BY <2>1, <2>2, <2>3, OrderStutter
  <1>2. CASE Calls BY <1>2, CallsKeepNews, OrderStutter
  <1>3. CASE Dap
    <2>1. raised' = raised BY <1>3, DapLeavesAdapter DEF Dap
    <2>2. SameNews \/ HandsOn \/ Parts BY <1>3, DapNews DEF Dap
    <2>3. CASE SameNews BY <2>1, <2>3, OrderStutter DEF SameNews
    <2>4. CASE HandsOn BY <2>1, <2>4, OrderHandsOn
    <2>5. CASE Parts
      <3>1. published' = published BY <2>5 DEF Parts
      <3>2. QED BY <2>1, <2>5, <3>1, OrderParts
    <2>6. QED BY <2>2, <2>3, <2>4, <2>5
  <1>4. CASE Adapter
    <2>1. published' = published BY <1>4 DEF Adapter, dapVars
    <2>2. \/ Leaves
          \/ \E kind \in EventKinds : \E t \in Concerned(kind) : RaisesOne(kind, t)
          \/ RaisesNone
      BY <1>4, AdapterNews DEF Adapter
    <2>3. CASE Leaves
      <3>1. raised' = raised BY <2>3 DEF Leaves
      <3>2. QED BY <2>1, <2>3, <3>1, OrderParts
    <2>4. ASSUME NEW kind \in EventKinds, NEW t \in Concerned(kind), RaisesOne(kind, t)
          PROVE  OrderInv'
      BY <2>1, <2>4, OrderRaises
    <2>5. CASE RaisesNone BY <2>1, <2>5, OrderStutter DEF RaisesNone
    <2>6. QED BY <2>2, <2>3, <2>4, <2>5
  <1>5. CASE UNCHANGED vars
    <2>1. UNCHANGED <<messageQueue, adapterOut, published, raised>>
      BY <1>5 DEF vars, adapterVars, dapVars
    <2>2. News' = News BY <2>1, NewsStays DEF Pending
    <2>3. QED BY <2>1, <2>2, OrderStutter
  <1>6. QED BY <1>1, <1>2, <1>3, <1>4, <1>5 DEF Next, FrontEnd, Calls

\* The events that the adapter has raised are published in the order in which it
\* raised them, or are still waiting in that order, over all the sessions and
\* however the stream is cut into pieces (xdap_tcp_client_impl.cpp:103-143).
THEOREM OrderIsKept == Spec => []OrderInv
  BY OrderInit, OrderStep, TypesAreKept, SessionIsKept, PTL DEF Spec

\* None of them is lost, doubled or overtaken.
THEOREM EventsKeepTheirOrder == Spec => []EventsInOrder
  <1>1. TypeInv /\ OrderInv => EventsInOrder
    <2> SUFFICES ASSUME TypeInv, OrderInv PROVE EventsInOrder
      OBVIOUS
    <2> DEFINE w == Waiting
               g == Given
               numbers == [i \in DOMAIN w |-> w[i].no]
               all == [i \in 1 .. raised |-> i]
    <2>1. Underway = w BY UnderwayIsWaiting
    <2>2. /\ w \in Seq(Raised) /\ Len(w) \in Nat /\ g \in Seq(Nat) /\ Len(g) \in Nat
          /\ raised \in Nat
      BY OrderTypes
    <2>3. /\ Len(g) + Len(w) = raised
          /\ \A i \in 1 .. Len(g) : g[i] = i
          /\ \A i \in 1 .. Len(w) : w[i].no = Len(g) + i
      BY DEF OrderInv
    <2> HIDE DEF w, g
    <2>4. DOMAIN w = 1 .. Len(w) BY <2>2
    <2>5. numbers \in Seq(Nat) /\ Len(numbers) = Len(w)
          /\ \A i \in 1 .. Len(w) : numbers[i] = Len(g) + i
      <3>1. \A i \in 1 .. Len(w) : w[i].no \in Nat BY <2>2, <2>3
      <3>2. numbers = [i \in 1 .. Len(w) |-> w[i].no] BY <2>4
      <3>3. QED BY <2>2, <2>3, <3>1, <3>2
    <2>6. all \in Seq(Nat) /\ Len(all) = raised /\ \A i \in 1 .. raised : all[i] = i
      BY <2>2
    <2> HIDE DEF numbers, all
    <2>7. g \o numbers = all
      <3> DEFINE both == g \o numbers
      <3>1. /\ both \in Seq(Nat) /\ Len(both) = Len(g) + Len(numbers)
            /\ \A i \in 1 .. Len(g) + Len(numbers) :
                  both[i] = IF i <= Len(g) THEN g[i] ELSE numbers[i - Len(g)]
        BY <2>2, <2>5, ConcatProperties
      <3> HIDE DEF both
      <3>2. Len(both) = raised BY <2>3, <2>5, <3>1
      <3>3. ASSUME NEW i \in 1 .. raised PROVE both[i] = all[i]
        <4>1. CASE i <= Len(g)
          <5>1. i \in 1 .. Len(g) /\ both[i] = g[i] BY <2>2, <2>3, <2>5, <3>1, <4>1
          <5>2. QED BY <2>3, <2>6, <5>1
        <4>2. CASE i > Len(g)
          <5>1. i - Len(g) \in 1 .. Len(w) BY <2>2, <2>3, <4>2
          <5>2. both[i] = numbers[i - Len(g)] BY <2>2, <2>3, <2>5, <3>1, <4>2
          <5>3. numbers[i - Len(g)] = Len(g) + (i - Len(g)) BY <2>5, <5>1
          <5>4. Len(g) + (i - Len(g)) = i BY <2>2
          <5>5. QED BY <2>6, <5>2, <5>3, <5>4
        <4>3. QED BY <2>2, <4>1, <4>2
      <3>4. both = all BY <2>6, <3>1, <3>2, <3>3, SeqEqual
      <3>5. QED BY <3>4 DEF both
    <2>8. QED BY <2>1, <2>7 DEF EventsInOrder, numbers, all, g
  <1>2. QED BY <1>1, TypesAreKept, OrderIsKept, PTL

-----------------------------------------------------------------------------
(* The stopped threads.                                                     *)

\* Whether a thread is stopped once the events s that are about it have been
\* handled, S being the set of stopped threads before.
Settled(s, t, S) ==
    IF s = <<>> THEN t \in S ELSE s[Len(s)].kind \in {"all_stopped", "stopped"}

\* As long as the adapter is there.
FollowInv ==
    Alive => \A t \in Threads : t \in halted <=> Settled(Only(News, About(t)), t, stoppedThreads)

LEMMA SettledAppend ==
    ASSUME NEW S, NEW s \in Seq(S), NEW e \in S, NEW t, NEW T
    PROVE  Settled(Append(s, e), t, T) <=> e.kind \in {"all_stopped", "stopped"}
  <1> DEFINE r == Append(s, e)
  <1>1. Len(r) = Len(s) + 1 /\ r[Len(s) + 1] = e /\ Len(s) \in Nat /\ r \in Seq(S) OBVIOUS
  <1> HIDE DEF r
  <1>2. r # <<>> /\ r[Len(r)] = e BY <1>1
  <1>3. QED BY <1>2 DEF Settled, r

\* The first event is handled.
LEMMA SettledTail ==
    ASSUME NEW S, NEW s \in Seq(S), s # <<>>, NEW t, NEW T, NEW U,
           t \in U <=> Head(s).kind \in {"all_stopped", "stopped"}
    PROVE  Settled(Tail(s), t, U) <=> Settled(s, t, T)
  <1> DEFINE r == Tail(s)
  <1>1. /\ r \in Seq(S) /\ Len(r) = Len(s) - 1 /\ Len(s) \in Nat /\ Len(s) # 0
        /\ \A i \in 1 .. Len(r) : r[i] = s[i + 1]
    OBVIOUS
  <1> HIDE DEF r
  <1>2. CASE Len(s) = 1
    <2>1. r = <<>> /\ Head(s) = s[Len(s)] BY <1>1, <1>2
    <2>2. QED BY <2>1 DEF Settled, r
  <1>3. CASE Len(s) # 1
    <2>1. Len(r) \in 1 .. Len(r) BY <1>1, <1>3
    <2>2. Len(r) + 1 = Len(s) BY <1>1
    <2>3. r[Len(r)] = s[Len(s)] BY <1>1, <2>1, <2>2
    <2>4. r # <<>> BY <1>1, <1>3
    <2>5. QED BY <2>3, <2>4 DEF Settled, r
  <1>4. QED BY <1>2, <1>3

LEMMA AboutIsRaised ==
    ASSUME NEW t
    PROVE  About(t) \subseteq Raised /\ About(t) \subseteq Late /\ Disconnected \notin About(t)
  BY LateFacts DEF About

\* What the adapter does to a thread when it raises an event, and what the
\* callback does to it when it handles the event, is the same.
LEMMA EventActs ==
    ASSUME NEW e \in Raised, NEW t \in Threads, stoppedThreads \subseteq Threads
    PROVE  /\ e \in About(t) =>
                 /\ t \in HandleEvent(e.kind, e.thread) <=> e.kind \in {"all_stopped", "stopped"}
                 /\ t \in After(e.kind, e.thread) <=> e.kind \in {"all_stopped", "stopped"}
           /\ e \notin About(t) =>
                 /\ t \in HandleEvent(e.kind, e.thread) <=> t \in stoppedThreads
                 /\ t \in After(e.kind, e.thread) <=> t \in halted
  <1>1. e.kind \in EventKinds /\ EventKinds \subseteq {"output", "all_stopped", "all_continued", "stopped", "continued"}
    BY RaisedFacts, AdapterBounds
  <1>2. e \in About(t) <=> \/ e.kind \in {"all_stopped", "all_continued"}
                           \/ e.kind \in {"stopped", "continued"} /\ e.thread = t
    BY DEF About
  <1>3. CASE e.kind = "output" BY <1>2, <1>3 DEF HandleEvent, After
  <1>4. CASE e.kind = "all_stopped" BY <1>2, <1>4 DEF HandleEvent, After
  <1>5. CASE e.kind = "all_continued" BY <1>2, <1>5 DEF HandleEvent, After
  <1>6. CASE e.kind = "stopped" BY <1>2, <1>6 DEF HandleEvent, After
  <1>7. CASE e.kind = "continued" BY <1>2, <1>7 DEF HandleEvent, After
  <1>8. QED BY <1>1, <1>3, <1>4, <1>5, <1>6, <1>7

LEMMA FollowStutter ==
    ASSUME FollowInv, News' = News, halted' = halted, stoppedThreads' = stoppedThreads,
           Alive' => Alive
    PROVE  FollowInv'
  BY DEF FollowInv, About, Raised

LEMMA FollowHandsOn ==
    ASSUME TypeInv, FollowInv, HandsOn, UNCHANGED <<adapter, halted>>
    PROVE  FollowInv'
  <1> SUFFICES ASSUME Alive, NEW t \in Threads
               PROVE  t \in halted <=> Settled(Only(News', About(t)), t, stoppedThreads')
    BY DEF FollowInv, Alive, About, Raised
  <1> DEFINE A == About(t)
             s == Only(News, A)
             e == Head(News)
  <1>1. News \in Seq(Late) /\ News # <<>> /\ News' = Tail(News) /\ e \in Raised
    BY NewsIsSeq DEF HandsOn
  <1>2. stoppedThreads' = HandleEvent(e.kind, e.thread) BY DEF HandsOn, Publish
  <1>3. t \in halted <=> Settled(s, t, stoppedThreads) BY DEF FollowInv
  <1>4. stoppedThreads \subseteq Threads BY DEF TypeInv, TypeOK, DapOK
  <1>5. s \in Seq(Late) BY <1>1, OnlyIsSeq
  <1> HIDE DEF e
  <1>6. CASE e \in A
    <2>1. s # <<>> /\ Head(s) = e /\ Only(News', A) = Tail(s)
      BY <1>1, <1>6, OnlyFront DEF e
    <2>2. t \in stoppedThreads' <=> e.kind \in {"all_stopped", "stopped"}
      BY <1>1, <1>2, <1>4, <1>6, EventActs
    <2> HIDE DEF s, A
    <2>3. Settled(Tail(s), t, stoppedThreads') <=> Settled(s, t, stoppedThreads)
      BY <1>5, <2>1, <2>2, SettledTail
    <2>4. QED BY <1>3, <2>1, <2>3 DEF A
  <1>7. CASE e \notin A
    <2>1. Only(News', A) = s BY <1>1, <1>7, OnlyFront DEF e
    <2>2. t \in stoppedThreads' <=> t \in stoppedThreads
      BY <1>1, <1>2, <1>4, <1>7, EventActs
    <2> HIDE DEF s, A
    <2>3. Settled(s, t, stoppedThreads') <=> Settled(s, t, stoppedThreads) BY <2>2 DEF Settled
    <2>4. QED BY <1>3, <2>1, <2>3 DEF A
  <1>8. QED BY <1>6, <1>7

LEMMA FollowRaises ==
    ASSUME TypeInv, FollowInv, Alive, stoppedThreads' = stoppedThreads,
           NEW kind \in EventKinds, NEW u \in Concerned(kind), RaisesOne(kind, u)
    PROVE  FollowInv'
  <1> SUFFICES ASSUME NEW t \in Threads
               PROVE  t \in halted' <=> Settled(Only(News', About(t)), t, stoppedThreads)
    BY DEF FollowInv, About, Raised
  <1> DEFINE A == About(t)
             s == Only(News, A)
             e == Event(kind, u, raised + 1)
  <1>1. e \in Raised /\ e \in Late /\ e.kind = kind /\ e.thread = u
    <2>1. raised + 1 \in 1 .. MaxEvents
      BY AdapterBounds DEF RaisesOne, TypeInv, TypeOK, AdapterOK
    <2>2. e \in Raised BY <2>1, RaisedNext
    <2>3. QED BY <2>2, LateFacts DEF Event
  <1>2. News \in Seq(Late) /\ News' = Append(News, e) /\ halted' = After(kind, u)
    BY NewsIsSeq DEF RaisesOne
  <1>3. t \in halted <=> Settled(s, t, stoppedThreads) BY DEF FollowInv
  <1>4. stoppedThreads \subseteq Threads BY DEF TypeInv, TypeOK, DapOK
  <1>5. s \in Seq(Late) BY <1>2, OnlyIsSeq
  <1> HIDE DEF e
  <1>6. Only(News', A) = IF e \in A THEN Append(s, e) ELSE s
    BY <1>1, <1>2, OnlyAppend
  <1>7. /\ e \in A => (t \in halted' <=> e.kind \in {"all_stopped", "stopped"})
        /\ e \notin A => (t \in halted' <=> t \in halted)
    BY <1>1, <1>2, <1>4, EventActs
  <1> HIDE DEF s, A
  <1>8. CASE e \in A
    <2>1. Settled(Append(s, e), t, stoppedThreads) <=> e.kind \in {"all_stopped", "stopped"}
      BY <1>1, <1>5, SettledAppend
    <2>2. QED BY <1>6, <1>7, <1>8, <2>1 DEF A
  <1>9. CASE e \notin A BY <1>3, <1>6, <1>7, <1>9 DEF A
  <1>10. QED BY <1>8, <1>9

LEMMA FollowStep ==
    TypeInv /\ SessionInv /\ FollowInv /\ [Next]_vars => FollowInv'
  <1> SUFFICES ASSUME TypeInv, SessionInv, FollowInv, [Next]_vars PROVE FollowInv'
    OBVIOUS
  <1>1. CASE StartSucceeds
    <2>1. News = <<>> /\ stoppedThreads = {}
      BY <1>1 DEF StartSucceeds, Takes, SessionInv, Over
    <2>2. News' = <<>> BY <1>1, <2>1, NewsAtStart
    <2>3. stoppedThreads' = {} /\ halted' = {}
      BY <1>1, <2>1 DEF StartSucceeds, AdapterStarts
    <2>4. \A T : Only(News', T) = <<>> BY <2>2, OnlyEmpty
    <2>5. QED BY <2>3, <2>4 DEF FollowInv, Settled
  <1>2. CASE Calls
    <2>1. News' = News /\ UNCHANGED <<adapter, halted>> BY <1>2, CallsKeepNews
    <2>2. CASE Stops
      <3>1. ~Alive BY <2>2 DEF Stops, SessionInv, Over, Alive
      <3>2. QED BY <2>1, <3>1 DEF FollowInv, Alive
    <2>3. CASE ~Stops
      <3>1. stoppedThreads' = stoppedThreads
        BY <1>2, <2>3 DEF Calls, Control, Starts, SendsRequest, ReceivesReply, AnswersAtOnce, Forwards
      <3>2. QED BY <2>1, <3>1, FollowStutter DEF Alive
    <2>4. QED BY <2>2, <2>3
  <1>3. CASE Dap
    <2>1. UNCHANGED <<adapter, halted>> BY <1>3, DapLeavesAdapter DEF Dap
    <2>2. SameNews \/ HandsOn \/ Parts BY <1>3, DapNews DEF Dap
    <2>3. CASE SameNews BY <2>1, <2>3, FollowStutter DEF SameNews, Alive
    <2>4. CASE HandsOn BY <2>1, <2>4, FollowHandsOn
    <2>5. CASE Parts
      <3>1. News \in Seq(Late) /\ News # <<>> /\ Head(News) = Disconnected
        BY <2>5, NewsIsSeq DEF Parts
      <3>2. News[1] = Disconnected /\ 1 \in 1 .. Len(News) BY <3>1
      <3>3. adapter = "gone" BY <3>2 DEF SessionInv, LastWord
      <3>4. QED BY <2>1, <3>3 DEF FollowInv, Alive
    <2>6. QED BY <2>2, <2>3, <2>4, <2>5
  <1>4. CASE Adapter
    <2>1. stoppedThreads' = stoppedThreads BY <1>4 DEF Adapter
    <2>2. /\ Alive
          /\ \/ Leaves
             \/ \E kind \in EventKinds : \E t \in Concerned(kind) : RaisesOne(kind, t)
             \/ RaisesNone
      BY <1>4, AdapterNews DEF Adapter
    <2>3. CASE Leaves BY <2>3 DEF Leaves, FollowInv, Alive
    <2>4. ASSUME NEW kind \in EventKinds, NEW t \in Concerned(kind), RaisesOne(kind, t)
          PROVE  FollowInv'
      BY <2>1, <2>2, <2>4, FollowRaises
    <2>5. CASE RaisesNone BY <2>1, <2>2, <2>5, FollowStutter DEF RaisesNone
    <2>6. QED BY <2>2, <2>3, <2>4, <2>5
  <1>5. CASE UNCHANGED vars
    <2>1. UNCHANGED <<messageQueue, adapterOut, adapter, halted, stoppedThreads>>
      BY <1>5 DEF vars, adapterVars, dapVars
    <2>2. News' = News BY <2>1, NewsStays DEF Pending
    <2>3. QED BY <2>1, <2>2, FollowStutter DEF Alive
  <1>6. QED BY <1>1, <1>2, <1>3, <1>4, <1>5 DEF Next, FrontEnd, Calls

\* As long as the adapter is there, handling the events that are on their way
\* makes the set of stopped threads the adapter's own, thread by thread
\* (xdebugger_base.cpp:256-285).
THEOREM FollowIsKept == Spec => []FollowInv
  <1>1. Init => FollowInv BY DEF Init, AdapterInit, FollowInv, Alive
  <1>2. QED BY <1>1, FollowStep, TypesAreKept, SessionIsKept, PTL DEF Spec

\* The set of stopped threads is that of the adapter once no event about a
\* thread is left, and is about to be while there is one.
THEOREM StoppedThreadsAreKnown == Spec => []StoppedThreadsFollow
  <1>1. TypeInv /\ FollowInv => StoppedThreadsFollow
    <2> SUFFICES ASSUME TypeInv, FollowInv, adapter = "attached", NEW t \in Threads
                 PROVE  t \in halted <=> Settled(Only(Pending, About(t)), t, stoppedThreads)
      BY DEF StoppedThreadsFollow, Settled
    <2>1. Only(Pending, About(t)) = Only(News, About(t)) BY NewsHasEvents, AboutIsRaised
    <2>2. QED BY <2>1 DEF FollowInv, Alive
  <1>2. QED BY <1>1, TypesAreKept, FollowIsKept, PTL

-----------------------------------------------------------------------------
(* The session, as the front end sees it.                                   *)

\* Which command is being processed.
CommandInv ==
    /\ ctl # "idle" => command \in Commands
    /\ ctl = "stopping" => command = "disconnect"

LEMMA CommandStep ==
    CommandInv /\ [Next]_vars => CommandInv'
  <1> SUFFICES ASSUME CommandInv, [Next]_vars PROVE CommandInv'
    OBVIOUS
  <1> USE DEF CommandInv
  <1>1. CASE StartSucceeds BY <1>1, DebuggerBounds DEF StartSucceeds, Takes
  <1>2. ASSUME NEW c \in Commands, AnswersAtOnce(c) \/ Forwards(c) PROVE CommandInv'
    BY <1>2 DEF AnswersAtOnce, Forwards, Takes
  <1>3. CASE Control
    BY <1>3 DEF Control, Starts, SendsRequest, ReceivesReply, Stops
  <1>4. CASE UNCHANGED ctlVars BY <1>4 DEF ctlVars
  <1>5. QED BY <1>1, <1>2, <1>3, <1>4 DEF Next, FrontEnd, Dap, Adapter, vars

THEOREM CommandIsKept == Spec => []CommandInv
  <1>1. Init => CommandInv BY DEF Init, CommandInv
  <1>2. QED BY <1>1, CommandStep, PTL DEF Spec

\* A step of the abstract debugger, or none.
SessionMoves == [Session!Next]_(Session!vars)

\* What the parts of the abstract state depend on.
LEMMA EventsAreMapped ==
    ASSUME TypeInv, TypeInv', Waiting' = Waiting, Given' = Given,
           stoppedThreads' = stoppedThreads
    PROVE  UNCHANGED Session!eventVars
  BY UnderwayIsWaiting, UnderwayIsWaitingNext DEF Session!eventVars

LEMMA StartOpens ==
    ASSUME TypeInv, TypeInv', SessionInv, StartSucceeds
    PROVE  SessionMoves
  <1>1. /\ ctl = "idle" /\ ~isStarted /\ issued < MaxRequests
        /\ issued' = issued + 1 /\ command' = "initialize"
        /\ ctl' = "starting" /\ isStarted' = isStarted
        /\ published' = published /\ stoppedThreads' = stoppedThreads
    BY DEF StartSucceeds, Takes
  <1>2. News = <<>> BY <1>1 DEF SessionInv, Over
  <1>3. News' = News BY <1>2, NewsAtStart
  <1>4. UNCHANGED Session!eventVars BY <1>1, <1>3, EventsStay, EventsAreMapped
  <1>5. Session!Open
    BY <1>1, <1>4 DEF Session!Open, Session!Ask, Doing, Answered, SessionOpen
  <1>6. QED BY <1>5 DEF SessionMoves, Session!Next

\* The session is open while anything of it is left.
LEMMA OpenUntilOver ==
    ASSUME SessionInv, ~Over
    PROVE  SessionOpen
  BY DEF SessionInv, SessionOpen

LEMMA CallsMove ==
    ASSUME TypeInv, TypeInv', ExchangeInv, SessionInv, CommandInv, Calls
    PROVE  SessionMoves
  <1>1. News' = News /\ published' = published BY CallsKeepNews
  <1>2. Waiting' = Waiting /\ Given' = Given BY <1>1, EventsStay
  <1>3. Underway' = Underway BY <1>2, UnderwayIsWaiting, UnderwayIsWaitingNext
  <1>4. stoppedThreads' = stoppedThreads => UNCHANGED Session!eventVars
    BY <1>2, EventsAreMapped
  <1>5. ASSUME NEW c \in Commands, AnswersAtOnce(c) PROVE SessionMoves
    <2>1. /\ ctl = "idle" /\ issued < MaxRequests /\ issued' = issued + 1 /\ command' = c
          /\ ctl' = IF c = "disconnect" THEN "stopping" ELSE "idle"
          /\ isStarted' = isStarted /\ stoppedThreads' = stoppedThreads
          /\ c = "debugInfo" \/ ~isStarted
      BY <1>5 DEF AnswersAtOnce, Takes
    <2>2. CASE c = "disconnect"
      <3>1. Session!Quit
        BY <1>4, <2>1, <2>2 DEF Session!Quit, Session!Ask, Doing, Answered, SessionOpen
      <3>2. QED BY <3>1 DEF SessionMoves, Session!Next
    <2>3. CASE c # "disconnect"
      <3>1. Session!AnswerAtOnce
        BY <1>4, <2>1, <2>3 DEF Session!AnswerAtOnce, Session!Ask, Doing, Answered, SessionOpen
      <3>2. QED BY <3>1 DEF SessionMoves, Session!Next
    <2>4. QED BY <2>2, <2>3
  <1>6. ASSUME NEW c \in Commands, Forwards(c) PROVE SessionMoves
    <2>1. Session!PassOn(c)
      BY <1>4, <1>6 DEF Forwards, Takes, Session!PassOn, Session!Ask, Doing, Answered, SessionOpen
    <2>2. QED BY <2>1 DEF SessionMoves, Session!Next
  <1>7. CASE Starts \/ SendsRequest
    <2>1. UNCHANGED <<command, issued, stoppedThreads>> BY <1>7 DEF Starts, SendsRequest
    <2>2. UNCHANGED <<Doing, Answered, SessionOpen>>
      BY <1>7 DEF Starts, SendsRequest, Doing, Answered, SessionOpen, SessionInv
    <2>3. QED BY <1>4, <2>1, <2>2 DEF SessionMoves, Session!vars, Session!requestVars
  <1>8. CASE ReceivesReply
    <2>1. /\ ctl = "request" /\ request.phase = "reply" /\ request.body = command
          /\ command \in Commands
          /\ ctl' = IF command = "disconnect" THEN "stopping" ELSE "idle"
          /\ UNCHANGED <<command, issued, isStarted, stoppedThreads>>
      BY <1>8 DEF ReceivesReply, ExchangeInv, ChannelInv, CommandInv
    <2>2. CASE command = "disconnect"
      <3>1. UNCHANGED <<Doing, Answered, SessionOpen>>
        BY <2>1, <2>2 DEF Doing, Answered, SessionOpen
      <3>2. QED BY <1>4, <2>1, <3>1 DEF SessionMoves, Session!vars, Session!requestVars
    <2>3. CASE command # "disconnect"
      <3>1. Session!Return
        BY <1>4, <2>1, <2>3, DebuggerBounds DEF Session!Return, Doing, Answered, SessionOpen
      <3>2. QED BY <3>1 DEF SessionMoves, Session!Next
    <2>4. QED BY <2>2, <2>3
  <1>9. CASE Stops
    <2>1. Session!Close
      BY <1>2, <1>3, <1>9 DEF Stops, CommandInv, Session!Close, Doing, Answered, SessionOpen
    <2>2. QED BY <2>1 DEF SessionMoves, Session!Next
  <1>10. QED BY <1>5, <1>6, <1>7, <1>8, <1>9 DEF Calls, Control

\* A reply waits until it has been received.
LEMMA DapKeepsReply ==
    ASSUME DapStep, request.phase = "reply"
    PROVE  request' = request
  BY DEF DapStep, Handshake, Poll, HandleControlSocket, Read, KeepsWaiting, AskThreads,
         ForwardStopped, ForwardEvent, ForwardResponse, EndTurn, SendConfigurationDone,
         ReceiveConfigurationDone, FinishAttach, Receives, Reply, linkVars

\* What the DAP client replies is the answer to the request being processed,
\* and that to "disconnect" comes when no event is left.
LEMMA DapAnswers ==
    ASSUME TypeInv, TypeInv', ExchangeInv', SessionInv, SessionInv', CommandInv, Dap,
           UNCHANGED Session!eventVars
    PROVE  SessionMoves
  <1>1. UNCHANGED <<ctl, command, issued, isStarted>> BY DEF Dap, ctlVars
  <1>2. UNCHANGED <<Doing, SessionOpen, issued>> BY <1>1 DEF Doing, SessionOpen
  <1>3. CASE Answered' = Answered
    BY <1>2, <1>3 DEF SessionMoves, Session!vars, Session!requestVars
  <1>4. CASE Answered' # Answered
    <2>1. ctl = "request" BY <1>1, <1>4 DEF Answered
    <2>2. request.phase # "reply" BY <1>1, <1>4, DapKeepsReply DEF Dap, Answered
    <2>3. request'.phase = "reply" BY <1>1, <1>4, <2>1, <2>2 DEF Answered
    <2>4. request'.body = command BY <1>1, <2>1 DEF ExchangeInv, ChannelInv
    <2>5. Answered = "none" /\ Answered' = Doing /\ Doing = command
      BY <1>1, <2>1, <2>2, <2>3, <2>4 DEF Answered, Doing
    <2>6. Doing # "none" BY <2>1, <2>5, DebuggerBounds DEF CommandInv
    <2>7. SessionOpen BY <2>1 DEF SessionInv, SessionOpen
    <2>8. Doing = "disconnect" => Underway = <<>>
      <3> SUFFICES ASSUME Doing = "disconnect" PROVE Underway = <<>>
        OBVIOUS
      <3>1. News' = <<>> BY <1>1, <2>1, <2>3, <2>4, <2>5 DEF SessionInv, Over
      <3>2. Waiting' = Only(News', Raised) BY DEF Waiting, Raised
      <3>3. Waiting' = <<>> BY <3>1, <3>2, OnlyEmpty
      <3>4. Underway' = <<>> BY <3>3, UnderwayIsWaitingNext
      <3>5. QED BY <3>4 DEF Session!eventVars
    <2>9. Session!Answer
      BY <1>2, <2>5, <2>6, <2>7, <2>8 DEF Session!Answer
    <2>10. QED BY <2>9 DEF SessionMoves, Session!Next
  <1>5. QED BY <1>3, <1>4

LEMMA EventIsShown ==
    ASSUME TypeInv, TypeInv', SessionInv, Dap, HandsOn, request' = request
    PROVE  SessionMoves
  <1> DEFINE e == Head(News)
  <1>1. e \in Raised /\ stoppedThreads' = HandleEvent(e.kind, e.thread)
    BY DEF HandsOn, Publish
  <1>2. UNCHANGED <<ctl, command, issued, isStarted, request>> BY DEF Dap, ctlVars
  <1>3. UNCHANGED <<issued, Doing, Answered, SessionOpen>> BY <1>2 DEF Doing, Answered, SessionOpen
  <1>4. /\ Underway # <<>> /\ Head(Underway) = e /\ Underway' = Tail(Underway)
        /\ Given' = Append(Given, e.no)
    BY EventIsHandedOn, UnderwayIsWaiting, UnderwayIsWaitingNext
  <1>5. SessionOpen BY OpenUntilOver DEF HandsOn, Over
  <1> HIDE DEF e
  <1>6. stoppedThreads' = {t \in Threads : IF Session!Concerns(e, t)
                                           THEN e.kind \in {"all_stopped", "stopped"}
                                           ELSE t \in stoppedThreads}
    <2>1. stoppedThreads \subseteq Threads /\ stoppedThreads' \subseteq Threads
      BY DEF TypeInv, TypeOK, DapOK
    <2>2. \A t \in Threads : Session!Concerns(e, t) <=> e \in About(t)
      BY <1>1 DEF Session!Concerns, About
    <2>3. \A t \in Threads :
              t \in stoppedThreads' <=> IF e \in About(t) THEN e.kind \in {"all_stopped", "stopped"}
                                        ELSE t \in stoppedThreads
      BY <1>1, <2>1, EventActs
    <2>4. QED BY <2>1, <2>2, <2>3
  <1>7. Session!Show
    BY <1>3, <1>4, <1>5, <1>6 DEF Session!Show, Session!requestVars
  <1>8. QED BY <1>7 DEF SessionMoves, Session!Next

LEMMA DapMoves ==
    ASSUME TypeInv, TypeInv', ExchangeInv', SessionInv, SessionInv', CommandInv, Dap
    PROVE  SessionMoves
  <1>1. CASE SameNews
    <2>1. UNCHANGED Session!eventVars
      BY <1>1, EventsStay, EventsAreMapped DEF SameNews
    <2>2. QED BY <2>1, DapAnswers
  <1>2. CASE Parts
    <2>1. Given' = Given /\ stoppedThreads' = stoppedThreads BY <1>2 DEF Parts, Given
    <2>2. UNCHANGED Session!eventVars BY <1>2, <2>1, EventsStayAtTheEnd, EventsAreMapped
    <2>3. QED BY <2>2, DapAnswers
  <1>3. CASE HandsOn /\ request' = request BY <1>3, EventIsShown
  <1>4. QED BY <1>1, <1>2, <1>3, DapNews DEF Dap

LEMMA AdapterMoves ==
    ASSUME TypeInv, TypeInv', SessionInv, CommandInv, OrderInv, Adapter
    PROVE  SessionMoves
  <1>1. UNCHANGED <<ctl, command, issued, isStarted, request, published, stoppedThreads>>
    BY DEF Adapter, ctlVars, dapVars, linkVars
  <1>2. UNCHANGED <<issued, Doing, Answered, SessionOpen>> BY <1>1 DEF Doing, Answered, SessionOpen
  <1>3. Given' = Given BY <1>1 DEF Given
  <1>4. CASE Waiting' = Waiting
    <2>1. UNCHANGED Session!eventVars BY <1>1, <1>3, <1>4, EventsAreMapped
    <2>2. QED BY <1>2, <2>1 DEF SessionMoves, Session!vars, Session!requestVars
  <1>5. ASSUME NEW kind \in EventKinds, NEW t \in Concerned(kind), RaisesOne(kind, t)
        PROVE  SessionMoves
    <2> DEFINE e == Event(kind, t, raised + 1)
    <2>1. e \in Raised /\ e.no = raised + 1 /\ Waiting' = Append(Waiting, e)
      BY <1>5, EventIsRaised
    <2> HIDE DEF e
    <2>2. Underway' = Append(Underway, e) BY <2>1, UnderwayIsWaiting, UnderwayIsWaitingNext
    <2>3. e.no = Len(Given) + Len(Underway) + 1 BY <2>1, UnderwayIsWaiting DEF OrderInv
    <2>4. ~Over BY AdapterNews DEF Adapter, Over, Alive
    <2>5. SessionOpen BY <2>4, OpenUntilOver
    <2>6. Answered # "disconnect" BY <2>4 DEF Answered, SessionInv
    <2>7. Session!Raise(e)
      BY <1>1, <1>2, <1>3, <2>2, <2>3, <2>5, <2>6 DEF Session!Raise, Session!requestVars
    <2>8. QED BY <2>1, <2>7 DEF SessionMoves, Session!Next
  <1>6. CASE Leaves BY <1>4, <1>6, EventsStayAtTheEnd
  <1>7. CASE RaisesNone
    <2>1. Waiting' = Waiting BY <1>7 DEF RaisesNone, Waiting, Raised
    <2>2. QED BY <1>4, <2>1
  <1>8. QED BY <1>5, <1>6, <1>7, AdapterNews DEF Adapter

LEMMA StepMoves ==
    ASSUME TypeInv, TypeInv', ExchangeInv, ExchangeInv', SessionInv, SessionInv',
           CommandInv, OrderInv, [Next]_vars
    PROVE  SessionMoves
  <1>1. CASE StartSucceeds BY <1>1, StartOpens
  <1>2. CASE Calls BY <1>2, CallsMove
  <1>3. CASE Dap BY <1>3, DapMoves
  <1>4. CASE Adapter BY <1>4, AdapterMoves
  <1>5. CASE UNCHANGED vars
    <2>1. UNCHANGED <<ctl, command, issued, isStarted, request, published, stoppedThreads,
                      messageQueue, adapterOut>>
      BY <1>5 DEF vars, ctlVars, adapterVars, dapVars, linkVars
    <2>2. UNCHANGED <<Doing, Answered, SessionOpen>> BY <2>1 DEF Doing, Answered, SessionOpen
    <2>3. News' = News BY <2>1, NewsStays DEF Pending
    <2>4. UNCHANGED Session!eventVars BY <2>1, <2>3, EventsStay, EventsAreMapped
    <2>5. QED BY <2>1, <2>2, <2>4 DEF SessionMoves, Session!vars, Session!requestVars
  <1>6. QED BY <1>1, <1>2, <1>3, <1>4, <1>5 DEF Next, FrontEnd, Calls

\* Two threads and an adapter that exchange messages through four sockets, two
\* queues and a stream are, for the front end, one debugger that opens a session,
\* answers each request once, shows each event once and in its order, keeps the
\* set of stopped threads of the events shown, and closes the session when all
\* of them have been (xdebugger_base.cpp:256-285, 351-424,
\* xdap_tcp_client_impl.cpp:41-143, 359-412).
THEOREM SessionRefinement == Spec => ImplementsSession
  <1>1. Init => Session!Init
    <2> SUFFICES ASSUME Init PROVE Session!Init
      OBVIOUS
    <2>1. Pending = <<>> /\ published = <<>> BY DEF Init, DapInit, AdapterInit, Pending
    <2>2. Underway = <<>> /\ Given = <<>> BY <2>1, OnlyEmpty DEF Underway, Given
    <2>3. QED
      BY <2>2 DEF Session!Init, Init, DapInit, Doing, Answered, SessionOpen
  <1>2. /\ TypeInv /\ ExchangeInv /\ SessionInv /\ CommandInv /\ OrderInv
        /\ TypeInv' /\ ExchangeInv' /\ SessionInv'
        /\ [Next]_vars
        => [Session!Next]_(Session!vars)
    BY StepMoves DEF SessionMoves
  <1>3. QED
    BY <1>1, <1>2, TypesAreKept, ExchangeIsKept, SessionIsKept, CommandIsKept, OrderIsKept, PTL
    DEF Spec, ImplementsSession, Session!Spec

-----------------------------------------------------------------------------
(* Who waits for whom.                                                      *)

\* The session is at its end: the response to "disconnect" is waited for, in one
\* of some phases, or has been received.
Leaving(phases) ==
    \/ ctl = "request" /\ command = "disconnect" /\ request.phase \in phases
    \/ ctl = "stopping"
    \/ ctl = "idle" /\ ~isStarted

\* The thread of the DAP client and the adapter are there as long as a request
\* may come, and the queue is empty between two turns of the loop.
EndInv ==
    /\ requestStop => dap \in {"processing", "threads"}
    /\ requestStop \/ dap \in {"unborn", "done"} => Leaving({"reply"})
    /\ adapter \in {"off", "gone"} => Leaving({"serving", "reply"})
    /\ adapter = "off" => dap = "unborn"
    /\ dap \in {"unborn", "done", "handshake", "polling"} => messageQueue = <<>>

Attaching == {"initialized", "configurationDone", "attach"}

Serves(c) == request.phase = "serving" /\ request.body = c

\* The attach sequence and the adapter keep step.
AttachInv ==
    /\ dap \in Attaching <=> waitAttach /\ Serves("attach")
    /\ waitAttach => parallel
    /\ waitAttach /\ dap \notin Attaching => adapter \in {"running", "gone", "dead"}
    /\ parallel /\ adapter = "running" => /\ waitAttach \/ dap = "handshake"
                                          /\ Count(Pending, {Initialized}) = 0
    /\ dap \in {"handshake", "initialized"} => adapter \in {"running", "attaching", "dead"}
    /\ dap = "configurationDone" => adapter \in {"attaching", "attached", "dead"}
    /\ dap = "attach" => adapter \in {"attached", "dead"}
    /\ adapter = "attaching" =>
           \/ dap = "initialized" /\ Count(Pending, {Initialized}) # 0
           \/ dap = "configurationDone" /\ Count(Pending, {Response("configurationDone")}) = 0

\* What the DAP client waits for is on its way or owed by the adapter.
DueInv ==
    ~overwritten /\ adapter # "dead" => \A c \in Words : Asked(c) <= Owed(c)

\* A read without anything to read has one of three reasons: the attach sequence
\* has taken what the poll had found, the poll had found the announcement of the
\* connection, or the adapter is no more; and one that has left has not left the
\* request unread that made it leave.
ReadingInv ==
    /\ dap = "reading" =>
           \/ parallel /\ ~waitAttach
           \/ messageQueue = <<>> /\ (adapterOut = <<>> => notice \/ ~Alive)
    /\ adapter = "gone" /\ request.phase = "serving" => Count(adapterIn, {"disconnect"}) = 0

\* A request on its way to the adapter is one that somebody waits for.
LEMMA CommandIsAsked ==
    ASSUME TypeInv, ExchangeInv, adapterIn # <<>>
    PROVE  LET c == Head(adapterIn) IN
           c \in Words /\ (Serves(c) \/ (dap = c /\ c \in {"threads", "configurationDone"}))
  <1> DEFINE c == Head(adapterIn)
  <1>1. adapterIn \in Seq(Words) BY DEF TypeInv, TypeOK, MessagesOK
  <1>2. c \in Words /\ Tail(adapterIn) \in Seq(Words) BY <1>1, HeadThenTail
  <1>3. Count(Tail(adapterIn), {c}) = Count(adapterIn, {c}) - 1 BY <1>1, CountTail
  <1> HIDE DEF c
  <1>4. Count(Tail(adapterIn), {c}) \in Nat BY <1>2, CountNat
  <1>5. Count(Pending, {Response(c)}) \in Nat /\ Count(adapterIn, {c}) \in Nat BY OwedNat
  <1>6. Owed(c) > 0 BY <1>3, <1>4, <1>5 DEF Owed
  <1>7. Owed(c) <= Asked(c) BY <1>2 DEF ExchangeInv, OwedInv
  <1>8. Owed(c) \in Int /\ Asked(c) \in Int BY <1>5 DEF Owed, Asked
  <1>9. Asked(c) > 0 BY <1>6, <1>7, <1>8
  <1>10. QED BY <1>2, <1>9 DEF Asked, Serves, c

\* Requests are served in one state of the control thread only.
LEMMA ServesAtRequest ==
    ASSUME TypeInv, ChannelInv, NEW c, Serves(c)
    PROVE  ctl = "request" /\ command = c
  BY DEF TypeInv, TypeOK, CtlState, ChannelInv, Serves

\* The calls of the control thread do not look at the DAP client or the adapter.
LEMMA CallsLeaveDap ==
    Calls => UNCHANGED <<adapter, adapterIn, dap, parallel, waitAttach, requestStop,
                         notice, messageQueue, adapterOut, overwritten>>
  <1>1. ASSUME NEW c \in Commands, AnswersAtOnce(c) \/ Forwards(c)
        PROVE  UNCHANGED <<adapterVars, dapVars>>
    BY <1>1 DEF AnswersAtOnce, Forwards
  <1>2. Control => UNCHANGED <<adapterVars, dapVars>>
    BY DEF Control, Starts, SendsRequest, ReceivesReply, Stops
  <1>3. QED BY <1>1, <1>2 DEF Calls, adapterVars, dapVars

\* They neither serve a request nor stop serving it.
LEMMA CallsLeaveServed ==
    ASSUME ChannelInv, Calls
    PROVE  request' = request \/ "serving" \notin {request.phase, request'.phase}
  BY DEF ChannelInv, Calls, AnswersAtOnce, Forwards, Control, Starts, SendsRequest, ReceivesReply,
         Stops, IdleSocket, linkVars

\* A request that is served is served until it has been replied to.
LEMMA DapReplies ==
    ASSUME DapStep, request.phase \in {"serving", "reply"}
    PROVE  request' = request \/ request'.phase = "reply"
  BY DEF DapStep, Handshake, Poll, HandleControlSocket, Read, KeepsWaiting, AskThreads,
         ForwardStopped, ForwardEvent, ForwardResponse, EndTurn, SendConfigurationDone,
         ReceiveConfigurationDone, FinishAttach, Receives, Reply, linkVars

\* The session stays at its end until another one starts.
LEMMA LeavingStays ==
    ASSUME NEW phases, phases \in {{"reply"}, {"serving", "reply"}}, Leaving(phases),
           Calls \/ Dap \/ Adapter
    PROVE  Leaving(phases)'
  <1>1. CASE Calls
    <2>1. ASSUME NEW c \in Commands, AnswersAtOnce(c) \/ Forwards(c) PROVE Leaving(phases)'
      BY <2>1 DEF AnswersAtOnce, Forwards, Takes, Leaving
    <2>2. Control => Leaving(phases)'
      BY DEF Control, Starts, SendsRequest, ReceivesReply, Stops, Leaving
    <2>3. QED BY <1>1, <2>1, <2>2 DEF Calls
  <1>2. CASE Dap
    BY <1>2, DapReplies DEF Dap, ctlVars, Leaving
  <1>3. CASE Adapter
    BY <1>3 DEF Adapter, ctlVars, linkVars, Leaving
  <1>4. QED BY <1>1, <1>2, <1>3

LEMMA EndInit ==
    Init => EndInv
  BY DEF Init, DapInit, AdapterInit, EndInv, Leaving

LEMMA EndDap ==
    TypeInv /\ ExchangeInv /\ ChannelInv' /\ EndInv /\ Dap => EndInv'
  <1> SUFFICES ASSUME TypeInv, ExchangeInv, ChannelInv', EndInv, Dap PROVE EndInv'
    OBVIOUS
  <1> USE DEF EndInv
  <1>0. /\ adapter' = adapter
        /\ Leaving({"reply"}) => Leaving({"reply"})'
        /\ Leaving({"serving", "reply"}) => Leaving({"serving", "reply"})'
    BY DapLeavesAdapter, LeavingStays DEF Dap
  <1>1. ASSUME dap \notin {"unborn", "done", "handshake", "polling"},
               dap' \notin {"unborn", "done", "handshake", "polling"},
               requestStop' => requestStop /\ dap' \in {"processing", "threads"}
        PROVE  EndInv'
    BY <1>0, <1>1
  <1>2. CASE Handshake
    BY <1>0, <1>2 DEF Handshake
  <1>3. CASE Poll
    BY <1>0, <1>3 DEF Poll
  <1>4. CASE Read \/ \E w \in Awaited : KeepsWaiting(w)
    BY <1>1, <1>4 DEF Read, KeepsWaiting, Awaited
  <1>5. CASE AskThreads \/ ForwardStopped
    BY <1>1, <1>5 DEF AskThreads, ForwardStopped, Receives
  <1>6. CASE ForwardEvent
    BY <1>1, <1>6 DEF ForwardEvent
  <1>7. CASE ForwardResponse
    <2> DEFINE c == Head(messageQueue).command
    <2>1. /\ dap = "processing" /\ Reply(c, dap)
          /\ requestStop' = (requestStop \/ c = "disconnect")
      BY <1>7 DEF ForwardResponse
    <2>2. c \in Words /\ Head(messageQueue) = Response(c)
      BY <1>7, FrontIsMessage DEF ForwardResponse, TypeInv, TypeOK, MessagesOK, Queues
    <2> HIDE DEF c
    <2>3. /\ request.phase = "serving" /\ dap' = dap
          /\ request' = [phase |-> "reply", body |-> c]
      BY <2>1 DEF Reply, ChannelInv
    <2>4. c = "disconnect" => Leaving({"reply"})'
      <3>1. ctl' = "request" /\ request'.body = command'
        <4>1. ctl = "request" BY <2>3, ServesAtRequest DEF Serves, ExchangeInv
        <4>2. QED BY <4>1 DEF Dap, ctlVars, ChannelInv
      <3>2. QED BY <2>3, <3>1 DEF Leaving
    <2>5. QED BY <1>0, <2>1, <2>3, <2>4
  <1>8. CASE EndTurn
    BY <1>0, <1>8 DEF EndTurn
  <1>9. CASE SendConfigurationDone \/ ReceiveConfigurationDone
    BY <1>1, <1>9 DEF SendConfigurationDone, ReceiveConfigurationDone, Receives
  <1>10. CASE FinishAttach
    <2>1. dap = "attach" /\ requestStop' = requestStop BY <1>10 DEF FinishAttach, Receives
    <2>2. dap' \in {"reading", "processing"} BY <1>10 DEF FinishAttach, Reply, ChannelInv
    <2>3. QED BY <1>1, <2>1, <2>2
  <1>11. QED
    BY <1>2, <1>3, <1>4, <1>5, <1>6, <1>7, <1>8, <1>9, <1>10 DEF Dap, DapStep

LEMMA EndAdapter ==
    TypeInv /\ ExchangeInv /\ EndInv /\ Adapter => EndInv'
  <1> SUFFICES ASSUME TypeInv, ExchangeInv, EndInv, Adapter PROVE EndInv'
    OBVIOUS
  <1>1. UNCHANGED <<dap, requestStop, messageQueue>> BY DEF Adapter, dapVars
  <1>2. /\ Leaving({"reply"}) => Leaving({"reply"})'
        /\ Leaving({"serving", "reply"}) => Leaving({"serving", "reply"})'
    BY LeavingStays
  <1>3. adapter' # "off" /\ (adapter' = "gone" => Leaving({"serving", "reply"}))
    <2>1. CASE AdapterAnswers(parallel)
      <3> DEFINE c == Head(adapterIn)
      <3>1. Alive /\ adapterIn # <<>> /\ adapter' = Answers(c, parallel).to
        BY <2>1 DEF AdapterAnswers
      <3>2. PICK m \in Answers(c, parallel).messages : TRUE BY <2>1 DEF AdapterAnswers
      <3>3. IF c = "disconnect" THEN adapter' = "gone" ELSE adapter' \notin {"gone", "off"}
        BY <3>1, <3>2, AnswerCases DEF Alive
      <3>4. c = "disconnect" => Serves("disconnect") BY <3>1, CommandIsAsked
      <3>5. QED BY <3>3, <3>4, ServesAtRequest DEF ExchangeInv, Leaving, Serves
    <2>2. CASE AdapterRefuses BY <2>2 DEF AdapterRefuses
    <2>3. ASSUME NEW kind \in EventKinds, NEW t \in Concerned(kind), AdapterRaises(kind, t)
          PROVE  adapter' \notin {"gone", "off"}
      BY <2>3 DEF AdapterRaises, Alive
    <2>4. CASE AdapterDies BY <2>4 DEF AdapterDies
    <2>5. QED BY <2>1, <2>2, <2>3, <2>4 DEF Adapter, AdapterStep
  <1>4. QED BY <1>1, <1>2, <1>3 DEF EndInv

LEMMA EndStep ==
    TypeInv /\ ExchangeInv /\ ChannelInv' /\ EndInv /\ [Next]_vars => EndInv'
  <1> SUFFICES ASSUME TypeInv, ExchangeInv, ChannelInv', EndInv, [Next]_vars PROVE EndInv'
    OBVIOUS
  <1>1. CASE StartSucceeds
    <2>1. /\ adapter' = "running" /\ dap' = "handshake"
          /\ dap \in {"unborn", "done"} /\ UNCHANGED <<requestStop, messageQueue>>
      BY <1>1 DEF StartSucceeds, AdapterStarts
    <2>2. QED BY <2>1 DEF EndInv
  <1>2. CASE Calls
    <2>1. /\ Leaving({"reply"}) => Leaving({"reply"})'
          /\ Leaving({"serving", "reply"}) => Leaving({"serving", "reply"})'
      BY <1>2, LeavingStays
    <2>2. QED BY <1>2, <2>1, CallsLeaveDap DEF EndInv
  <1>3. CASE Dap BY <1>3, EndDap
  <1>4. CASE Adapter BY <1>4, EndAdapter
  <1>5. CASE UNCHANGED vars
    BY <1>5 DEF vars, ctlVars, adapterVars, dapVars, linkVars, EndInv, Leaving
  <1>6. QED BY <1>1, <1>2, <1>3, <1>4, <1>5 DEF Next, FrontEnd, Calls

-----------------------------------------------------------------------------
\* The thread of the DAP client returns only when the response to "disconnect"
\* has been passed on, and with an empty queue (xdap_tcp_client_impl.cpp:170-201,
\* 354-376).
THEOREM EndIsKept == Spec => []EndInv
  <1>1. ExchangeInv => ChannelInv BY DEF ExchangeInv
  <1>2. QED BY <1>1, EndInit, EndStep, TypesAreKept, ExchangeIsKept, PTL DEF Spec

-----------------------------------------------------------------------------
(* The attach sequence and the adapter.                                     *)

Configured == Response("configurationDone")

\* How the adapter comes from one state to the next.
Turns ==
    \/ adapter' = "dead"
    \/ adapter' = "gone" /\ Serves("disconnect")
    \/ /\ adapter = "running" /\ parallel /\ adapter' = "attaching"
       /\ Serves("attach")
       /\ Count(Pending', {Initialized}) # 0
    \/ adapter = "running" /\ ~parallel /\ adapter' = "attached" /\ Serves("attach")
    \/ /\ adapter = "attaching" /\ adapter' = "attached"
       /\ Serves("configurationDone") \/ dap = "configurationDone"

\* It stays where it is, and sends nothing that would make the attach sequence
\* go on.
Remains ==
    /\ adapter' = adapter
    /\ Count(Pending', {Initialized}) = Count(Pending, {Initialized})
    /\ adapter = "attaching" => Count(Pending', {Configured}) = Count(Pending, {Configured})

LEMMA OneMessageMore ==
    ASSUME TypeInv, messageQueue' = messageQueue, NEW x \in Message,
           adapterOut' = adapterOut \o <<x>>, NEW m
    PROVE  Count(Pending', {m}) = Count(Pending, {m}) + (IF x = m THEN 1 ELSE 0)
  <1>1. Pending \in Seq(Message) BY PendingIsSeq
  <1>2. <<x>> \in Seq(Message) OBVIOUS
  <1> DEFINE s == <<x>>
  <1>3. s \in Seq(Message) /\ adapterOut' = adapterOut \o s BY <1>2
  <1>4. Count(s, {m}) = IF x \in {m} THEN 1 ELSE 0 BY CountOne
  <1> HIDE DEF s
  <1>5. Pending' = Pending \o s BY <1>3, PendingSent
  <1>6. Count(Pending \o s, {m}) = Count(Pending, {m}) + Count(s, {m}) BY <1>1, <1>3, CountConcat
  <1>7. QED BY <1>4, <1>5, <1>6

\* The answer to each command.
LEMMA AnswerByState ==
    ASSUME NEW c, NEW p
    PROVE  /\ c = "attach" /\ adapter = "running" =>
                Answers(c, p) = IF p THEN [to |-> "attaching", messages |-> {<<Initialized>>}]
                                ELSE [to |-> "attached", messages |-> {<<Initialized, Response(c)>>}]
           /\ c = "configurationDone" /\ adapter = "attaching" => Answers(c, p).to = "attached"
           /\ c = "disconnect" => Answers(c, p).to = "gone"
           /\ /\ ~ (c = "attach" /\ adapter = "running")
              /\ ~ (c = "configurationDone" /\ adapter = "attaching")
              /\ c # "disconnect"
              => Answers(c, p) = [to |-> adapter, messages |-> {<<Response(c)>>}]
  BY DEF Answers

LEMMA AdapterTurns ==
    ASSUME TypeInv, ExchangeInv, Adapter
    PROVE  Remains \/ Turns
  <1>1. messageQueue' = messageQueue BY DEF Adapter, dapVars
  <1>n. Count(Pending, {Initialized}) \in Nat /\ Count(Pending, {Configured}) \in Nat
    BY PendingIsSeq, CountNat
  <1>2. ASSUME NEW x \in Message, adapterOut' = adapterOut \o <<x>>, adapter' = adapter,
               x # Initialized, adapter = "attaching" => x # Configured
        PROVE  Remains
    <2>1. ASSUME NEW m
          PROVE  Count(Pending', {m}) = Count(Pending, {m}) + (IF x = m THEN 1 ELSE 0)
      BY <1>1, <1>2, OneMessageMore
    <2>2. Count(Pending', {Initialized}) = Count(Pending, {Initialized}) + 0 BY <1>2, <2>1
    <2>3. adapter = "attaching" => Count(Pending', {Configured}) = Count(Pending, {Configured}) + 0
      BY <1>2, <2>1
    <2>4. QED BY <1>2, <1>n, <2>2, <2>3 DEF Remains
  <1>3. CASE AdapterAnswers(parallel)
    <2> DEFINE c == Head(adapterIn)
    <2>1. Alive /\ adapterIn # <<>> /\ adapter' = Answers(c, parallel).to
      BY <1>3 DEF AdapterAnswers
    <2>2. PICK m \in Answers(c, parallel).messages : adapterOut' = adapterOut \o m
      BY <1>3 DEF AdapterAnswers
    <2>3. c \in Words /\ (Serves(c) \/ (dap = c /\ c \in {"threads", "configurationDone"}))
      BY <2>1, CommandIsAsked
    <2> HIDE DEF c
    <2>4. CASE c = "attach" /\ adapter = "running"
      <3>1. CASE parallel
        <4>1. Answers(c, parallel) = [to |-> "attaching", messages |-> {<<Initialized>>}]
          BY <2>4, <3>1, AnswerByState
        <4>0. m = <<Initialized>> /\ adapter' = "attaching" BY <2>1, <4>1
        <4>2. adapterOut' = adapterOut \o <<Initialized>> /\ adapter' = "attaching"
          BY <2>2, <4>0
        <4>3. Count(Pending', {Initialized}) = Count(Pending, {Initialized}) + 1
          <5>1. Initialized \in Message BY MessageFacts
          <5> DEFINE x == Initialized
          <5>2. x \in Message /\ adapterOut' = adapterOut \o <<x>> BY <4>2, <5>1
          <5> HIDE DEF x
          <5>3. Count(Pending', {x}) = Count(Pending, {x}) + (IF x = x THEN 1 ELSE 0)
            BY <1>1, <5>2, OneMessageMore
          <5>4. QED BY <5>3 DEF x
        <4>4. Count(Pending', {Initialized}) # 0 BY <1>n, <4>3
        <4>5. QED BY <2>3, <2>4, <3>1, <4>2, <4>4 DEF Turns
      <3>2. CASE ~parallel
        <4>1. Answers(c, parallel) = [to |-> "attached", messages |-> {<<Initialized, Response(c)>>}]
          BY <2>4, <3>2, AnswerByState
        <4>2. adapter' = "attached" BY <2>1, <4>1
        <4>3. QED BY <2>3, <2>4, <3>2, <4>2 DEF Turns
      <3>3. QED BY <3>1, <3>2
    <2>5. CASE c = "configurationDone" /\ adapter = "attaching"
      <3>1. adapter' = "attached" BY <2>1, <2>5, AnswerByState
      <3>2. QED BY <2>3, <2>5, <3>1 DEF Turns
    <2>6. CASE c = "disconnect"
      <3>1. adapter' = "gone" BY <2>1, <2>6, AnswerByState
      <3>2. QED BY <2>3, <2>6, <3>1 DEF Turns
    <2>7. CASE /\ ~ (c = "attach" /\ adapter = "running")
               /\ ~ (c = "configurationDone" /\ adapter = "attaching")
               /\ c # "disconnect"
      <3>1. Answers(c, parallel) = [to |-> adapter, messages |-> {<<Response(c)>>}]
        BY <2>7, AnswerByState
      <3>0. m = <<Response(c)>> /\ adapter' = adapter BY <2>1, <3>1
      <3>2. adapter' = adapter /\ adapterOut' = adapterOut \o <<Response(c)>> BY <2>2, <3>0
      <3>3. /\ Response(c) \in Message /\ Response(c) # Initialized
            /\ adapter = "attaching" => Response(c) # Configured
        BY <2>3, <2>7, MessageFacts DEF Configured
      <3>4. QED BY <1>2, <3>2, <3>3
    <2>8. QED BY <2>4, <2>5, <2>6, <2>7
  <1>4. CASE AdapterRefuses
    <2> DEFINE e == Response("attach")
    <2>1. /\ e \in Message /\ e # Initialized
          /\ adapter = "running" /\ adapter' = adapter /\ adapterOut' = Append(adapterOut, e)
      BY <1>4, MessageFacts, CommandIsWord DEF AdapterRefuses, Awaited
    <2> HIDE DEF e
    <2>2. adapterOut' = adapterOut \o <<e>>
      BY <2>1, AppendIsConcat DEF TypeInv, TypeOK, MessagesOK, Queues
    <2>3. QED BY <1>2, <2>1, <2>2
  <1>5. ASSUME NEW kind \in EventKinds, NEW t \in Concerned(kind), AdapterRaises(kind, t)
        PROVE  Remains
    <2> DEFINE e == Event(kind, t, raised + 1)
    <2>1. raised + 1 \in 1 .. MaxEvents
      BY <1>5, AdapterBounds DEF AdapterRaises, TypeInv, TypeOK, AdapterOK
    <2>2. e \in Message /\ e # Initialized /\ e # Configured
      <3>1. e \in Raised BY <2>1, RaisedNext
      <3>2. QED BY <3>1, MessageFacts DEF Configured
    <2>3. adapter' = adapter /\ adapterOut' = Append(adapterOut, e)
      BY <1>5 DEF AdapterRaises
    <2> HIDE DEF e
    <2>4. adapterOut' = adapterOut \o <<e>>
      BY <2>2, <2>3, AppendIsConcat DEF TypeInv, TypeOK, MessagesOK, Queues
    <2>5. QED BY <1>2, <2>2, <2>3, <2>4
  <1>6. CASE AdapterDies BY <1>6 DEF AdapterDies, Turns
  <1>7. QED BY <1>3, <1>4, <1>5, <1>6 DEF Adapter, AdapterStep

LEMMA AttachAdapter ==
    TypeInv /\ ExchangeInv /\ EndInv /\ AttachInv /\ Adapter => AttachInv'
  <1> SUFFICES ASSUME TypeInv, ExchangeInv, EndInv, AttachInv, Adapter PROVE AttachInv'
    OBVIOUS
  <1> USE DEF AttachInv
  <1>1. UNCHANGED <<dap, waitAttach, parallel, request>> BY DEF Adapter, dapVars, linkVars
  <1>2. Serves("attach")' <=> Serves("attach") BY <1>1 DEF Serves
  <1>3. dap \in {"handshake"} \union Attaching => ~Serves("disconnect")
    BY DEF Serves, ExchangeInv, ChannelInv, Attaching
  <1>4. CASE Remains BY <1>1, <1>2, <1>4 DEF Remains, Configured
  <1>5. CASE adapter' = "dead" BY <1>1, <1>2, <1>5
  <1>6. CASE adapter' = "gone" /\ Serves("disconnect")
    BY <1>1, <1>2, <1>3, <1>6 DEF Attaching
  <1>7. CASE /\ adapter = "running" /\ parallel /\ adapter' = "attaching"
             /\ Serves("attach") /\ Count(Pending', {Initialized}) # 0
    <2>1. dap # "handshake" BY <1>7 DEF Serves, ExchangeInv, ChannelInv
    <2>2. dap = "initialized" BY <1>7, <2>1 DEF Attaching
    <2>3. QED BY <1>1, <1>2, <1>7, <2>2 DEF Attaching
  <1>8. CASE adapter = "running" /\ ~parallel /\ adapter' = "attached" /\ Serves("attach")
    <2>1. dap # "handshake" BY <1>8 DEF Serves, ExchangeInv, ChannelInv
    <2>2. QED BY <1>1, <1>2, <1>8, <2>1 DEF Attaching
  <1>9. CASE /\ adapter = "attaching" /\ adapter' = "attached"
             /\ Serves("configurationDone") \/ dap = "configurationDone"
    <2>1. dap = "configurationDone" BY <1>9 DEF Attaching, Serves
    <2>2. QED BY <1>1, <1>2, <1>9, <2>1 DEF Attaching
  <1>10. QED BY <1>4, <1>5, <1>6, <1>7, <1>8, <1>9, AdapterTurns DEF Turns

\* The DAP client takes messages only.
LEMMA FewerPending ==
    ASSUME TypeInv, TypeInv', DapStep, NEW m
    PROVE  /\ Count(Pending', {m}) <= Count(Pending, {m})
           /\ Count(Pending', {m}) \in Nat /\ Count(Pending, {m}) \in Nat
  <1>1. Pending \in Seq(Message) /\ Pending' \in Seq(Message)
    BY ConcatProperties DEF TypeInv, TypeOK, MessagesOK, Queues, Pending
  <1>2. Count(Pending', {m}) \in Nat /\ Count(Pending, {m}) \in Nat BY <1>1, CountNat
  <1>3. ASSUME NEW w \in Awaited, NEW left,
               Count(left, {m}) \in Nat,
               \A T : Expected(w) \notin T => Only(left, T) = Only(Pending, T),
               Count(left, {Expected(w)}) < Count(Pending, {Expected(w)})
        PROVE  Count(left, {m}) <= Count(Pending, {m})
    <2>1. CASE m = Expected(w) BY <1>2, <1>3, <2>1
    <2>2. CASE m # Expected(w)
      <3>1. Expected(w) \notin {m} BY <2>2
      <3>2. Count(left, {m}) = Count(Pending, {m}) BY <1>3, <3>1 DEF Count
      <3>3. QED BY <1>2, <3>2
    <2>3. QED BY <2>1, <2>2
  <1>4. CASE \/ Handshake \/ Poll \/ Read \/ (\E w \in Awaited : KeepsWaiting(w))
             \/ AskThreads \/ EndTurn
    BY <1>2, <1>4, PendingStays
  <1>5. CASE ForwardEvent \/ ForwardResponse
    <2>1. Pending # <<>> /\ Pending' = Tail(Pending) BY <1>5, PendingHanded
    <2>2. Count(Pending', {m}) = Count(Pending, {m}) - (IF Head(Pending) \in {m} THEN 1 ELSE 0)
      BY <1>1, <2>1, CountTail
    <2>3. QED BY <1>2, <2>2
  <1>6. CASE ForwardStopped
    <2>1. PICK left \in Seq(Message) :
              /\ \A T : Expected("threads") \notin T => Only(left, T) = Only(Pending, T)
              /\ Count(left, {Expected("threads")}) < Count(Pending, {Expected("threads")})
              /\ left # <<>> /\ Pending' = Tail(left)
      BY <1>6, PendingStopped
    <2>2. "threads" \in Awaited /\ Count(left, {m}) \in Nat BY CountNat DEF Awaited
    <2>3. Count(left, {m}) <= Count(Pending, {m}) BY <1>3, <2>1, <2>2
    <2>4. Count(Pending', {m}) = Count(left, {m}) - (IF Head(left) \in {m} THEN 1 ELSE 0)
      BY <2>1, CountTail
    <2>5. QED BY <1>2, <2>2, <2>3, <2>4
  <1>7. CASE SendConfigurationDone \/ ReceiveConfigurationDone \/ FinishAttach
    <2>1. PICK w \in Awaited : \E o : Receives(w, o) /\ messageQueue' = o.queue
      BY <1>7 DEF SendConfigurationDone, ReceiveConfigurationDone, FinishAttach, Awaited
    <2>2. /\ \A T : Expected(w) \notin T => Only(Pending', T) = Only(Pending, T)
          /\ Count(Pending', {Expected(w)}) < Count(Pending, {Expected(w)})
      BY <2>1, PendingReceived
    <2>3. QED BY <1>2, <1>3, <2>2
  <1>8. QED BY <1>2, <1>4, <1>5, <1>6, <1>7 DEF DapStep

\* What has been received was there.
LEMMA ReceivedWasThere ==
    ASSUME TypeInv, TypeInv', DapStep, NEW w \in Awaited, NEW o, Receives(w, o), messageQueue' = o.queue
    PROVE  dap = w /\ Count(Pending, {Expected(w)}) # 0
  <1>1. Count(Pending', {Expected(w)}) < Count(Pending, {Expected(w)}) BY PendingReceived
  <1>2. Count(Pending', {Expected(w)}) \in Nat /\ Count(Pending, {Expected(w)}) \in Nat
    BY FewerPending
  <1>3. QED BY <1>1, <1>2 DEF Receives

\* Outside the attach sequence the DAP client leaves what AttachInv is about alone.
LEMMA AttachKept ==
    ASSUME TypeInv, TypeInv', AttachInv, DapStep,
           waitAttach' = waitAttach,
           Serves("attach")' <=> Serves("attach"),
           dap \notin {"handshake"} \union Attaching, dap' \notin {"handshake"} \union Attaching
    PROVE  AttachInv'
  <1>1. adapter' = adapter BY DapLeavesAdapter
  <1>2. parallel' = parallel
    BY DEF DapStep, Handshake, Poll, Read, KeepsWaiting, AskThreads, ForwardStopped, ForwardEvent,
           ForwardResponse, EndTurn, SendConfigurationDone, ReceiveConfigurationDone, FinishAttach,
           Receives
  <1>3. Count(Pending, {Initialized}) = 0 => Count(Pending', {Initialized}) = 0
    <2>1. /\ Count(Pending', {Initialized}) <= Count(Pending, {Initialized})
          /\ Count(Pending', {Initialized}) \in Nat
      BY FewerPending
    <2>2. QED BY <2>1
  <1>4. QED BY <1>1, <1>2, <1>3 DEF AttachInv, Attaching

LEMMA AttachDap ==
    TypeInv /\ TypeInv' /\ ExchangeInv /\ ChannelInv' /\ EndInv /\ AttachInv /\ Dap => AttachInv'
  <1> SUFFICES ASSUME TypeInv, TypeInv', ExchangeInv, ChannelInv', EndInv, AttachInv, Dap
               PROVE AttachInv'
    OBVIOUS
  <1>0. DapStep /\ adapter' = adapter BY DapLeavesAdapter DEF Dap
  <1>f. /\ Count(Pending, {Initialized}) = 0 => Count(Pending', {Initialized}) = 0
        /\ Count(Pending, {Configured}) = 0 => Count(Pending', {Configured}) = 0
    BY <1>0, FewerPending
  <1>s. ASSUME Serves("attach") PROVE ctl = "request" /\ dap # "handshake"
    BY <1>s, ServesAtRequest DEF ExchangeInv, ChannelInv
  <1> USE DEF AttachInv
  <1>1. CASE Handshake
    <2>1. /\ dap = "handshake" /\ dap' = "polling" /\ waitAttach' = parallel /\ parallel' = parallel
          /\ request'.phase = "reply"
      BY <1>1 DEF Handshake
    <2>2. adapter \in {"running", "dead"} BY <2>1 DEF Attaching
    <2>3. ~Serves("attach")' BY <2>1 DEF Serves
    <2>4. QED BY <1>0, <1>f, <2>1, <2>2, <2>3 DEF Attaching
  <1>2. CASE Poll
    <2>1. /\ dap = "polling" /\ UNCHANGED <<waitAttach, parallel>>
          /\ StartsAttach => dap' = "initialized"
          /\ ~StartsAttach => dap' \in {"reading", "processing"}
      BY <1>2 DEF Poll
    <2>2. IF request.phase = "request" THEN request'.phase = "serving" /\ request'.body = request.body
                                       ELSE request' = request
      BY <1>2 DEF Poll, HandleControlSocket, TypeInv, TypeOK, MessagesOK
    <2>3. CASE StartsAttach
      <3>1. waitAttach /\ Serves("attach")' /\ dap' = "initialized"
        BY <2>1, <2>2, <2>3 DEF StartsAttach, Serves
      <3>2. adapter # "gone"
        <4>1. request.phase = "request" /\ request.body = "attach" BY <2>3 DEF StartsAttach
        <4>2. ~Leaving({"serving", "reply"})
          BY <2>1, <4>1 DEF Leaving, ExchangeInv, ChannelInv
        <4>3. QED BY <4>2 DEF EndInv
      <3>3. adapter \in {"running", "dead"} BY <2>1, <3>1, <3>2 DEF Attaching
      <3>4. QED BY <1>0, <1>f, <2>1, <3>1, <3>3 DEF Attaching
    <2>4. CASE ~StartsAttach
      <3>1. waitAttach /\ Serves("attach")' => Serves("attach")
        BY <2>2, <2>4 DEF StartsAttach, Serves
      <3>2. dap' \in {"reading", "processing"} BY <2>1, <2>4
      <3>3. ~(waitAttach /\ Serves("attach")) BY <2>1 DEF Attaching
      <3>4. QED BY <1>0, <1>f, <2>1, <3>1, <3>2, <3>3 DEF Attaching
    <2>5. QED BY <2>3, <2>4
  <1>3. CASE Read \/ AskThreads \/ ForwardEvent \/ EndTurn \/ ForwardStopped
    <2>1. waitAttach' = waitAttach /\ request' = request
          /\ {dap, dap'} \subseteq {"reading", "processing", "threads", "polling", "done"}
      BY <1>3 DEF Read, AskThreads, ForwardEvent, EndTurn, ForwardStopped, Receives, linkVars
    <2>2. QED BY <1>0, <2>1, AttachKept DEF Serves, Attaching
  <1>4. ASSUME NEW w \in Awaited, KeepsWaiting(w) PROVE AttachInv'
    <2>1. waitAttach' = waitAttach /\ request' = request /\ dap' = dap /\ parallel' = parallel
      BY <1>4 DEF KeepsWaiting, linkVars
    <2>2. Pending' = Pending BY <1>4, WaitingKeepsPending
    <2>3. QED BY <1>0, <2>1, <2>2 DEF Serves, Attaching
  <1>5. CASE ForwardResponse
    <2>1. waitAttach' = waitAttach /\ dap = "processing" /\ dap' = dap /\ request'.phase = "reply"
      BY <1>5 DEF ForwardResponse, Reply, ChannelInv
    <2>2. ~(waitAttach /\ Serves("attach")) BY <2>1 DEF Attaching
    <2>3. ~Serves("attach")' BY <2>1 DEF Serves
    <2>4. parallel' = parallel BY <1>5 DEF ForwardResponse
    <2>5. QED BY <1>0, <1>f, <2>1, <2>2, <2>3, <2>4 DEF Attaching
  <1>6. CASE SendConfigurationDone
    <2>1. PICK o : Receives("initialized", o) /\ messageQueue' = o.queue
      BY <1>6 DEF SendConfigurationDone
    <2>2. /\ dap' = "configurationDone" /\ UNCHANGED <<request, waitAttach, parallel>>
      BY <1>6, <2>1 DEF SendConfigurationDone, Receives
    <2>3. dap = "initialized" /\ Count(Pending, {Initialized}) # 0
      BY <1>0, <2>1, ReceivedWasThere DEF Awaited, Expected
    <2>4. waitAttach /\ Serves("attach") /\ parallel /\ adapter \in {"attaching", "dead"}
      BY <2>3 DEF Attaching
    <2>5. Count(Pending, {Configured}) = 0
      <3>1. "configurationDone" \in Words BY DEF Words
      <3>2. QED BY <2>3, <2>4, <3>1, FrontIsServed DEF Configured, Serves
    <2>6. QED BY <1>0, <1>f, <2>2, <2>4, <2>5 DEF Attaching, Serves, Configured
  <1>7. CASE ReceiveConfigurationDone
    <2>1. PICK o : Receives("configurationDone", o) /\ messageQueue' = o.queue
      BY <1>7 DEF ReceiveConfigurationDone
    <2>2. dap' = "attach" /\ UNCHANGED <<request, waitAttach, parallel>>
      BY <1>7, <2>1 DEF ReceiveConfigurationDone, Receives
    <2>3. dap = "configurationDone" /\ Count(Pending, {Configured}) # 0
      BY <1>0, <2>1, ReceivedWasThere DEF Awaited, Expected, Configured
    <2>4. waitAttach /\ Serves("attach") /\ parallel /\ adapter \in {"attached", "dead"}
      BY <2>3 DEF Attaching, Configured
    <2>5. QED BY <1>0, <1>f, <2>2, <2>4 DEF Attaching, Serves
  <1>8. CASE FinishAttach
    <2>1. PICK o : Receives("attach", o) /\ messageQueue' = o.queue
      BY <1>8 DEF FinishAttach
    <2>2. dap = "attach" /\ parallel' = parallel /\ ~waitAttach'
      BY <1>8, <2>1 DEF FinishAttach, Receives
    <2>3. dap' \in {"reading", "processing"} BY <1>8 DEF FinishAttach, Reply, ChannelInv
    <2>4. adapter \in {"attached", "dead"} BY <2>2
    <2>5. QED BY <1>0, <1>f, <2>2, <2>3, <2>4 DEF Attaching
  <1>9. QED
    BY <1>0, <1>1, <1>2, <1>3, <1>4, <1>5, <1>6, <1>7, <1>8 DEF DapStep

LEMMA AttachInit ==
    Init => AttachInv
  <1> SUFFICES ASSUME Init PROVE AttachInv
    OBVIOUS
  <1>1. Pending = <<>> BY DEF Init, DapInit, AdapterInit, Pending
  <1>2. QED BY <1>1, CountEmpty DEF Init, DapInit, AdapterInit, AttachInv, Attaching, Serves, IdleSocket

LEMMA AttachStep ==
    TypeInv /\ TypeInv' /\ ExchangeInv /\ ChannelInv' /\ EndInv /\ AttachInv /\ [Next]_vars
        => AttachInv'
  <1> SUFFICES ASSUME TypeInv, TypeInv', ExchangeInv, ChannelInv', EndInv, AttachInv, [Next]_vars
               PROVE AttachInv'
    OBVIOUS
  <1>1. CASE StartSucceeds
    <2>1. /\ dap \in {"unborn", "done"} /\ dap' = "handshake" /\ adapter' = "running"
          /\ request'.phase = "request" /\ UNCHANGED <<waitAttach, parallel, messageQueue>>
          /\ adapterOut' = <<>>
      BY <1>1 DEF StartSucceeds, AdapterStarts
    <2>2. messageQueue = <<>> BY <2>1 DEF EndInv
    <2>3. Pending' = <<>> BY <2>1, <2>2 DEF Pending
    <2>4. Count(Pending', {Initialized}) = 0 BY <2>3, CountEmpty
    <2>5. QED BY <2>1, <2>4 DEF AttachInv, Attaching, Serves
  <1>2. CASE Calls
    <2>1. UNCHANGED <<adapter, dap, waitAttach, parallel>> /\ Pending' = Pending
      BY <1>2, CallsLeaveDap, PendingStays DEF Calls
    <2>2. Serves("attach")' <=> Serves("attach")
      BY <1>2, CallsLeaveServed DEF ExchangeInv, Serves
    <2>3. QED BY <2>1, <2>2 DEF AttachInv
  <1>3. CASE Dap BY <1>3, AttachDap
  <1>4. CASE Adapter BY <1>4, AttachAdapter
  <1>5. CASE UNCHANGED vars
    <2>1. UNCHANGED <<adapter, dap, waitAttach, parallel, request>> /\ Pending' = Pending
      BY <1>5 DEF vars, adapterVars, dapVars, linkVars, Pending
    <2>2. QED BY <2>1 DEF AttachInv, Serves
  <1>6. QED BY <1>1, <1>2, <1>3, <1>4, <1>5 DEF Next, FrontEnd, Calls

-----------------------------------------------------------------------------
\* The DAP client waits for a response of the attach sequence only when the
\* adapter is in the state to give it; but it may wait for the "initialized" of
\* an adapter that has refused (xdap_tcp_client_impl.cpp:378-412).
THEOREM AttachIsKept == Spec => []AttachInv
  <1>1. ExchangeInv => ChannelInv BY DEF ExchangeInv
  <1>2. QED
    BY <1>1, AttachInit, AttachStep, TypesAreKept, ExchangeIsKept, EndIsKept, PTL DEF Spec

-----------------------------------------------------------------------------
(* Nobody waits for what does not come.                                     *)

LEMMA DueInit ==
    Init => DueInv
  <1> SUFFICES ASSUME Init PROVE DueInv
    OBVIOUS
  <1>1. Pending = <<>> /\ adapterIn = <<>> /\ adapter = "off"
    BY DEF Init, DapInit, AdapterInit, Pending
  <1>2. \A c \in Words : Owed(c) = 0 BY <1>1, CountEmpty DEF Owed
  <1>3. \A c \in Words : Asked(c) = 0 BY DEF Init, DapInit, Asked, IdleSocket
  <1>4. QED BY <1>2, <1>3 DEF DueInv

LEMMA DueStays ==
    ASSUME DueInv,
           ~overwritten' /\ adapter' # "dead"
               => /\ ~overwritten /\ adapter # "dead"
                  /\ \A c \in Words : Owed(c)' = Owed(c) /\ Asked(c)' = Asked(c)
    PROVE  DueInv'
  BY DEF DueInv

\* What is asked for and what is owed grow and shrink together.
LEMMA DueBalance ==
    ASSUME TypeInv, TypeInv', adapter' = adapter, NEW c \in Words, Balances(c),
           ~overwritten', Asked(c) <= Owed(c)
    PROVE  Asked(c)' <= Owed(c)'
  <1>1. Count(Pending, {Response(c)}) \in Nat /\ Count(adapterIn, {c}) \in Nat BY OwedNat
  <1>2. Count(Pending', {Response(c)}) \in Nat /\ Count(adapterIn', {c}) \in Nat
    <2>1. Pending' \in Seq(Message) /\ adapterIn' \in Seq(Words)
      BY ConcatProperties DEF TypeInv, TypeOK, MessagesOK, Queues, Pending
    <2>2. QED BY <2>1, CountNat
  <1>3. Asked(c) \in Int /\ Asked(c)' \in Int BY DEF Asked
  <1> DEFINE a == IF adapter = "attaching" /\ c = "attach" THEN 1 ELSE 0
  <1>4. a \in Int /\ a' = a OBVIOUS
  <1>5. /\ Owed(c) = Count(Pending, {Response(c)}) + Count(adapterIn, {c}) + a
        /\ Owed(c)' = Count(Pending', {Response(c)}) + Count(adapterIn', {c}) + a'
    BY DEF Owed
  <1> HIDE DEF a
  <1>6. Count(Pending', {Response(c)}) + Count(adapterIn', {c}) + Asked(c)
            = Count(Pending, {Response(c)}) + Count(adapterIn, {c}) + Asked(c)'
    BY DEF Balances
  <1>7. QED BY <1>1, <1>2, <1>3, <1>4, <1>5, <1>6

\* An adapter that leaves does so for the request that is served.
LEMMA LeavesInTurn ==
    ASSUME TypeInv, ExchangeInv, AttachInv, Adapter, adapter = "attaching"
    PROVE  adapter' # "gone"
  <1>1. Serves("attach") BY DEF AttachInv, Attaching
  <1>2. ~Serves("disconnect") BY <1>1 DEF Serves
  <1>3. QED BY <1>2, AdapterTurns DEF Remains, Turns

LEMMA DueStep ==
    TypeInv /\ TypeInv' /\ ExchangeInv /\ ChannelInv' /\ AttachInv /\ DueInv /\ [Next]_vars => DueInv'
  <1> SUFFICES ASSUME TypeInv, TypeInv', ExchangeInv, ChannelInv', AttachInv, DueInv, [Next]_vars
               PROVE DueInv'
    OBVIOUS
  <1>1. CASE StartSucceeds
    <2>1. request'.phase = "request" /\ dap' = "handshake" BY <1>1 DEF StartSucceeds
    <2>2. \A c \in Words : Asked(c)' = 0 BY <2>1 DEF Asked
    <2>3. \A c \in Words : Owed(c)' \in Nat BY OwedIsNat
    <2>4. QED BY <2>2, <2>3 DEF DueInv
  <1>2. CASE Calls
    <2>1. UNCHANGED <<adapter, adapterIn, dap, overwritten>> /\ Pending' = Pending
      BY <1>2, CallsLeaveDap, PendingStays DEF Calls
    <2>2. request' = request \/ "serving" \notin {request.phase, request'.phase}
      BY <1>2, CallsLeaveServed DEF ExchangeInv
    <2>3. \A c \in Words : Owed(c)' = Owed(c) BY <2>1 DEF Owed
    <2>4. \A c \in Words : Asked(c)' = Asked(c) BY <2>1, <2>2 DEF Asked
    <2>5. QED BY <2>1, <2>3, <2>4, DueStays
  <1>3. CASE Dap
    <2>1. adapter' = adapter BY <1>3, DapLeavesAdapter DEF Dap
    <2>2. overwritten => overwritten'
      BY <1>3 DEF Dap, DapStep, Handshake, Poll, Read, KeepsWaiting, AskThreads, ForwardStopped,
                  ForwardEvent, ForwardResponse, EndTurn, SendConfigurationDone,
                  ReceiveConfigurationDone, FinishAttach, Receives
    <2> SUFFICES ASSUME ~overwritten', adapter' # "dead", NEW c \in Words
                 PROVE  Asked(c)' <= Owed(c)'
      BY DEF DueInv
    <2>3. Asked(c) <= Owed(c) BY <2>1, <2>2 DEF DueInv
    <2>4. Balances(c) BY <1>3, DapBalances
    <2>5. QED BY <2>1, <2>3, <2>4, DueBalance
  <1>4. CASE Adapter
    <2>1. UNCHANGED <<overwritten, dap, request>> BY <1>4 DEF Adapter, dapVars, linkVars
    <2>2. \A c \in Words : Asked(c)' = Asked(c) BY <2>1 DEF Asked
    <2>3. adapter' # "dead" => adapter # "dead"
      BY <1>4, AdapterNews DEF Adapter, Alive
    <2>4. ASSUME adapter' # "dead", NEW c \in Words PROVE Owed(c)' = Owed(c)
      BY <1>4, <2>4, AdapterOwes, LeavesInTurn
    <2>5. QED BY <2>1, <2>2, <2>3, <2>4, DueStays
  <1>5. CASE UNCHANGED vars
    <2>1. UNCHANGED <<overwritten, dap, request, adapter, adapterIn, messageQueue, adapterOut>>
      BY <1>5 DEF vars, adapterVars, dapVars, linkVars
    <2>2. QED BY <2>1, DueStays DEF Owed, Asked, Pending
  <1>6. QED BY <1>1, <1>2, <1>3, <1>4, <1>5 DEF Next, FrontEnd, Calls

\* Nothing that the DAP client waits for is forgotten: unless wait_for_message
\* has dropped a message or the adapter has died, it is on its way or the adapter
\* has the request (xdap_tcp_client_impl.cpp:103-143, 378-412).
THEOREM DueIsKept == Spec => []DueInv
  <1>1. ExchangeInv => ChannelInv BY DEF ExchangeInv
  <1>2. QED
    BY <1>1, DueInit, DueStep, TypesAreKept, ExchangeIsKept, AttachIsKept, PTL DEF Spec

-----------------------------------------------------------------------------
(* Why the thread of the DAP client reads.                                  *)

\* An adapter leaves when it takes the one request to disconnect.
LEMMA LeavesWithoutRequest ==
    ASSUME TypeInv, ExchangeInv, AdapterAnswers(parallel), adapter' = "gone"
    PROVE  Count(adapterIn', {"disconnect"}) = 0
  <1> DEFINE c == Head(adapterIn)
  <1>1. c = "disconnect"
    <2>1. adapter' = Answers(c, parallel).to /\ (\E m \in Answers(c, parallel).messages : TRUE)
          /\ adapter # "gone"
      BY DEF AdapterAnswers, Alive
    <2> HIDE DEF c
    <2>2. QED BY <2>1, AnswerCases
  <1>2. adapterIn \in Seq(Words) /\ adapterIn # <<>> /\ adapterIn' = Tail(adapterIn)
    BY DEF AdapterAnswers, TypeInv, TypeOK, MessagesOK
  <1>3. Count(adapterIn', {c}) = Count(adapterIn, {c}) - 1
    BY <1>2, CountTail
  <1>4. adapterIn' \in Seq(Words) BY <1>2, HeadThenTail
  <1>5. Count(adapterIn', {c}) \in Nat BY <1>4, CountNat
  <1>6. "disconnect" \in Words BY DebuggerBounds DEF Words
  <1>7. Owed("disconnect") <= Asked("disconnect") BY <1>6 DEF ExchangeInv, OwedInv
  <1>8. Asked("disconnect") \in {0, 1} BY DEF Asked
  <1>9. Count(Pending, {Response("disconnect")}) \in Nat /\ Count(adapterIn, {"disconnect"}) \in Nat
    BY OwedNat
  <1>10. Owed("disconnect") = Count(Pending, {Response("disconnect")}) + Count(adapterIn, {"disconnect"})
    BY <1>9 DEF Owed
  <1>11. Count(adapterIn, {"disconnect"}) <= 1 BY <1>7, <1>8, <1>9, <1>10
  <1> HIDE DEF c
  <1>12. QED BY <1>1, <1>3, <1>5, <1>9, <1>11

\* The DAP client asks an adapter that has left for its threads, if anything.
LEMMA GoneDap ==
    ASSUME TypeInv, ChannelInv, EndInv, ReadingInv, DapStep, UNCHANGED ctlVars,
           adapter' = "gone", request'.phase = "serving"
    PROVE  Count(adapterIn', {"disconnect"}) = 0
  <1>1. adapter = "gone" BY DapLeavesAdapter
  <1>2. request.phase # "request"
    BY <1>1 DEF EndInv, Leaving, ChannelInv
  <1>s. request.phase = "serving"
    <2>1. request.phase \in {"idle", "reply", "serving"}
      BY <1>2 DEF TypeInv, TypeOK, MessagesOK, Phase
    <2>3. CASE Handshake BY <1>2, <2>3 DEF Handshake
    <2>4. CASE Poll BY <1>2, <2>4 DEF Poll, HandleControlSocket
    <2>5. CASE Read \/ AskThreads \/ ForwardEvent \/ EndTurn
               \/ (\E w \in Awaited : KeepsWaiting(w))
      BY <2>5 DEF Read, AskThreads, ForwardEvent, EndTurn, KeepsWaiting, linkVars
    <2>6. CASE ForwardStopped \/ SendConfigurationDone \/ ReceiveConfigurationDone
      BY <2>6 DEF ForwardStopped, SendConfigurationDone, ReceiveConfigurationDone
    <2>7. CASE ForwardResponse BY <2>7 DEF ForwardResponse, Reply
    <2>8. CASE FinishAttach BY <2>8 DEF FinishAttach, Reply
    <2>9. QED BY <2>3, <2>4, <2>5, <2>6, <2>7, <2>8 DEF DapStep
  <1>3. \/ adapterIn' = adapterIn
        \/ adapterIn' = Append(adapterIn, "threads")
        \/ adapterIn' = Append(adapterIn, "configurationDone")
    <2>1. CASE Handshake BY <2>1 DEF Handshake, adapterVars
    <2>2. CASE Poll BY <1>2, <2>2 DEF Poll, HandleControlSocket
    <2>3. CASE Read \/ (\E w \in Awaited : KeepsWaiting(w))
      BY <2>3 DEF Read, KeepsWaiting
    <2>4. CASE AskThreads BY <2>4 DEF AskThreads
    <2>5. CASE ForwardEvent \/ ForwardResponse \/ EndTurn
      BY <2>5 DEF ForwardEvent, ForwardResponse, EndTurn, adapterVars
    <2>6. CASE ForwardStopped \/ ReceiveConfigurationDone \/ FinishAttach
      BY <2>6 DEF ForwardStopped, ReceiveConfigurationDone, FinishAttach
    <2>7. CASE SendConfigurationDone BY <2>7 DEF SendConfigurationDone
    <2>8. QED BY <2>1, <2>2, <2>3, <2>4, <2>5, <2>6, <2>7 DEF DapStep
  <1>4. adapterIn \in Seq(Words) BY DEF TypeInv, TypeOK, MessagesOK
  <1>5. Count(adapterIn, {"disconnect"}) = 0 BY <1>1, <1>s DEF ReadingInv
  <1>6. {"threads", "configurationDone"} \subseteq Words BY DEF Words
  <1>7. CASE adapterIn' = Append(adapterIn, "threads")
    <2>1. Count(adapterIn', {"disconnect"}) = Count(adapterIn, {"disconnect"}) + 0
      BY <1>4, <1>6, <1>7, CountAppend
    <2>2. QED BY <1>5, <2>1
  <1>8. CASE adapterIn' = Append(adapterIn, "configurationDone")
    <2>1. Count(adapterIn', {"disconnect"}) = Count(adapterIn, {"disconnect"}) + 0
      BY <1>4, <1>6, <1>8, CountAppend
    <2>2. QED BY <1>5, <2>1
  <1>9. QED BY <1>3, <1>5, <1>7, <1>8

\* The thread comes to the read from the poll or from the attach sequence.
LEMMA ReadingDap ==
    ASSUME TypeInv, ChannelInv, EndInv, AttachInv, DapStep, dap' = "reading"
    PROVE  \/ parallel' /\ ~waitAttach'
           \/ messageQueue' = <<>> /\ (adapterOut' = <<>> => notice' \/ ~Alive')
  <1>1. CASE Poll
    <2>1. messageQueue = <<>> /\ UNCHANGED <<messageQueue, adapterOut, adapter, notice>>
      BY <1>1 DEF Poll, EndInv
    <2>2. Readable \/ notice BY <1>1 DEF Poll, Polled
    <2>3. QED BY <2>1, <2>2 DEF Readable, Alive
  <1>2. CASE FinishAttach
    <2>1. dap = "attach" /\ parallel' = parallel /\ ~waitAttach'
      BY <1>2 DEF FinishAttach, Receives
    <2>2. QED BY <2>1 DEF AttachInv, Attaching
  <1>3. CASE Handshake \/ Read \/ AskThreads \/ ForwardStopped \/ ForwardEvent \/ EndTurn
             \/ SendConfigurationDone \/ ReceiveConfigurationDone
    BY <1>3 DEF Handshake, Read, AskThreads, ForwardStopped, ForwardEvent, EndTurn,
                SendConfigurationDone, ReceiveConfigurationDone
  <1>4. CASE ForwardResponse BY <1>4 DEF ForwardResponse, Reply
  <1>5. ASSUME NEW w \in Awaited, KeepsWaiting(w) PROVE FALSE
    BY <1>5 DEF KeepsWaiting, Awaited
  <1>6. QED BY <1>1, <1>2, <1>3, <1>4, <1>5 DEF DapStep

LEMMA ReadingAdapter ==
    TypeInv /\ ExchangeInv /\ ReadingInv /\ Adapter => ReadingInv'
  <1> SUFFICES ASSUME TypeInv, ExchangeInv, ReadingInv, Adapter PROVE ReadingInv'
    OBVIOUS
  <1>1. UNCHANGED <<dap, parallel, waitAttach, notice, messageQueue, request>>
    BY DEF Adapter, dapVars, linkVars
  <1>2. Alive BY DEF Adapter, AdapterStep, AdapterAnswers, AdapterRefuses, AdapterRaises, AdapterDies, Alive
  <1>3. adapterOut' = <<>> => adapterOut = <<>>
    <2>1. adapterOut \in Seq(Message) BY DEF TypeInv, TypeOK, MessagesOK
    <2>2. CASE AdapterAnswers(parallel)
      <3>1. PICK m \in Answers(Head(adapterIn), parallel).messages : adapterOut' = adapterOut \o m
        BY <2>2 DEF AdapterAnswers
      <3>2. Head(adapterIn) \in Words
        BY <2>2, HeadThenTail DEF AdapterAnswers, TypeInv, TypeOK, MessagesOK
      <3>3. m \in Seq(Message)
        BY <3>2, AnswersAreMessages DEF TypeInv, TypeOK, AdapterOK
      <3>4. Len(adapterOut') = Len(adapterOut) + Len(m) BY <2>1, <3>1, <3>3, ConcatProperties
      <3>5. Len(adapterOut) \in Nat /\ Len(m) \in Nat BY <2>1, <3>3, LenProperties
      <3>6. ASSUME adapterOut' = <<>> PROVE Len(adapterOut) = 0 BY <3>4, <3>5, <3>6, EmptySeq
      <3>7. QED BY <2>1, <3>6, EmptySeq
    <2>3. CASE AdapterRefuses
      <3>1. adapterOut' = Append(adapterOut, Response("attach")) BY <2>3 DEF AdapterRefuses
      <3> DEFINE r == Response("attach")
      <3>2. adapterOut' = Append(adapterOut, r) BY <3>1
      <3>3. r \in Message BY MessageFacts, CommandIsWord DEF Awaited
      <3> HIDE DEF r
      <3>4. Append(adapterOut, r) # <<>> BY <2>1, <3>3, AppendProperties
      <3>5. QED BY <3>2, <3>4
    <2>4. ASSUME NEW kind \in EventKinds, NEW t \in Concerned(kind), AdapterRaises(kind, t)
          PROVE  adapterOut' # <<>>
      <3> DEFINE e == Event(kind, t, raised + 1)
      <3>1. adapterOut' = Append(adapterOut, e) BY <2>4 DEF AdapterRaises
      <3>2. raised + 1 \in 1 .. MaxEvents
        BY <2>4, AdapterBounds DEF AdapterRaises, TypeInv, TypeOK, AdapterOK
      <3>3. e \in Message BY <3>2, RaisedNext DEF Message
      <3> HIDE DEF e
      <3>4. Append(adapterOut, e) # <<>> BY <2>1, <3>3, AppendProperties
      <3>5. QED BY <3>1, <3>4
    <2>5. CASE AdapterDies BY <2>5 DEF AdapterDies
    <2>6. QED BY <2>2, <2>3, <2>4, <2>5 DEF Adapter, AdapterStep
  <1>4. ASSUME adapter' = "gone" PROVE Count(adapterIn', {"disconnect"}) = 0
    <2>1. AdapterAnswers(parallel)
      BY <1>2, <1>4 DEF Adapter, AdapterStep, AdapterRefuses, AdapterRaises, AdapterDies, Alive
    <2>2. QED BY <1>4, <2>1, LeavesWithoutRequest
  <1>5. QED BY <1>1, <1>2, <1>3, <1>4 DEF ReadingInv

LEMMA ReadingStep ==
    TypeInv /\ ExchangeInv /\ EndInv /\ AttachInv /\ ReadingInv /\ [Next]_vars => ReadingInv'
  <1> SUFFICES ASSUME TypeInv, ExchangeInv, EndInv, AttachInv, ReadingInv, [Next]_vars
               PROVE ReadingInv'
    OBVIOUS
  <1>0. ChannelInv BY DEF ExchangeInv
  <1>1. CASE StartSucceeds
    BY <1>1 DEF StartSucceeds, AdapterStarts, ReadingInv
  <1>2. CASE Calls
    <2>1. UNCHANGED <<adapter, adapterIn, dap, parallel, waitAttach, notice, messageQueue, adapterOut>>
      BY <1>2, CallsLeaveDap
    <2>2. request'.phase = "serving" => request.phase = "serving"
      BY <1>0, <1>2, CallsLeaveServed
    <2>3. QED BY <2>1, <2>2 DEF ReadingInv, Alive
  <1>3. CASE Dap
    BY <1>0, <1>3, GoneDap, ReadingDap DEF Dap, ReadingInv
  <1>4. CASE Adapter BY <1>4, ReadingAdapter
  <1>5. CASE UNCHANGED vars
    BY <1>5 DEF vars, adapterVars, dapVars, linkVars, ReadingInv, Alive
  <1>6. QED BY <1>1, <1>2, <1>3, <1>4, <1>5 DEF Next, FrontEnd, Calls

\* handle_tcp_socket is called with nothing to read in the cases ReadingInv names
\* only (xdap_tcp_client_impl.cpp:182-197, 215-231, 378-412).
THEOREM ReadingIsKept == Spec => []ReadingInv
  <1>1. Init => ReadingInv
    BY DEF Init, DapInit, AdapterInit, ReadingInv
  <1>2. QED
    BY <1>1, ReadingStep, TypesAreKept, ExchangeIsKept, EndIsKept, AttachIsKept, PTL DEF Spec

-----------------------------------------------------------------------------
(* Nobody is stuck.                                                         *)

\* Nothing comes from a stream that is empty.
LEMMA NothingComes ==
    ASSUME TypeInv, NEW w \in Awaited, Outcomes(w) = {}
    PROVE  Count(Pending, {Expected(w)}) = 0
  <1>1. messageQueue \in Seq(Message) /\ adapterOut \in Seq(Message)
    BY DEF TypeInv, TypeOK, MessagesOK, Queues
  <1>2. Queued(w) = {} BY DEF Outcomes
  <1>3. adapterOut = <<>>
    <2>1. DOMAIN Batches = {} BY <1>2 DEF Outcomes
    <2>2. Len(adapterOut) \in Nat /\ 1 .. Len(adapterOut) = {} BY <1>1, <2>1 DEF Batches
    <2>3. QED BY <1>1, <2>2, EmptySeq
  <1>4. Pending = messageQueue BY <1>1, <1>3, ConcatEmptySeq DEF Pending
  <1>5. \A i \in 1 .. Len(messageQueue) : messageQueue[i] \notin {Expected(w)}
    BY <1>1, <1>2 DEF Queued
  <1> HIDE DEF Expected
  <1>6. Only(messageQueue, {Expected(w)}) = <<>> BY <1>1, <1>5, OnlyNone
  <1>7. QED BY <1>4, <1>6 DEF Count

\* An adapter without a request owes only the response to "attach".
LEMMA NothingDue ==
    ASSUME TypeInv, NEW c, Count(Pending, {Response(c)}) = 0, adapterIn = <<>>,
           adapter # "attaching" \/ c # "attach"
    PROVE  Owed(c) = 0
  BY CountEmpty DEF Owed

\* The thread of the DAP client asks for what it waits for.
LEMMA WaiterAsks ==
    ASSUME DueInv, ~overwritten, adapter # "dead", NEW c \in Words, Owed(c) = 0
    PROVE  /\ ~Serves(c)
           /\ c \in {"threads", "configurationDone"} => dap # c
  <1>1. Asked(c) <= 0 BY DEF DueInv
  <1>2. QED BY <1>1 DEF Asked, Serves

\* Inside wait_for_message, what is waited for has been sent or will be.
LEMMA StuckAwaiting ==
    ASSUME TypeInv, ExchangeInv, EndInv, AttachInv, DueInv, ~overwritten, adapter # "dead",
           NothingToAnswer, NEW w \in Awaited, dap = w, Outcomes(w) = {}
    PROVE  \/ dap = "threads" /\ adapter = "gone"
           \/ dap = "initialized" /\ adapter = "running"
  <1>1. Count(Pending, {Expected(w)}) = 0 BY NothingComes
  <1>2. CASE w = "initialized"
    <2>1. Count(Pending, {Initialized}) = 0 BY <1>1, <1>2 DEF Expected
    <2>2. adapter \in {"running", "attaching"} BY <1>2 DEF AttachInv
    <2>3. adapter # "attaching" BY <1>2, <2>1 DEF AttachInv
    <2>4. QED BY <1>2, <2>2, <2>3
  <1>3. CASE w # "initialized"
    <2>1. Count(Pending, {Response(w)}) = 0 BY <1>1, <1>3 DEF Expected
    <2>2. w \in Words BY <1>3, CommandIsWord
    <2>3. w = "attach" => Serves("attach") BY DEF AttachInv, Attaching
    <2>4. w = "attach" => adapter # "attaching" BY DEF AttachInv
    <2>5. adapterIn # <<>>
      <3>1. SUFFICES ASSUME adapterIn = <<>> PROVE FALSE
        OBVIOUS
      <3>2. Owed(w) = 0 BY <2>1, <2>4, <3>1, NothingDue
      <3>3. ~Serves(w) /\ (w \in {"threads", "configurationDone"} => dap # w)
        BY <2>2, <3>2, WaiterAsks
      <3>4. QED BY <1>3, <2>3, <3>3 DEF Awaited
    <2>6. ~Alive BY <2>5 DEF NothingToAnswer
    <2>7. adapter \in {"off", "gone"} BY <2>6 DEF Alive, TypeInv, TypeOK, AdapterOK, AdapterState
    <2>8. adapter = "gone" BY <2>7 DEF EndInv, Awaited
    <2>9. w = "threads" BY <1>3, <2>8 DEF Awaited, AttachInv
    <2>10. QED BY <2>8, <2>9
  <1>4. QED BY <1>2, <1>3

\* At the poll, the request that the control thread waits for has been answered.
LEMMA StuckPolling ==
    ASSUME TypeInv, HeaderInv, ExchangeInv, EndInv, AttachInv, DueInv,
           ~overwritten, adapter # "dead", NothingToAnswer, ControlBlocks,
           dap = "polling", "request" \notin {header.phase, request.phase}, TRUE \notin Polled
    PROVE  ctl = "idle"
  <1>1. SUFFICES ASSUME ctl # "idle" PROVE FALSE
    OBVIOUS
  <1>2. ctl # "header"
    BY DEF ControlBlocks, HeaderInv, Headers, Phase
  <1>3. ctl # "starting" BY DEF ControlBlocks, ExchangeInv, ChannelInv
  <1>4. ctl = "request" /\ request.phase # "reply" BY <1>1, <1>2, <1>3 DEF ControlBlocks
  <1>5. request.phase = "serving"
    BY <1>4 DEF TypeInv, TypeOK, MessagesOK, Phase, ExchangeInv, ChannelInv
  <1>6. messageQueue = <<>> /\ adapterOut = <<>> /\ Alive BY DEF EndInv, Polled, Readable
  <1>7. adapterIn = <<>> BY <1>6 DEF NothingToAnswer
  <1>8. Pending = <<>> BY <1>6 DEF Pending
  <1>9. adapter # "attaching" BY DEF AttachInv
  <1>10. \A c \in Words : Owed(c) = 0 BY <1>7, <1>8, <1>9, CountEmpty, NothingDue
  <1>11. request.body \in Words BY DEF TypeInv, TypeOK, MessagesOK
  <1>12. ~Serves(request.body) BY <1>10, <1>11, WaiterAsks
  <1>13. QED BY <1>4, <1>5, <1>12 DEF Serves

\* At the read, with nothing to read, no request has been left unanswered: the
\* adapter is no more, and has not gone without an answer.
LEMMA StuckReading ==
    ASSUME TypeInv, ExchangeInv, EndInv, AttachInv, DueInv, ReadingInv,
           ~overwritten, adapter # "dead", ControlBlocks,
           dap = "reading", adapterOut = <<>>, ~notice, ~(parallel /\ ~waitAttach)
    PROVE  ctl = "idle"
  <1>1. SUFFICES ASSUME ctl # "idle" PROVE FALSE
    OBVIOUS
  <1>2. messageQueue = <<>> /\ ~Alive BY DEF ReadingInv
  <1>3. adapter = "gone"
    BY <1>2 DEF Alive, EndInv, TypeInv, TypeOK, AdapterOK, AdapterState
  <1>4. ctl = "request" /\ command = "disconnect" /\ request.phase = "serving"
    BY <1>1, <1>3 DEF EndInv, Leaving, ControlBlocks
  <1>5. Serves("disconnect") BY <1>4 DEF ExchangeInv, ChannelInv, Serves
  <1>6. Count(adapterIn, {"disconnect"}) = 0 BY <1>3, <1>4 DEF ReadingInv
  <1>7. Pending = <<>> BY <1>2 DEF Pending
  <1>8. Owed("disconnect") = 0 BY <1>6, <1>7, CountEmpty DEF Owed
  <1>9. "disconnect" \in Words BY DebuggerBounds DEF Words
  <1>10. QED BY <1>5, <1>8, <1>9, WaiterAsks

\* The thread of the DAP client has nothing to do only between two sessions.
LEMMA StuckOutside ==
    ASSUME TypeInv, ExchangeInv, EndInv, ControlBlocks,
           \/ dap \in {"unborn", "done"}
           \/ dap = "handshake" /\ request.phase # "request"
    PROVE  ctl = "idle"
  <1>1. dap \in {"unborn", "done"} BY DEF ExchangeInv, ChannelInv
  <1>2. Leaving({"reply"}) BY <1>1 DEF EndInv
  <1>3. QED BY <1>2 DEF ControlBlocks, Leaving

-----------------------------------------------------------------------------
\* The control thread, the thread of the DAP client and the adapter never wait
\* for each other while a request is processed: each message that one of them
\* waits for has been sent or is still owed by one that can move.  The cases left
\* are those in which the code does wait for what does not come
\* (xdap_tcp_client_impl.cpp:41-143, 194-198, 378-412, xdebugger_base.cpp:346-424).
THEOREM NobodyIsStuck == Spec => []StuckInNamedCasesOnly
  <1>1. TypeInv /\ HeaderInv /\ ExchangeInv /\ EndInv /\ AttachInv /\ DueInv /\ ReadingInv
            => StuckInNamedCasesOnly
    <2> SUFFICES ASSUME TypeInv, HeaderInv, ExchangeInv, EndInv, AttachInv, DueInv, ReadingInv,
                        ControlBlocks, DapBlocks, NothingToAnswer, ~overwritten, adapter # "dead",
                        ~(dap = "reading" /\ notice), ~(dap = "reading" /\ parallel /\ ~waitAttach)
                 PROVE  \/ ctl = "idle"
                        \/ dap = "threads" /\ adapter = "gone"
                        \/ dap = "initialized" /\ adapter = "running"
      BY DEF StuckInNamedCasesOnly
    <2>1. CASE \/ dap \in {"unborn", "done"}
               \/ dap = "handshake" /\ request.phase # "request"
      BY <2>1, StuckOutside
    <2>2. CASE dap = "terminated"
      BY <2>2 DEF ExchangeInv, ChannelInv
    <2>3. CASE dap = "polling" /\ "request" \notin {header.phase, request.phase} /\ TRUE \notin Polled
      BY <2>3, StuckPolling
    <2>4. CASE dap \in Awaited /\ Outcomes(dap) = {}
      BY <2>4, StuckAwaiting
    <2>5. CASE dap = "reading" /\ adapterOut = <<>>
      BY <2>5, StuckReading
    <2>6. QED BY <2>1, <2>2, <2>3, <2>4, <2>5 DEF DapBlocks
  <1>2. QED
    BY <1>1, TypesAreKept, HeadersAreInTurn, ExchangeIsKept, EndIsKept, AttachIsKept, DueIsKept,
       ReadingIsKept, PTL

=============================================================================

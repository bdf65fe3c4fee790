----------------------------- MODULE ClientProofs -----------------------------
(***************************************************************************)
(* The safety of the client, for any number of messages, retries and       *)
(* failed receptions.                                                      *)
(***************************************************************************)
EXTENDS Client, SequenceTheorems, TLAPS

-----------------------------------------------------------------------------
(* The inductive invariant.                                                 *)

\* A link is busy only while the user waits for its answer.
LinkInv ==
    /\ user # "wait_iopub" => link["iopub"].phase = "idle"
    /\ user # "wait_heartbeat" => link["heartbeat"].phase = "idle"

\* The destructor is past the join of a thread only when the thread has returned,
\* and a client that was not started has no threads.
JoinInv ==
    /\ ~started => iopub = "unborn" /\ beat = "unborn"
    /\ user = "join_iopub" => beat = "done"
    /\ user = "destroyed" => iopub \in {"unborn", "done"} /\ beat \in {"unborn", "done"}

\* What is at the back of the queue is new, or hollow.
BackInv ==
    queue # <<>> /\ queue[Len(queue)] # Hollow =>
        \A i \in DOMAIN delivered : delivered[i] < queue[Len(queue)]

IInv == TypeOK /\ LinkInv /\ JoinInv /\ NoMessageTwice /\ BackInv

-----------------------------------------------------------------------------
(* Type correctness.                                                        *)

\* Every operation of a controller link leads to a link (xclient_messenger.cpp:37-49).
LEMMA LinkType ==
    ASSUME TypeOK, NEW t \in {"iopub", "heartbeat"}, NEW b \in Body
    PROVE  /\ Send(t, b) => link' \in [{"iopub", "heartbeat"} -> Link]
           /\ Answer(t, b) => link' \in [{"iopub", "heartbeat"} -> Link]
           /\ Collect(t) => link' \in [{"iopub", "heartbeat"} -> Link]
           /\ link[t].body \in Body
  <1>1. link \in [{"iopub", "heartbeat"} -> Link] /\ link[t] \in Link
    BY DEF TypeOK
  <1>2. Send(t, b) => link' \in [{"iopub", "heartbeat"} -> Link]
    BY <1>1 DEF Send, Link
  <1>3. Answer(t, b) => link' \in [{"iopub", "heartbeat"} -> Link]
    BY <1>1 DEF Answer, Link
  <1>4. [link[t] EXCEPT !.phase = "idle"] \in Link /\ link[t].body \in Body
    BY <1>1 DEF Link
  <1>5. QED
    BY <1>1, <1>2, <1>3, <1>4 DEF Collect

\* A pop keeps the type of the queue (xiopub_client.cpp:45-58).
LEMMA PopType ==
    ASSUME TypeOK, Pop
    PROVE  /\ queue' \in Seq(0 .. pushed) /\ delivered' \in Seq(0 .. pushed)
           /\ Len(queue') = Len(queue) - 1 /\ Len(queue) \in Nat \ {0}
           /\ Len(queue) # 1 => queue'[Len(queue')] = Hollow
           /\ delivered' = Append(delivered, queue[Len(queue)])
           /\ queue[Len(queue)] \in 0 .. pushed
           /\ UNCHANGED <<link, iopub, subQ, pushed>>
  <1> DEFINE n == Len(queue)
             hollowed == [queue EXCEPT ![n] = Hollow]
  <1>1. queue \in Seq(0 .. pushed) /\ delivered \in Seq(0 .. pushed) /\ pushed \in Nat
    BY DEF TypeOK, IopubOK
  <1>2. n \in Nat \ {0} /\ queue[n] \in 0 .. pushed
    BY <1>1 DEF Pop
  <1>3. 0 \in 0 .. pushed
    BY <1>1
  <1>4. hollowed \in Seq(0 .. pushed) /\ Len(hollowed) = n /\ hollowed[n] = 0
    BY <1>1, <1>2, <1>3 DEF Hollow
  <1>5. queue' = Tail(hollowed) /\ delivered' = Append(delivered, queue[n])
    BY DEF Pop
  <1> HIDE DEF hollowed, n
  <1>6. queue' \in Seq(0 .. pushed) /\ Len(queue') = n - 1
    BY <1>2, <1>4, <1>5
  <1>7. n # 1 => queue'[n - 1] = 0
    BY <1>2, <1>4, <1>5
  <1>8. QED
    BY <1>1, <1>2, <1>5, <1>6, <1>7 DEF Pop, Hollow, n

\* A turn of the iopub thread pushes a message that is newer than any other, or
\* none (xiopub_client.cpp:66-94).
LEMMA PushType ==
    ASSUME TypeOK, PushMessage
    PROVE  /\ subQ' \in Seq(Message)
           /\ pushed' \in Nat
           /\ pushed <= pushed'
           /\ queue' \in Seq(0 .. pushed')
           /\ \/ UNCHANGED <<queue, pushed>>
              \/ pushed' = pushed + 1 /\ queue' = Append(queue, pushed + 1)
  <1>1. queue \in Seq(0 .. pushed) /\ pushed \in Nat /\ subQ \in Seq(Message)
    BY DEF TypeOK, IopubOK
  <1>2. CASE subQ = <<>>
    BY <1>1, <1>2 DEF PushMessage
  <1>3. CASE subQ # <<>>
    <2>1. subQ' = Tail(subQ) /\ queue' = Append(queue, pushed + 1) /\ pushed' = pushed + 1
      BY <1>3 DEF PushMessage
    <2>2. subQ' \in Seq(Message)
      BY <1>1, <1>3, <2>1
    <2>3. queue \in Seq(0 .. pushed + 1) /\ pushed + 1 \in 0 .. pushed + 1
      BY <1>1
    <2>4. queue' \in Seq(0 .. pushed')
      BY <2>1, <2>3
    <2>5. QED
      BY <1>1, <2>1, <2>2, <2>4
  <1>4. QED
    BY <1>2, <1>3

\* What the user does keeps the type of the state.
LEMMA UserType ==
    ASSUME TypeOK, User \/ Inside
    PROVE  TypeOK'
  <1> USE DEF TypeOK, BeatOK, IopubOK, BeatState, UserState
  <1>1. CASE Connect
    BY <1>1 DEF Connect, replyVars, beatVars, iopubVars
  <1>2. CASE Start
    BY <1>2 DEF Start, replyVars
  <1>3. ASSUME Pop, user' \in UserState, UNCHANGED <<connected, started, stopped, replyVars, beatVars>>
        PROVE  TypeOK'
    <2>1. queue' \in Seq(0 .. pushed) /\ delivered' \in Seq(0 .. pushed) /\ UNCHANGED <<link, iopub, subQ, pushed>>
      BY <1>3, PopType
    <2>2. QED
      BY <1>3, <2>1 DEF replyVars, beatVars
  <1>4. CASE PopMessage
    BY <1>3, <1>4 DEF PopMessage, userVars
  <1>5. CASE WaitForMessage
    <2>1. CASE Pop /\ user' = user
      BY <1>3, <1>5, <2>1 DEF WaitForMessage
    <2>2. CASE user' = "polling" /\ UNCHANGED <<link, iopubVars>>
      BY <1>5, <2>2 DEF WaitForMessage, replyVars, beatVars, iopubVars
    <2>3. QED
      BY <1>5, <2>1, <2>2 DEF WaitForMessage
  <1>6. ASSUME NEW c \in Channels, replies[c] # <<>>, replies' = [replies EXCEPT ![c] = Tail(@)]
        PROVE  replies' \in [Channels -> Seq(Message)]
    <2>1. Tail(replies[c]) \in Seq(Message)
      BY <1>6
    <2>2. QED
      BY <1>6, <2>1
  <1>7. ASSUME NEW c \in Channels, Receive(c) PROVE TypeOK'
    BY <1>6, <1>7 DEF Receive, userVars, beatVars, iopubVars
  <1>8. CASE CallStop \/ CallDestroy \/ Destroy
    BY <1>8 DEF CallStop, CallDestroy, Destroy, replyVars, beatVars, iopubVars
  <1>9. CASE Poll
    <2>1. replies' \in [Channels -> Seq(Message)]
      BY <1>6, <1>9 DEF Poll
    <2>2. QED
      BY <1>9, <2>1 DEF Poll, beatVars, iopubVars
  <1>10. CASE StopChannels
    <2>1. user' \in UserState /\ stopped' \in BOOLEAN
      BY <1>10 DEF StopChannels, RequestStop, AwaitStop
    <2>2. link' \in [{"iopub", "heartbeat"} -> Link]
      BY <1>10, LinkType DEF StopChannels, RequestStop, AwaitStop, Body
    <2>3. QED
      BY <1>10, <2>1, <2>2 DEF StopChannels, replyVars, beatVars, iopubVars
  <1>11. QED
    BY <1>1, <1>2, <1>4, <1>5, <1>7, <1>8, <1>9, <1>10 DEF User, Inside

\* So does what the heartbeat thread does.
LEMMA BeatType ==
    ASSUME TypeOK, Beat
    PROVE  TypeOK'
  <1> USE DEF TypeOK, BeatOK, BeatState, Ping
  <1>1. CASE SendPing
    BY <1>1 DEF Beat, SendPing, userVars, replyVars, iopubVars, IopubOK
  <1>2. CASE Waited
    <2>1. link' \in [{"iopub", "heartbeat"} -> Link]
      <3>1. link["heartbeat"].body \in Body
        BY LinkType DEF Body
      <3>2. CASE Answer("heartbeat", link["heartbeat"].body)
        BY <3>1, <3>2, LinkType
      <3>3. CASE link' = link
        BY <3>3
      <3>4. QED
        BY <1>2, <3>2, <3>3 DEF Waited
    <2>2. ping' \in Ping /\ retryCount' \in 0 .. MaxRetry
      BY <1>2, RetryAssumption DEF Waited
    <2>4. beatStop' \in BOOLEAN
      BY <1>2, Zenon DEF Waited
    <2>3. QED
      BY <1>2, <2>1, <2>2, <2>4 DEF Beat, Waited, userVars, replyVars, iopubVars, IopubOK
  <1>3. CASE WaitFailed
    <2>1. retryCount' \in 0 .. MaxRetry /\ beat' \in BeatState /\ faults' \in Nat
      <3>1. CASE retryCount < MaxRetry
        BY <1>3, <3>1, RetryAssumption DEF WaitFailed
      <3>2. CASE ~ (retryCount < MaxRetry)
        BY <1>3, <3>2 DEF WaitFailed
      <3>3. QED
        BY <3>1, <3>2
    <2>2. notified' \in BOOLEAN
      BY <1>3, Zenon DEF WaitFailed
    <2>3. QED
      BY <1>3, <2>1, <2>2 DEF Beat, WaitFailed, userVars, replyVars, iopubVars, IopubOK
  <1>4. CASE Slept \/ BeatLeaves
    BY <1>4 DEF Beat, Slept, BeatLeaves, userVars, replyVars, iopubVars, IopubOK
  <1>5. QED
    BY <1>1, <1>2, <1>3, <1>4 DEF Beat, BeatStep

\* And what the iopub thread does.
LEMMA IopubType ==
    ASSUME TypeOK, Iopub
    PROVE  TypeOK'
  <1> USE DEF TypeOK, IopubOK
  <1>1. pushed \in Nat /\ queue \in Seq(0 .. pushed) /\ delivered \in Seq(0 .. pushed) /\ subQ \in Seq(Message)
    OBVIOUS
  <1>2. CASE DropMessage
    <2>1. subQ' \in Seq(Message)
      BY <1>1, <1>2 DEF DropMessage
    <2>2. QED
      BY <1>2, <2>1 DEF Iopub, DropMessage, userVars, replyVars, beatVars, BeatOK
  <1>3. ASSUME PushMessage, UNCHANGED delivered
        PROVE  /\ subQ' \in Seq(Message) /\ pushed' \in Nat
               /\ queue' \in Seq(0 .. pushed') /\ delivered' \in Seq(0 .. pushed')
    <2>1. pushed <= pushed' /\ pushed' \in Nat
      BY <1>3, PushType
    <2>2. 0 .. pushed \subseteq 0 .. pushed'
      BY <1>1, <2>1
    <2>3. delivered' \in Seq(0 .. pushed')
      <3>1. delivered \in Seq(0 .. pushed')
        BY <1>1, <2>2, SeqMonotonic
      <3>2. QED
        BY <1>3, <3>1
    <2>4. QED
      BY <1>3, <2>1, <2>3, PushType
  <1>4. CASE IopubTurn
    <2>1. /\ subQ' \in Seq(Message) /\ pushed' \in Nat
          /\ queue' \in Seq(0 .. pushed') /\ delivered' \in Seq(0 .. pushed')
      BY <1>3, <1>4 DEF IopubTurn
    <2>2. QED
      BY <1>4, <2>1 DEF Iopub, IopubTurn, userVars, replyVars, beatVars, BeatOK
  <1>5. CASE IopubLastTurn
    <2>1. /\ subQ' \in Seq(Message) /\ pushed' \in Nat
          /\ queue' \in Seq(0 .. pushed') /\ delivered' \in Seq(0 .. pushed')
      BY <1>3, <1>5 DEF IopubLastTurn
    <2>2. link' \in [{"iopub", "heartbeat"} -> Link]
      <3>1. link["iopub"].body \in Body
        BY LinkType DEF Body
      <3>2. QED
        BY <1>5, <3>1, LinkType DEF IopubLastTurn
    <2>3. QED
      BY <1>5, <2>1, <2>2 DEF Iopub, IopubLastTurn, userVars, replyVars, beatVars, BeatOK
  <1>6. CASE IopubLeaves
    BY <1>6 DEF Iopub, IopubLeaves, userVars, replyVars, beatVars, BeatOK
  <1>7. QED
    BY <1>2, <1>4, <1>5, <1>6 DEF Iopub, IopubStep

\* And what the kernel sends.
LEMMA KernelType ==
    ASSUME TypeOK, Kernel
    PROVE  TypeOK'
  <1> USE DEF TypeOK
  <1>1. ASSUME NEW c \in Channels, NEW m \in Message, KernelReplies(c, m) PROVE TypeOK'
    <2>1. Append(replies[c], m) \in Seq(Message)
      OBVIOUS
    <2>2. replies' \in [Channels -> Seq(Message)] /\ sent' \in [Channels \union {"iopub"} -> Nat]
      BY <1>1, <2>1 DEF KernelReplies
    <2>3. QED
      BY <1>1, <2>2 DEF KernelReplies, userVars, beatVars, iopubVars, BeatOK, IopubOK
  <1>2. ASSUME NEW m \in Message, KernelPublishes(m) PROVE TypeOK'
    <2>1. subQ' \in Seq(Message)
      BY <1>2 DEF KernelPublishes, IopubOK
    <2>2. sent' \in [Channels \union {"iopub"} -> Nat]
      BY <1>2 DEF KernelPublishes
    <2>3. QED
      BY <1>2, <2>1, <2>2 DEF KernelPublishes, userVars, beatVars, BeatOK, IopubOK
  <1>3. CASE KernelEchoes /\ UNCHANGED <<userVars, replyVars, iopubVars>>
    BY <1>3 DEF KernelEchoes, userVars, replyVars, iopubVars, BeatOK, IopubOK, Ping
  <1>4. QED
    BY <1>1, <1>2, <1>3 DEF Kernel

\* Every step keeps the type of the state.
LEMMA TypeStep == TypeOK /\ [Next]_vars => TypeOK'
  <1>1. TypeOK /\ UNCHANGED vars => TypeOK'
    BY DEF TypeOK, BeatOK, IopubOK, vars, userVars, replyVars, beatVars, iopubVars
  <1>2. QED
    BY <1>1, UserType, BeatType, IopubType, KernelType DEF Next

-----------------------------------------------------------------------------
(* Threads and sockets.                                                     *)

\* A stop request is answered by the thread it is for, and only then is the next
\* one made (xclient_messenger.cpp:37-49).
LEMMA LinkStep == TypeOK /\ LinkInv /\ [Next]_vars => LinkInv'
  <1> SUFFICES ASSUME TypeOK, LinkInv, [Next]_vars PROVE LinkInv'
    OBVIOUS
  <1>0. link \in [{"iopub", "heartbeat"} -> Link]
    BY DEF TypeOK
  <1>1. CASE UNCHANGED link /\ (user' = user \/ user \notin {"wait_iopub", "wait_heartbeat"})
    BY <1>1 DEF LinkInv
  <1>2. ASSUME NEW t \in {"iopub", "heartbeat"}, Requested(t), Answer(t, link[t].body), user' = user
        PROVE  LinkInv'
    BY <1>0, <1>2 DEF LinkInv, Requested, Answer
  <1>3. CASE StopChannels
    BY <1>0, <1>3 DEF LinkInv, StopChannels, RequestStop, AwaitStop, Send, Collect, Link
  <1>4. CASE User \/ Poll \/ Destroy
    BY <1>1, <1>4 DEF User, Connect, Start, PopMessage, WaitForMessage, Pop, Receive, CallStop,
                      CallDestroy, Poll, Destroy, userVars
  <1>5. CASE Beat
    BY <1>1, <1>2, <1>5 DEF Beat, BeatStep, SendPing, Waited, WaitFailed, Slept, BeatLeaves, userVars
  <1>6. CASE Iopub
    BY <1>1, <1>2, <1>6 DEF Iopub, IopubStep, DropMessage, IopubTurn, IopubLastTurn, IopubLeaves, userVars
  <1>7. CASE Kernel
    BY <1>1, <1>7 DEF Kernel, KernelReplies, KernelPublishes, KernelEchoes, userVars
  <1>8. CASE UNCHANGED vars
    BY <1>1, <1>8 DEF vars, userVars
  <1>9. QED
    BY <1>3, <1>4, <1>5, <1>6, <1>7, <1>8 DEF Next, Inside

\* Nobody passes the join of a thread that runs, and no thread starts again
\* (xclient_zmq_impl.hpp:97-106).
LEMMA JoinStep == TypeOK /\ JoinInv /\ [Next]_vars => JoinInv'
  <1> SUFFICES ASSUME TypeOK, JoinInv, [Next]_vars PROVE JoinInv'
    OBVIOUS
  <1> USE DEF JoinInv
  <1>1. CASE UNCHANGED <<started, iopub, beat>> /\ (user' = user \/ user' \notin {"join_iopub", "destroyed"})
    BY <1>1
  <1>2. CASE Start
    BY <1>2 DEF Start
  <1>3. CASE CallDestroy
    BY <1>3 DEF CallDestroy, beatVars, iopubVars
  <1>4. CASE Destroy
    BY <1>4 DEF Destroy, beatVars, iopubVars
  <1>5. CASE Connect \/ PopMessage \/ WaitForMessage \/ (\E c \in Channels : Receive(c)) \/ CallStop \/ Poll
    BY <1>1, <1>5 DEF Connect, PopMessage, WaitForMessage, Pop, Receive, CallStop, Poll, userVars,
                      beatVars, iopubVars
  <1>6. CASE StopChannels
    BY <1>1, <1>6 DEF StopChannels, RequestStop, AwaitStop, beatVars, iopubVars
  <1>7. CASE Beat
    BY <1>7 DEF Beat, BeatStep, SendPing, Waited, WaitFailed, Slept, BeatLeaves, userVars, iopubVars
  <1>8. CASE Iopub
    BY <1>8 DEF Iopub, IopubStep, DropMessage, IopubTurn, IopubLastTurn, IopubLeaves, userVars, beatVars
  <1>9. CASE Kernel
    BY <1>1, <1>9 DEF Kernel, KernelReplies, KernelPublishes, KernelEchoes, userVars, beatVars, iopubVars
  <1>10. CASE UNCHANGED vars
    BY <1>1, <1>10 DEF vars, userVars, beatVars, iopubVars
  <1>11. QED
    BY <1>2, <1>3, <1>4, <1>5, <1>6, <1>7, <1>8, <1>9, <1>10 DEF Next, User, Inside

-----------------------------------------------------------------------------
(* The queue of the iopub thread.                                           *)

\* A pop hands over what is at the back and leaves nothing of it there
\* (xiopub_client.cpp:45-58).
LEMMA PopOrder ==
    ASSUME TypeOK, NoMessageTwice, BackInv, Pop
    PROVE  NoMessageTwice' /\ BackInv'
  <1> DEFINE m == queue[Len(queue)]
             k == Len(delivered)
  <1>1. /\ queue' \in Seq(0 .. pushed)
        /\ Len(queue') = Len(queue) - 1
        /\ Len(queue) \in Nat \ {0}
        /\ Len(queue) # 1 => queue'[Len(queue')] = Hollow
        /\ delivered' = Append(delivered, m)
        /\ m \in 0 .. pushed
        /\ pushed' = pushed
    BY PopType
  <1>2. delivered \in Seq(0 .. pushed) /\ pushed \in Nat /\ queue \in Seq(0 .. pushed) /\ queue # <<>>
    BY DEF TypeOK, IopubOK, Pop
  <1>3. \A i \in 1 .. k : delivered[i] \in 0 .. pushed
    BY <1>2
  <1>4. m # Hollow => \A i \in 1 .. k : delivered[i] < m
    BY <1>2 DEF BackInv
  <1> HIDE DEF m
  <1>5. /\ Len(delivered') = k + 1 /\ k \in Nat
        /\ delivered'[k + 1] = m
        /\ \A i \in 1 .. k : delivered'[i] = delivered[i]
        /\ DOMAIN delivered' = 1 .. k + 1 /\ DOMAIN delivered = 1 .. k
    BY <1>1, <1>2
  <1>6. k + Len(queue) = pushed
    BY DEF NoMessageTwice
  <1>7. Len(delivered') + Len(queue') = pushed'
    BY <1>1, <1>5, <1>6
  <1>8. \A i, j \in 1 .. k : i < j /\ delivered[i] # Hollow /\ delivered[j] # Hollow
                               => delivered[i] < delivered[j]
    BY <1>5 DEF NoMessageTwice
  <1> HIDE DEF k
  <1>9. ASSUME NEW i \in 1 .. k + 1, NEW j \in 1 .. k + 1, i < j,
               delivered'[i] # Hollow, delivered'[j] # Hollow
        PROVE  delivered'[i] < delivered'[j]
    <2>1. i \in 1 .. k
      BY <1>5, <1>9
    <2>2. CASE j = k + 1
      BY <1>4, <1>5, <1>9, <2>1, <2>2
    <2>3. CASE j \in 1 .. k
      BY <1>5, <1>8, <1>9, <2>1, <2>3
    <2>4. QED
      BY <1>5, <2>2, <2>3
  <1>10. NoMessageTwice'
    BY <1>5, <1>7, <1>9 DEF NoMessageTwice
  <1>11. BackInv'
    <2>1. CASE Len(queue) = 1
      <3>1. queue' = <<>>
        BY <1>1, <2>1
      <3>2. QED
        BY <3>1 DEF BackInv
    <2>2. CASE Len(queue) # 1
      BY <1>1, <2>2 DEF BackInv
    <2>3. QED
      BY <2>1, <2>2
  <1>12. QED
    BY <1>10, <1>11

\* What is pushed is newer than all that was handed over (xiopub_client.cpp:75-79).
LEMMA PushOrder ==
    ASSUME TypeOK, NoMessageTwice, BackInv, PushMessage, UNCHANGED delivered
    PROVE  NoMessageTwice' /\ BackInv'
  <1>1. CASE UNCHANGED <<queue, pushed>>
    BY <1>1 DEF NoMessageTwice, BackInv
  <1>2. CASE pushed' = pushed + 1 /\ queue' = Append(queue, pushed + 1)
    <2>1. delivered \in Seq(0 .. pushed) /\ pushed \in Nat /\ queue \in Seq(0 .. pushed)
      BY DEF TypeOK, IopubOK
    <2>2. Len(queue') = Len(queue) + 1 /\ queue'[Len(queue')] = pushed + 1 /\ Len(queue) \in Nat
      BY <1>2, <2>1
    <2>3. \A i \in DOMAIN delivered : delivered[i] < pushed + 1
      BY <2>1
    <2>4. BackInv'
      BY <2>2, <2>3 DEF BackInv
    <2>5. Len(delivered) + Len(queue) = pushed /\ Len(delivered) \in Nat
      BY <2>1 DEF NoMessageTwice
    <2>6. Len(delivered') + Len(queue') = pushed'
      BY <1>2, <2>1, <2>2, <2>5
    <2>7. NoMessageTwice'
      BY <2>6 DEF NoMessageTwice
    <2>8. QED
      BY <2>4, <2>7
  <1>3. QED
    BY <1>1, <1>2, PushType

\* Every step keeps the order in which messages are handed over.
LEMMA OrderStep == TypeOK /\ NoMessageTwice /\ BackInv /\ [Next]_vars => NoMessageTwice' /\ BackInv'
  <1> SUFFICES ASSUME TypeOK, NoMessageTwice, BackInv, [Next]_vars PROVE NoMessageTwice' /\ BackInv'
    OBVIOUS
  <1>1. CASE UNCHANGED <<queue, pushed, delivered>>
    BY <1>1 DEF NoMessageTwice, BackInv
  <1>2. CASE PopMessage \/ WaitForMessage
    BY <1>1, <1>2, PopOrder DEF PopMessage, WaitForMessage, iopubVars
  <1>3. CASE Connect \/ Start \/ (\E c \in Channels : Receive(c)) \/ CallStop \/ CallDestroy \/ Inside
    BY <1>1, <1>3 DEF Connect, Start, Receive, CallStop, CallDestroy, Inside, Poll, StopChannels,
                      Destroy, iopubVars
  <1>4. CASE Iopub
    BY <1>1, <1>4, PushOrder DEF Iopub, IopubStep, DropMessage, IopubTurn, IopubLastTurn, IopubLeaves
  <1>5. CASE Beat \/ Kernel \/ UNCHANGED vars
    BY <1>1, <1>5 DEF Beat, Kernel, KernelReplies, KernelPublishes, KernelEchoes, vars, iopubVars
  <1>6. QED
    BY <1>2, <1>3, <1>4, <1>5 DEF Next, User

-----------------------------------------------------------------------------
\* The invariant holds before the user has done anything.
LEMMA InitInv == Init => IInv
  <1> SUFFICES ASSUME Init PROVE IInv
    OBVIOUS
  <1>1. TypeOK
    <2>1. BeatOK
      <3>1. 0 \in 0 .. MaxRetry
        BY RetryAssumption
      <3>2. QED
        BY <3>1, Zenon DEF Init, BeatInit, BeatOK, BeatState, Ping
    <2>2. IopubOK
      BY DEF Init, IopubInit, IopubOK
    <2>3. link \in [{"iopub", "heartbeat"} -> Link]
      BY DEF Init, Link, IdleLink, Body
    <2>4. replies \in [Channels -> Seq(Message)] /\ sent \in [Channels \union {"iopub"} -> Nat]
      BY DEF Init
    <2>5. QED
      BY <2>1, <2>2, <2>3, <2>4 DEF Init, TypeOK, UserState
  <1>2. LinkInv /\ JoinInv
    BY DEF Init, BeatInit, IopubInit, LinkInv, JoinInv, IdleLink
  <1>3. NoMessageTwice /\ BackInv
    BY DEF Init, IopubInit, NoMessageTwice, BackInv
  <1>4. QED
    BY <1>1, <1>2, <1>3 DEF IInv

\* The inductive invariant of the client.
THEOREM Invariance == Spec => []IInv
  <1>1. IInv /\ [Next]_vars => IInv'
    BY TypeStep, LinkStep, JoinStep, OrderStep DEF IInv
  <1>2. QED
    BY <1>1, InitInv, PTL DEF Spec

\* The client and its threads keep to the types of their state.
THEOREM TypeCorrect == Spec => []TypeOK
  BY Invariance, PTL DEF IInv

\* No message is handed over twice or behind a later one (xiopub_client.cpp:45-58).
THEOREM HandedOnce == Spec => []NoMessageTwice
  BY Invariance, PTL DEF IInv

\* The sockets of the client are closed when its threads have returned and nothing
\* is under way to them (xclient_zmq_impl.hpp:97-106).
THEOREM SocketsClosedLast == Spec => []SocketsOutliveThreads
  <1>1. IInv => SocketsOutliveThreads
    BY DEF IInv, TypeOK, LinkInv, JoinInv, SocketsOutliveThreads
  <1>2. QED
    BY <1>1, Invariance, PTL

=============================================================================

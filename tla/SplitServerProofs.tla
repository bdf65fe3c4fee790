------------------------- MODULE SplitServerProofs -------------------------
(***************************************************************************)
(* The safety of the split server, for any number of messages, prompts and *)
(* publications and for both threads the main thread can be.               *)
(***************************************************************************)
EXTENDS SplitServer, TLAPS

-----------------------------------------------------------------------------
(* The inductive invariant.                                                 *)

\* Where the control thread is when it has the answer of the shell, of the
\* publisher and of the heartbeat thread to its stop requests.
PastShell == {"stop_publisher", "wait_publisher", "stop_heartbeat", "wait_heartbeat", "done"}
PastPublisher == {"stop_heartbeat", "wait_heartbeat", "done"}
PastHeartbeat == {"done"}

\* The shell link is busy exactly while the control thread waits for the shell
\* thread, which has ended exactly when it has answered a stop request.
ShellLinkInv ==
    /\ control \notin {"asking", "wait_shell"} <=> link["shell"].phase = "idle"
    /\ control = "asking" => link["shell"].body = "json"
    /\ control = "wait_shell" => link["shell"].body = "stop"
    /\ shell = "internal" <=> link["shell"].phase = "serving"
    /\ link["shell"].phase = "serving" => control = "asking"
    /\ Ended(shell) <=>
          \/ control = "wait_shell" /\ link["shell"].phase = "reply"
          \/ control \in PastShell

\* The other two links carry nothing but one stop request and its answer.
PublisherLinkInv ==
    /\ control # "wait_publisher" <=> link["publisher"].phase = "idle"
    /\ link["publisher"].phase # "serving"
    /\ Ended(publisher) <=>
          \/ control = "wait_publisher" /\ link["publisher"].phase = "reply"
          \/ control \in PastPublisher

HeartbeatLinkInv ==
    /\ control # "wait_heartbeat" <=> link["heartbeat"].phase = "idle"
    /\ link["heartbeat"].phase # "serving"
    /\ Ended(heartbeat) <=>
          \/ control = "wait_heartbeat" /\ link["heartbeat"].phase = "reply"
          \/ control \in PastHeartbeat

\* No thread is started twice.
BirthInv ==
    /\ main = "spawn_publisher" => publisher = "unborn"
    /\ main \in {"spawn_publisher", "spawn_heartbeat"} => heartbeat = "unborn"
    /\ main \in {"spawn_publisher", "spawn_heartbeat", "spawn_runner"} =>
          control = "unborn" /\ shell = "unborn"
    /\ main = "publish_start" =>
          IF host = "control" THEN control = "unborn" ELSE shell = "unborn"

\* The destructor is past the join of a thread only when the thread has returned.
Closing == {"close_shell", "close_publisher", "close_heartbeat", "close_control", "destroyed"}

JoinInv ==
    /\ main \in {"join_control", "join_publisher", "join_heartbeat"} \union Closing
          => shell = "done"
    /\ main \in {"join_publisher", "join_heartbeat"} \union Closing => control = "done"
    /\ main \in {"join_heartbeat"} \union Closing => publisher = "done"
    /\ main \in Closing => heartbeat = "done"
    /\ closed # {} => main \in Closing

\* The message handed over after a stop request is the last one.
LateInv ==
    \/ late = 0
    \/ /\ late = 1
       /\ requestStop
       /\ control \notin {"unborn", "starting", "receiving"}

StopInv == ShellLinkInv /\ PublisherLinkInv /\ HeartbeatLinkInv /\ BirthInv

IInv == TypeOK /\ StopInv /\ JoinInv /\ LateInv

-----------------------------------------------------------------------------
(* Type correctness.                                                        *)

\* Sending to a socket and receiving from it keep the type of its queue.
LEMMA QueueTypes ==
    ASSUME NEW S, NEW q \in Seq(S)
    PROVE  /\ \A e \in S : Append(q, e) \in Seq(S)
           /\ q # <<>> => Tail(q) \in Seq(S) /\ Head(q) \in S
  OBVIOUS

\* xshell::publish and xcontrol::publish keep the type of what waits to be forwarded.
LEMMA PublishType ==
    ASSUME TypeOK, NEW c \in Channels, Publish(c)
    PROVE  inbox' \in [Channels -> Nat]
  BY DEF TypeOK, Publish

\* Forwarding a message (xpublisher.cpp:82-87) keeps the type of what waits.
LEMMA ForwardType ==
    ASSUME TypeOK, ForwardOne
    PROVE  inbox' \in [Channels -> Nat]
  <1>1. ASSUME NEW c \in Channels, inbox[c] > 0
        PROVE  inbox[c] - 1 \in Nat
    BY <1>1 DEF TypeOK
  <1>2. QED
    BY <1>1 DEF TypeOK, ForwardOne

\* Every operation of a controller link (xzmq_messenger.cpp:39-64) leads to a link.
LEMMA LinkType ==
    ASSUME TypeOK, NEW t \in Subthreads, NEW b \in Body
    PROVE  /\ Send(t, b) => link' \in [Subthreads -> Link]
           /\ Answer(t, b) => link' \in [Subthreads -> Link]
           /\ Collect(t) => link' \in [Subthreads -> Link]
           /\ link' = [link EXCEPT ![t].phase = "serving"] => link' \in [Subthreads -> Link]
           /\ link[t].body \in Body
  <1>1. link \in [Subthreads -> Link] /\ link[t] \in Link
    BY DEF TypeOK
  <1>2. Send(t, b) => link' \in [Subthreads -> Link]
    BY <1>1 DEF Send, Link
  <1>3. Answer(t, b) => link' \in [Subthreads -> Link]
    BY <1>1 DEF Answer, Link
  <1>4. ASSUME NEW p \in {"idle", "serving"}, link' = [link EXCEPT ![t].phase = p]
        PROVE  link' \in [Subthreads -> Link]
    <2>1. [link[t] EXCEPT !.phase = p] \in Link
      BY <1>1 DEF Link
    <2>2. QED
      BY <1>1, <1>4, <2>1
  <1>5. link[t].body \in Body
    BY <1>1 DEF Link
  <1>6. QED
    BY <1>2, <1>3, <1>4, <1>5 DEF Collect

\* start_impl and the destructor keep the type of the state.
LEMMA MainTyping == TypeOK /\ Main => TypeOK'
  <1> SUFFICES ASSUME TypeOK, Main PROVE TypeOK'
    OBVIOUS
  <1> USE DEF threadVars, clientVars, peerVars, PeersOK, runnerVars, Channels,
              MainState, ControlState, ShellState, PollerState
  <1>1. CASE SpawnPublisher BY <1>1 DEF TypeOK, SpawnPublisher
  <1>2. CASE SpawnHeartbeat BY <1>2 DEF TypeOK, SpawnHeartbeat
  <1>3. CASE SpawnRunner BY <1>3 DEF TypeOK, SpawnRunner
  <1>4. CASE PublishStart
    <2>1. host \in Channels BY DEF TypeOK
    <2>2. QED BY <1>4, <2>1, PublishType DEF TypeOK, PublishStart
  <1>5. CASE Return BY <1>5 DEF TypeOK, Return
  <1>6. CASE Join
    <2>1. main' \in MainState
      BY <1>6 DEF Join, Advance
    <2>2. /\ UNCHANGED <<host, control, shell, publisher, heartbeat>>
          /\ UNCHANGED <<clientVars, inbox, runnerVars, link, closed>>
      BY <1>6 DEF Join, Advance
    <2>3. QED
      BY <2>1, <2>2 DEF TypeOK
  <1>7. CASE Close
    <2>1. \E o \in {"shell", "publisher", "heartbeat", "control"} :
             closed' = closed \union {o}
      BY <1>7 DEF Close
    <2>2. closed' \subseteq {"shell", "publisher", "heartbeat", "control"}
      BY <2>1 DEF TypeOK
    <2>3. main' \in MainState
      BY <1>7 DEF Close, Advance
    <2>4. /\ UNCHANGED <<host, control, shell, publisher, heartbeat>>
          /\ UNCHANGED <<clientVars, inbox, runnerVars, link>>
      BY <1>7 DEF Close, Advance
    <2>5. QED
      BY <2>2, <2>3, <2>4 DEF TypeOK
  <1>8. QED BY <1>1, <1>2, <1>3, <1>4, <1>5, <1>6, <1>7 DEF Main

\* The control thread and its listener keep the type of the state.
LEMMA ControlTyping == TypeOK /\ (ControlStep \/ ControlListener) => TypeOK'
  <1> SUFFICES ASSUME TypeOK, ControlStep \/ ControlListener PROVE TypeOK'
    OBVIOUS
  <1> USE DEF threadVars, clientVars, peerVars, PeersOK, runnerVars, Channels, Subthreads, Body,
              ControlState
  <1>1. CASE StartControl BY <1>1 DEF TypeOK, StartControl
  <1>2. CASE CheckStop BY <1>2 DEF TypeOK, CheckStop
  <1>3. CASE ReceiveControl
    BY <1>3, QueueTypes DEF TypeOK, ReceiveControl
  <1>4. CASE CollectReply BY <1>4, LinkType DEF TypeOK, CollectReply
  <1>5. CASE StopChannels
    BY <1>5, LinkType DEF TypeOK, StopChannels, RequestStop, AwaitStop
  <1>6. CASE ControlPublishes BY <1>6, PublishType DEF TypeOK, ControlPublishes
  <1>7. CASE SendToShell BY <1>7, LinkType DEF TypeOK, SendToShell
  <1>8. CASE ControlCallsStop BY <1>8 DEF TypeOK, ControlCallsStop
  <1>9. CASE ControlReturns BY <1>9 DEF TypeOK, ControlReturns
  <1>10. QED
    BY <1>1, <1>2, <1>3, <1>4, <1>5, <1>6, <1>7, <1>8, <1>9
    DEF ControlStep, ControlListener

\* The shell thread and its listeners keep the type of the state.
LEMMA ShellTyping == TypeOK /\ (ShellStep \/ ShellListener) => TypeOK'
  <1> SUFFICES ASSUME TypeOK, ShellStep \/ ShellListener PROVE TypeOK'
    OBVIOUS
  <1> USE DEF threadVars, clientVars, peerVars, PeersOK, runnerVars, Channels, Subthreads, Body,
              ShellState
  <1>1. CASE ReadShell BY <1>1, QueueTypes DEF TypeOK, ReadShell
  <1>2. CASE ReadController BY <1>2, LinkType DEF TypeOK, ReadController
  <1>3. CASE ReceiveStdin BY <1>3 DEF TypeOK, ReceiveStdin
  <1>4. CASE AbortQueue
    <2>1. shellQ \in Seq(Message)
      BY DEF TypeOK
    <2>2. shellQ' \in Seq(Message)
      <3>1. CASE shellQ' = shellQ BY <3>1, <2>1
      <3>2. CASE shellQ # <<>> /\ shellQ' = Tail(shellQ) BY <3>2, <2>1, QueueTypes
      <3>3. QED BY <1>4, <3>1, <3>2 DEF AbortQueue
    <2>3. shell' \in ShellState
      BY <1>4 DEF TypeOK, AbortQueue
    <2>4. UNCHANGED <<host, main, control, publisher, heartbeat, controlQ, stdinQ, sent, peerVars>>
          /\ UNCHANGED <<inbox, runnerVars, link, closed>>
      BY <1>4 DEF AbortQueue
    <2>5. QED
      BY <2>2, <2>3, <2>4 DEF TypeOK
  <1>5. CASE LeaveShell BY <1>5 DEF TypeOK, LeaveShell
  <1>6. CASE ShellPublishes BY <1>6, PublishType DEF TypeOK, ShellPublishes
  <1>7. CASE ShellCallsStop BY <1>7 DEF TypeOK, ShellCallsStop
  <1>8. CASE ShellWaits BY <1>8 DEF TypeOK, ShellWaits
  <1>9. CASE ShellReturns BY <1>9, LinkType DEF TypeOK, ShellReturns
  <1>10. QED
    BY <1>1, <1>2, <1>3, <1>4, <1>5, <1>6, <1>7, <1>8, <1>9
    DEF ShellStep, ShellListener

\* The handling of an XPUB event (xpublisher.cpp:98-140) keeps the type of the peers.
LEMMA EventType ==
    ASSUME PeersOK, HandleEvent
    PROVE  events' \in Seq(Event) /\ welcomed' \in Nat
  <1>1. CASE UNCHANGED <<events, welcomed>>
    BY <1>1 DEF PeersOK
  <1>2. CASE events # <<>> /\ events' = Tail(events)
    <2>1. events \in Seq(Event) /\ welcomed \in Nat
      BY DEF PeersOK
    <2>2. events' \in Seq(Event)
      BY <1>2, <2>1, QueueTypes
    <2>3. QED
      BY <2>1, <2>2 DEF HandleEvent
  <1>3. QED
    BY <1>1, <1>2 DEF HandleEvent

\* The publisher and the heartbeat threads keep the type of the state.
LEMMA ServiceTyping ==
    TypeOK /\ (PublisherStep \/ HeartbeatStep) /\ UNCHANGED runnersVars => TypeOK'
  <1> SUFFICES ASSUME TypeOK, PublisherStep \/ HeartbeatStep, UNCHANGED runnersVars
               PROVE  TypeOK'
    OBVIOUS
  <1> USE DEF runnersVars, peerVars, Subthreads, PollerState
  <1>0. PeersOK
    BY DEF TypeOK
  <1>1. CASE PublishTurn
    BY <1>0, <1>1, ForwardType, EventType DEF TypeOK, PublishTurn, PeersOK
  <1>2. CASE PublishLastTurn
    <2>1. link["publisher"].body \in Body
      BY LinkType DEF Body
    <2>2. link' \in [Subthreads -> Link]
      BY <1>2, <2>1, LinkType DEF PublishLastTurn
    <2>3. QED
      BY <1>2, <2>2, ForwardType DEF TypeOK, PublishLastTurn, PeersOK
  <1>3. CASE PublisherLeaves BY <1>3 DEF TypeOK, PublisherLeaves, PeersOK
  <1>4. CASE EchoTurn BY <1>4 DEF TypeOK, EchoTurn, EchoOne, PeersOK
  <1>5. CASE EchoLastTurn
    <2>1. link["heartbeat"].body \in Body
      BY LinkType DEF Body
    <2>2. link' \in [Subthreads -> Link]
      BY <1>5, <2>1, LinkType DEF EchoLastTurn
    <2>3. PeersOK'
      BY <1>0, <1>5 DEF EchoLastTurn, EchoOne, PeersOK
    <2>4. QED
      BY <1>5, <2>2, <2>3 DEF TypeOK, EchoLastTurn
  <1>6. CASE HeartbeatLeaves BY <1>6 DEF TypeOK, HeartbeatLeaves, PeersOK
  <1>7. QED
    BY <1>1, <1>2, <1>3, <1>4, <1>5, <1>6 DEF PublisherStep, HeartbeatStep

\* What the clients send keeps the type of the state.
LEMMA ClientTyping == TypeOK /\ Client => TypeOK'
  <1> SUFFICES ASSUME TypeOK, Client PROVE TypeOK'
    OBVIOUS
  <1> USE BoundsAssumption DEF threadVars, runnerVars, peerVars, Channels
  <1>1. CASE \E m \in Message : ClientSendsControl(m)
    BY <1>1, QueueTypes DEF TypeOK, PeersOK, ClientSendsControl
  <1>2. CASE \E m \in Message : ClientSendsShell(m)
    BY <1>2, QueueTypes DEF TypeOK, PeersOK, ClientSendsShell
  <1>3. CASE ClientSendsInput BY <1>3 DEF TypeOK, PeersOK, ClientSendsInput
  <1>4. CASE Peer /\ UNCHANGED runnersVars
    <2>1. CASE \E e \in Event : PeerSends(e)
      BY <1>4, <2>1, QueueTypes DEF TypeOK, PeersOK, PeerSends, runnersVars
    <2>2. CASE PeerPings
      BY <1>4, <2>2 DEF TypeOK, PeersOK, PeerPings, runnersVars
    <2>3. QED BY <1>4, <2>1, <2>2 DEF Peer
  <1>5. QED BY <1>1, <1>2, <1>3, <1>4 DEF Client

\* The constructed server has its type.
LEMMA TypingInit == Init => TypeOK
  <1> SUFFICES ASSUME Init PROVE TypeOK
    OBVIOUS
  <1>1. link \in [Subthreads -> Link]
    BY DEF Init, IdleLink, Link, Body
  <1>2. controlQ \in Seq(Message) /\ shellQ \in Seq(Message) /\ PeersOK
    BY DEF Init, PeersInit, PeersOK
  <1>3. QED
    BY <1>1, <1>2
    DEF Init, TypeOK, MainState, ControlState, ShellState, PollerState

\* Every step of the server and of its clients keeps the type of the state.
LEMMA TypingStep == TypeOK /\ [Next]_vars => TypeOK'
  <1> SUFFICES ASSUME TypeOK, [Next]_vars PROVE TypeOK'
    OBVIOUS
  <1>1. CASE UNCHANGED vars
    BY <1>1 DEF TypeOK, vars, threadVars, clientVars, peerVars, PeersOK, runnerVars
  <1>2. CASE Next
    BY <1>2, MainTyping, ControlTyping, ShellTyping, ServiceTyping, ClientTyping
    DEF Next, Server
  <1>3. QED BY <1>1, <1>2

\* The state of the split server keeps its type, in both variants and for any
\* number of messages (xserver_zmq_split.cpp, xserver_zmq_split_impl.cpp).
THEOREM TypeCorrect == Spec => []TypeOK
  BY TypingInit, TypingStep, PTL DEF Spec

-----------------------------------------------------------------------------
(* The stop protocol.                                                       *)

\* What the stop protocol is about: where the threads are, and the links.
protocolVars == <<threadVars, link>>

\* Every link is idle and no thread has ended when the server is constructed.
LEMMA StopInvInit == Init => StopInv
  BY DEF Init, IdleLink, StopInv, ShellLinkInv, PublisherLinkInv, HeartbeatLinkInv, BirthInv,
         Ended, PastShell, PastPublisher, PastHeartbeat, Subthreads

\* What moves no thread and uses no link keeps the invariant of the stop protocol.
LEMMA StopInvFrame == StopInv /\ UNCHANGED protocolVars => StopInv'
  BY DEF StopInv, ShellLinkInv, PublisherLinkInv, HeartbeatLinkInv, BirthInv,
         Ended, protocolVars, threadVars

\* start_impl, which starts each thread once, and the destructor keep it.
LEMMA StopInvMain == TypeOK /\ StopInv /\ Main => StopInv'
  <1> SUFFICES ASSUME TypeOK, StopInv, Main PROVE StopInv'
    OBVIOUS
  <1> USE DEF StopInv, ShellLinkInv, PublisherLinkInv, HeartbeatLinkInv, BirthInv,
              Ended, PastShell, PastPublisher, PastHeartbeat
  <1>0. host \in {"control", "shell"}
    BY DEF TypeOK, Channels
  <1>1. CASE SpawnPublisher BY <1>1 DEF SpawnPublisher
  <1>2. CASE SpawnHeartbeat BY <1>2 DEF SpawnHeartbeat
  <1>3. CASE SpawnRunner BY <1>0, <1>3 DEF SpawnRunner
  <1>4. CASE PublishStart BY <1>0, <1>4 DEF PublishStart
  <1>5. CASE Return BY <1>5 DEF Return
  <1>6. CASE Join BY <1>6 DEF Join, Advance
  <1>7. CASE Close BY <1>7 DEF Close, Advance
  <1>8. QED BY <1>1, <1>2, <1>3, <1>4, <1>5, <1>6, <1>7 DEF Main

\* The control thread sends on an idle link only and waits for the answer
\* (xzmq_messenger.cpp:39-64).
LEMMA StopInvControl == TypeOK /\ StopInv /\ (ControlStep \/ ControlListener) => StopInv'
  <1> SUFFICES ASSUME TypeOK, StopInv, ControlStep \/ ControlListener PROVE StopInv'
    OBVIOUS
  <1>0. link \in [Subthreads -> Link]
    BY DEF TypeOK
  <1> USE DEF StopInv, ShellLinkInv, PublisherLinkInv, HeartbeatLinkInv, BirthInv,
              Ended, PastShell, PastPublisher, PastHeartbeat
  <1>1. CASE StartControl BY <1>1 DEF StartControl
  <1>2. CASE CheckStop BY <1>2 DEF CheckStop
  <1>3. CASE ReceiveControl BY <1>3 DEF ReceiveControl
  <1>4. CASE CollectReply BY <1>0, <1>4 DEF CollectReply, Collect, Subthreads, Link
  <1>5. CASE StopChannels
    <2> USE <1>0, <1>5 DEF RequestStop, AwaitStop, Send, Collect, Subthreads, Link
    <2>1. CASE RequestStop("shell", "stop", "stop_shell", "wait_shell")
      BY <2>1 DEF StopChannels
    <2>2. CASE AwaitStop("shell", "wait_shell", "stop_publisher")
      BY <2>2 DEF StopChannels
    <2>3. CASE RequestStop("publisher", "empty", "stop_publisher", "wait_publisher")
      BY <2>3 DEF StopChannels
    <2>4. CASE AwaitStop("publisher", "wait_publisher", "stop_heartbeat")
      BY <2>4 DEF StopChannels
    <2>5. CASE RequestStop("heartbeat", "empty", "stop_heartbeat", "wait_heartbeat")
      BY <2>5 DEF StopChannels
    <2>6. CASE AwaitStop("heartbeat", "wait_heartbeat", "done")
      BY <2>6 DEF StopChannels
    <2>7. QED
      BY <2>1, <2>2, <2>3, <2>4, <2>5, <2>6 DEF StopChannels
  <1>6. CASE ControlPublishes BY <1>6, StopInvFrame DEF ControlPublishes, protocolVars
  <1>7. CASE SendToShell BY <1>0, <1>7 DEF SendToShell, Send, Subthreads, Link
  <1>8. CASE ControlCallsStop BY <1>8, StopInvFrame DEF ControlCallsStop, protocolVars
  <1>9. CASE ControlReturns BY <1>9 DEF ControlReturns
  <1>10. QED
    BY <1>1, <1>2, <1>3, <1>4, <1>5, <1>6, <1>7, <1>8, <1>9
    DEF ControlStep, ControlListener

\* The shell thread answers each request once, and ends on "stop"
\* (xshell_default_runner.cpp:23-36).
LEMMA StopInvShell == TypeOK /\ StopInv /\ (ShellStep \/ ShellListener) => StopInv'
  <1> SUFFICES ASSUME TypeOK, StopInv, ShellStep \/ ShellListener PROVE StopInv'
    OBVIOUS
  <1>0. link \in [Subthreads -> Link]
    BY DEF TypeOK
  <1> USE DEF StopInv, ShellLinkInv, PublisherLinkInv, HeartbeatLinkInv, BirthInv,
              Ended, PastShell, PastPublisher, PastHeartbeat
  <1>1. CASE ReadShell BY <1>1 DEF ReadShell
  <1>2. CASE ReadController
    BY <1>0, <1>2 DEF ReadController, Requested, Answer, Subthreads, Link
  <1>3. CASE ReceiveStdin BY <1>3 DEF ReceiveStdin
  <1>4. CASE AbortQueue BY <1>4 DEF AbortQueue
  <1>5. CASE LeaveShell BY <1>5 DEF LeaveShell
  <1>6. CASE ShellPublishes BY <1>6, StopInvFrame DEF ShellPublishes, protocolVars
  <1>7. CASE ShellCallsStop BY <1>7, StopInvFrame DEF ShellCallsStop, protocolVars
  <1>8. CASE ShellWaits BY <1>8 DEF ShellWaits
  <1>9. CASE ShellReturns BY <1>0, <1>9 DEF ShellReturns, Answer, Subthreads, Link
  <1>10. QED
    BY <1>1, <1>2, <1>3, <1>4, <1>5, <1>6, <1>7, <1>8, <1>9
    DEF ShellStep, ShellListener

\* The publisher and the heartbeat threads end when they answer
\* (xpublisher.cpp:89-96, xheartbeat.cpp:70-77).
LEMMA StopInvServices ==
    TypeOK /\ StopInv /\ (PublisherStep \/ HeartbeatStep) /\ UNCHANGED runnersVars
        => StopInv'
  <1> SUFFICES ASSUME TypeOK, StopInv, PublisherStep \/ HeartbeatStep, UNCHANGED runnersVars
               PROVE  StopInv'
    OBVIOUS
  <1>0. link \in [Subthreads -> Link]
    BY DEF TypeOK
  <1> USE DEF StopInv, ShellLinkInv, PublisherLinkInv, HeartbeatLinkInv, BirthInv,
              Ended, PastShell, PastPublisher, PastHeartbeat, runnersVars
  <1>1. CASE PublishTurn
    BY <1>1, StopInvFrame DEF PublishTurn, protocolVars, threadVars
  <1>2. CASE PublishLastTurn
    BY <1>0, <1>2 DEF PublishLastTurn, Requested, Answer, Subthreads, Link
  <1>3. CASE PublisherLeaves BY <1>3 DEF PublisherLeaves
  <1>4. CASE EchoTurn
    BY <1>4, StopInvFrame DEF EchoTurn, protocolVars, threadVars
  <1>5. CASE EchoLastTurn
    BY <1>0, <1>5 DEF EchoLastTurn, Requested, Answer, Subthreads, Link
  <1>6. CASE HeartbeatLeaves BY <1>6 DEF HeartbeatLeaves
  <1>7. QED
    BY <1>1, <1>2, <1>3, <1>4, <1>5, <1>6 DEF PublisherStep, HeartbeatStep

\* Every step keeps the invariant of the stop protocol.
LEMMA StopInvStep == TypeOK /\ StopInv /\ [Next]_vars => StopInv'
  <1> SUFFICES ASSUME TypeOK, StopInv, [Next]_vars PROVE StopInv'
    OBVIOUS
  <1>1. CASE UNCHANGED vars
    BY <1>1, StopInvFrame DEF vars, protocolVars
  <1>2. CASE Client
    BY <1>2, StopInvFrame
    DEF Client, ClientSendsControl, ClientSendsShell, ClientSendsInput, Peer, PeerSends,
        PeerPings, protocolVars, threadVars, runnersVars
  <1>3. CASE Server
    BY <1>3, StopInvMain, StopInvControl, StopInvShell, StopInvServices DEF Server
  <1>4. QED BY <1>1, <1>2, <1>3 DEF Next

-----------------------------------------------------------------------------
(* The destruction.                                                         *)

\* A thread that has returned takes no step, and only the main thread, past its
\* joins, closes sockets (xthread.hpp:72-78).
LEMMA JoinInvStep == TypeOK /\ StopInv /\ JoinInv /\ [Next]_vars => JoinInv'
  <1> SUFFICES ASSUME TypeOK, StopInv, JoinInv, [Next]_vars PROVE JoinInv'
    OBVIOUS
  <1> USE DEF JoinInv, Closing
  <1>1. CASE UNCHANGED vars
    BY <1>1 DEF vars, threadVars
  <1>2. CASE Main
    <2>1. CASE SpawnPublisher BY <2>1 DEF SpawnPublisher
    <2>2. CASE SpawnHeartbeat BY <2>2 DEF SpawnHeartbeat
    <2>3. CASE SpawnRunner BY <2>3 DEF SpawnRunner
    <2>4. CASE PublishStart BY <2>4 DEF PublishStart
    <2>5. CASE Return BY <2>5 DEF Return
    <2>6. CASE Join BY <2>6 DEF Join, Advance
    <2>7. CASE Close BY <2>7 DEF Close, Advance
    <2>8. QED BY <1>2, <2>1, <2>2, <2>3, <2>4, <2>5, <2>6, <2>7 DEF Main
  <1>3. CASE ControlStep \/ ControlListener
    <2>1. UNCHANGED <<main, shell, publisher, heartbeat, closed>> /\ control # "done"
      BY <1>3 DEF ControlStep, ControlListener, StartControl, CheckStop, ReceiveControl,
                  CollectReply, StopChannels, RequestStop, AwaitStop, ControlPublishes,
                  SendToShell, ControlCallsStop, ControlReturns, threadVars
    <2>2. QED BY <2>1
  <1>4. CASE ShellStep \/ ShellListener
    <2>1. UNCHANGED <<main, control, publisher, heartbeat, closed>> /\ shell # "done"
      BY <1>4 DEF ShellStep, ShellListener, ReadShell, ReadController, ReceiveStdin,
                  AbortQueue, LeaveShell, ShellPublishes, ShellCallsStop, ShellWaits,
                  ShellReturns, threadVars
    <2>2. QED BY <2>1
  <1>5. CASE PublisherStep /\ UNCHANGED runnersVars
    <2>1. UNCHANGED <<main, control, shell, heartbeat, closed>> /\ publisher # "done"
      BY <1>5 DEF PublisherStep, PublishTurn, PublishLastTurn, PublisherLeaves, runnersVars
    <2>2. QED BY <2>1
  <1>6. CASE HeartbeatStep /\ UNCHANGED runnersVars
    <2>1. UNCHANGED <<main, control, shell, publisher, closed>> /\ heartbeat # "done"
      BY <1>6 DEF HeartbeatStep, EchoTurn, EchoLastTurn, HeartbeatLeaves, runnersVars
    <2>2. QED BY <2>1
  <1>7. CASE Client
    BY <1>7 DEF Client, ClientSendsControl, ClientSendsShell, ClientSendsInput, Peer,
                PeerSends, PeerPings, threadVars, runnersVars
  <1>8. QED
    BY <1>1, <1>2, <1>3, <1>4, <1>5, <1>6, <1>7 DEF Next, Server

-----------------------------------------------------------------------------
(* The late message.                                                        *)

\* The control loop tests the flag after each message it hands over
\* (xcontrol_default_runner.cpp:18-25), so a late message is the last.
LEMMA LateInvStep == TypeOK /\ StopInv /\ LateInv /\ [Next]_vars => LateInv'
  <1> SUFFICES ASSUME TypeOK, StopInv, LateInv, [Next]_vars PROVE LateInv'
    OBVIOUS
  <1> USE DEF LateInv
  <1>1. CASE UNCHANGED <<control, requestStop, late>>
    BY <1>1
  <1>2. CASE Main
    <2>1. UNCHANGED <<requestStop, late>> /\ (control' = control \/ control = "unborn")
      BY <1>2 DEF Main, SpawnPublisher, SpawnHeartbeat, SpawnRunner, PublishStart, Return,
                  Join, Close, Advance, runnerVars, StopInv, BirthInv
    <2>2. QED BY <2>1
  <1>3. CASE ControlStep \/ ControlListener
    <2>1. CASE StartControl BY <2>1 DEF StartControl
    <2>2. CASE CheckStop BY <2>2 DEF CheckStop, runnerVars
    <2>3. CASE ReceiveControl BY <2>3 DEF ReceiveControl
    <2>4. CASE CollectReply BY <2>4 DEF CollectReply, runnerVars
    <2>5. CASE StopChannels
      BY <2>5 DEF StopChannels, RequestStop, AwaitStop, runnerVars
    <2>6. CASE ControlListener
      BY <2>6 DEF ControlListener, ControlPublishes, SendToShell, ControlCallsStop,
                  ControlReturns, threadVars, runnerVars
    <2>7. QED
      BY <1>3, <2>1, <2>2, <2>3, <2>4, <2>5, <2>6 DEF ControlStep
  <1>4. CASE ShellStep \/ ShellListener
    <2>1. UNCHANGED <<control, late>> /\ (requestStop' = requestStop \/ requestStop')
      BY <1>4 DEF ShellStep, ShellListener, ReadShell, ReadController, ReceiveStdin,
                  AbortQueue, LeaveShell, ShellPublishes, ShellCallsStop, ShellWaits,
                  ShellReturns, threadVars, runnerVars
    <2>2. QED BY <2>1
  <1>5. CASE UNCHANGED runnersVars \/ Client
    BY <1>1, <1>5
    DEF runnersVars, Client, ClientSendsControl, ClientSendsShell, ClientSendsInput,
        threadVars, runnerVars
  <1>6. QED
    BY <1>1, <1>2, <1>3, <1>4, <1>5 DEF Next, Server, vars, threadVars, runnerVars

-----------------------------------------------------------------------------
(* The inductive invariant and what it implies.                             *)

\* The inductive invariant holds of the constructed server.
LEMMA IInvInit == Init => IInv
  BY TypingInit, StopInvInit DEF Init, IInv, JoinInv, LateInv, Closing

\* Every step keeps the inductive invariant.
LEMMA IInvStep == IInv /\ [Next]_vars => IInv'
  BY TypingStep, StopInvStep, JoinInvStep, LateInvStep DEF IInv

\* The stop protocol (xzmq_messenger.cpp:39-64, the runners and the destructor)
\* keeps the inductive invariant.
THEOREM Invariance == Spec => []IInv
  BY IInvInit, IInvStep, PTL DEF Spec

\* No send of a controller socket finds the socket in a state where it throws
\* (xzmq_messenger.cpp:39-64, xshell.cpp:128-132).
THEOREM LegalSends == Spec => []SendsAreLegal
  <1>1. IInv => SendsAreLegal
    BY DEF IInv, StopInv, ShellLinkInv, PublisherLinkInv, HeartbeatLinkInv, SendsAreLegal
  <1>2. QED BY <1>1, Invariance, PTL

\* When the publisher has answered its stop request, no runner publishes any
\* more (xzmq_messenger.cpp:39-55).
THEOREM PublisherStopsLast == Spec => []PublisherOutlivesItsUsers
  <1>1. IInv => PublisherOutlivesItsUsers
    BY DEF IInv, StopInv, ShellLinkInv, PublisherLinkInv, PublisherOutlivesItsUsers,
           Ended, PastShell, PastPublisher
  <1>2. QED BY <1>1, Invariance, PTL

\* No socket is closed before every thread has returned (xthread.hpp:72-78).
THEOREM SocketsClosedLast == Spec => []SocketsOutliveThreads
  <1>1. IInv => SocketsOutliveThreads
    BY DEF IInv, JoinInv, Closing, SocketsOutliveThreads
  <1>2. QED BY <1>1, Invariance, PTL

\* The control listener gets at most one message after a stop request
\* (xcontrol_default_runner.cpp:18-25).
THEOREM OneLateMessage == Spec => []AtMostOneLateMessage
  <1>1. IInv => AtMostOneLateMessage
    BY DEF IInv, LateInv, AtMostOneLateMessage
  <1>2. QED BY <1>1, Invariance, PTL

-----------------------------------------------------------------------------
(* The threads never wait for each other in a circle.                       *)

Spawning == {"spawn_publisher", "spawn_heartbeat", "spawn_runner"}

\* A thread that has not been started is one that start_impl has still to start.
BornInv ==
    /\ publisher = "unborn" => main = "spawn_publisher"
    /\ heartbeat = "unborn" => main \in {"spawn_publisher", "spawn_heartbeat"}
    /\ control = "unborn" => main \in Spawning \/ (main = "publish_start" /\ host = "control")
    /\ shell = "unborn" => main \in Spawning \/ (main = "publish_start" /\ host = "shell")

\* Only the main thread starts threads, and none returns to where it was before
\* its start (xserver_zmq_split.cpp, start_impl).
LEMMA BornInvStep == TypeOK /\ BornInv /\ [Next]_vars => BornInv'
  <1> SUFFICES ASSUME TypeOK, BornInv, [Next]_vars PROVE BornInv'
    OBVIOUS
  <1> USE DEF BornInv, Spawning
  <1>1. CASE UNCHANGED threadVars
    BY <1>1 DEF threadVars
  <1>2. CASE Main
    <2>0. host \in {"control", "shell"}
      BY DEF TypeOK, Channels
    <2>1. CASE SpawnPublisher BY <2>1 DEF SpawnPublisher
    <2>2. CASE SpawnHeartbeat BY <2>2 DEF SpawnHeartbeat
    <2>3. CASE SpawnRunner BY <2>0, <2>3 DEF SpawnRunner
    <2>4. CASE PublishStart BY <2>0, <2>4 DEF PublishStart
    <2>5. CASE Return BY <2>5 DEF Return
    <2>6. CASE Join BY <2>6 DEF Join, Advance
    <2>7. CASE Close BY <2>7 DEF Close, Advance
    <2>8. QED BY <1>2, <2>1, <2>2, <2>3, <2>4, <2>5, <2>6, <2>7 DEF Main
  <1>3. CASE ControlStep \/ ControlListener
    <2>1. UNCHANGED <<host, main, shell, publisher, heartbeat>>
          /\ (control' = "unborn" => control = "unborn")
      BY <1>3 DEF ControlStep, ControlListener, StartControl, CheckStop, ReceiveControl,
                  CollectReply, StopChannels, RequestStop, AwaitStop, ControlPublishes,
                  SendToShell, ControlCallsStop, ControlReturns, threadVars
    <2>2. QED BY <2>1
  <1>4. CASE ShellStep \/ ShellListener
    <2>1. UNCHANGED <<host, main, control, publisher, heartbeat>>
          /\ (shell' = "unborn" => shell = "unborn")
      BY <1>4 DEF ShellStep, ShellListener, ReadShell, ReadController, ReceiveStdin,
                  AbortQueue, LeaveShell, ShellPublishes, ShellCallsStop, ShellWaits,
                  ShellReturns, threadVars
    <2>2. QED BY <2>1
  <1>5. CASE (PublisherStep \/ HeartbeatStep) /\ UNCHANGED runnersVars
    BY <1>5 DEF PublisherStep, PublishTurn, PublishLastTurn, PublisherLeaves, HeartbeatStep,
                EchoTurn, EchoLastTurn, HeartbeatLeaves, runnersVars
  <1>6. CASE Client
    BY <1>6 DEF Client, ClientSendsControl, ClientSendsShell, ClientSendsInput, Peer,
                PeerSends, PeerPings, threadVars, runnersVars
  <1>7. QED
    BY <1>1, <1>2, <1>3, <1>4, <1>5, <1>6 DEF Next, Server, vars

\* Once the control thread has ended, so have the others, and the main thread
\* can go on.
LEMMA EndIsReached ==
    ASSUME IInv, BornInv, EveryThreadBlocks, control = "done"
    PROVE  main = "destroyed"
  <1>1. shell = "done" /\ publisher = "done" /\ heartbeat = "done"
    BY DEF IInv, StopInv, ShellLinkInv, PublisherLinkInv, HeartbeatLinkInv, Ended, PastShell,
           PastPublisher, PastHeartbeat, EveryThreadBlocks, ShellBlocks, PublisherBlocks,
           HeartbeatBlocks
  <1>2. QED
    BY <1>1 DEF EveryThreadBlocks, MainBlocks

\* What the control thread waits for comes: the thread it asks is not past its
\* answer, and looks for requests whenever it has nothing else to do.
LEMMA ReplyIsUnderWay ==
    ASSUME IInv, BornInv, EveryThreadBlocks
    PROVE  /\ control \in {"asking", "wait_shell"} => shell = "stdin"
           /\ control \notin {"wait_publisher", "wait_heartbeat"}
  <1> USE DEF IInv, StopInv, Ended, EveryThreadBlocks, ControlBlocks, NoReply, Requested
  <1>0. \A t \in Subthreads : link[t].phase \in {"idle", "request", "serving", "reply"}
    BY DEF TypeOK, Link
  <1>1. ASSUME control \in {"asking", "wait_shell"}, shell # "stdin"
        PROVE  FALSE
    <2>1. link["shell"].phase # "idle" /\ link["shell"].phase # "reply"
      BY <1>1 DEF ShellLinkInv
    <2>2. ~Requested("shell") => shell = "internal"
      BY <1>0, <2>1 DEF ShellLinkInv, Subthreads
    <2>3. shell # "unborn" 
      BY <1>1 DEF BornInv, BirthInv, Spawning, MainBlocks
    <2>4. shell # "done"
      BY <1>1, <2>1 DEF ShellLinkInv, PastShell
    <2>5. QED
      BY <1>1, <2>2, <2>3, <2>4 DEF ShellBlocks
  <1>2. control # "wait_publisher"
    <2> SUFFICES ASSUME control = "wait_publisher" PROVE FALSE
      OBVIOUS
    <2>1. Requested("publisher")
      BY <1>0 DEF PublisherLinkInv, Subthreads
    <2>2. publisher # "unborn"
      BY DEF BornInv, MainBlocks
    <2>3. publisher # "done"
      BY <2>1 DEF PublisherLinkInv, PastPublisher
    <2>4. QED
      BY <2>1, <2>2, <2>3 DEF PublisherBlocks
  <1>3. control # "wait_heartbeat"
    <2> SUFFICES ASSUME control = "wait_heartbeat" PROVE FALSE
      OBVIOUS
    <2>1. Requested("heartbeat")
      BY <1>0 DEF HeartbeatLinkInv, Subthreads
    <2>2. heartbeat # "unborn"
      BY DEF BornInv, MainBlocks
    <2>3. heartbeat # "done"
      BY <2>1 DEF HeartbeatLinkInv, PastHeartbeat
    <2>4. QED
      BY <2>1, <2>2, <2>3 DEF HeartbeatBlocks
  <1>4. QED
    BY <1>1, <1>2, <1>3

\* However the steps of the threads interleave, a server in which every thread
\* is in a call that does not return waits for its clients, or is no more
\* (xzmq_messenger.cpp:39-64, xshell.cpp:113-124).
THEOREM NoCircularWait == Spec => []WaitsOnlyForClients
  <1>1. Init => BornInv
    <2>1. Init => main = "spawn_publisher" BY DEF Init
    <2>2. QED BY <2>1 DEF BornInv, Spawning
  <1>2. Spec => []BornInv
    BY <1>1, BornInvStep, TypeCorrect, PTL DEF Spec
  <1>3. ASSUME IInv, BornInv, EveryThreadBlocks
        PROVE  main = "destroyed" \/ shell = "stdin" \/ (control = "receiving" /\ shell = "polling")
    <2>1. CASE control = "done"
      BY <1>3, <2>1, EndIsReached
    <2>2. CASE control = "unborn"
      BY <1>3, <2>2 DEF BornInv, Spawning, EveryThreadBlocks, MainBlocks
    <2>3. CASE control = "receiving"
      <3>1. shell # "unborn"
        BY <1>3, <2>3 DEF IInv, StopInv, BirthInv, BornInv, Spawning, EveryThreadBlocks, MainBlocks
      <3>2. shell # "done"
        BY <1>3, <2>3 DEF IInv, StopInv, ShellLinkInv, Ended, PastShell
      <3>3. QED
        BY <1>3, <2>3, <3>1, <3>2 DEF EveryThreadBlocks, ShellBlocks
    <2>4. CASE control \notin {"done", "unborn", "receiving"}
      BY <1>3, <2>4, ReplyIsUnderWay DEF EveryThreadBlocks, ControlBlocks
    <2>5. QED BY <2>1, <2>2, <2>3, <2>4
  <1>4. IInv /\ BornInv => WaitsOnlyForClients
    BY <1>3 DEF WaitsOnlyForClients
  <1>5. QED BY <1>2, <1>4, Invariance, PTL


-----------------------------------------------------------------------------
(* The split server implements ServerLifecycle.                             *)

AllThreads == {"control", "shell", "publisher", "heartbeat"}

-----------------------------------------------------------------------------
(* The lives of the threads.                                                *)

\* The life of each thread is read off its own state, before a step and after.
LEMMA LifeOfThreads ==
    /\ Life["control"] = LifeOfControl
    /\ Life["shell"] = LifeOfShell
    /\ Life["publisher"] = LifeOfService(publisher)
    /\ Life["heartbeat"] = LifeOfService(heartbeat)
    /\ Life'["control"] = LifeOfControl'
    /\ Life'["shell"] = LifeOfShell'
    /\ Life'["publisher"] = LifeOfService(publisher')
    /\ Life'["heartbeat"] = LifeOfService(heartbeat')
  BY DEF Life, AllThreads, Channels

\* The threads of the abstract server are those of the split server.
LEMMA ThreadsAre == Lifecycle!Threads = AllThreads
  BY DEF Lifecycle!Threads, AllThreads, Channels

\* When one thread goes on with its life, the others stay where they are.
LEMMA OneMoves ==
    ASSUME NEW t \in AllThreads, NEW from, NEW to,
           Life[t] = from, Life'[t] = to, Over' = Over,
           \A u \in AllThreads \ {t} : Life'[u] = Life[u]
    PROVE  Lifecycle!Enter(t, from, to)
  <1>1. DOMAIN Life = AllThreads /\ DOMAIN Life' = AllThreads
    BY DEF Life, AllThreads, Channels
  <1>2. Life = [u \in AllThreads |-> Life[u]] /\ Life' = [u \in AllThreads |-> Life'[u]]
    BY DEF Life, AllThreads, Channels
  <1>3. Life' = [Life EXCEPT ![t] = to]
    BY <1>1, <1>2
  <1>4. QED
    BY <1>3 DEF Lifecycle!Enter

\* A step that leaves the life of every thread as it is.
LEMMA NobodyMoves ==
    ASSUME LifeOfControl' = LifeOfControl, LifeOfShell' = LifeOfShell,
           LifeOfService(publisher)' = LifeOfService(publisher),
           LifeOfService(heartbeat)' = LifeOfService(heartbeat)
    PROVE  Life' = Life
  BY DEF Life, Channels

\* An abstract step, or a stutter.
AbstractStep == Lifecycle!Next \/ UNCHANGED Lifecycle!vars

\* Each of the moves is a step of the abstract server.
LEMMA StartStep ==
    ASSUME NEW t \in AllThreads, Lifecycle!Enter(t, "unborn", "working"),
           Backlog' = Backlog
    PROVE  AbstractStep
  BY ThreadsAre DEF AbstractStep, Lifecycle!Next, Lifecycle!Start

LEMMA LeaveStep ==
    ASSUME NEW t \in AllThreads, Lifecycle!Enter(t, "stopped", "gone"),
           Backlog' = Backlog
    PROVE  AbstractStep
  BY ThreadsAre DEF AbstractStep, Lifecycle!Next, Lifecycle!Leave

LEMMA StopWorkerStep ==
    ASSUME NEW w \in Channels, Lifecycle!Enter(w, "working", "stopped"),
           Backlog' = Backlog
    PROVE  AbstractStep
  BY DEF AbstractStep, Lifecycle!Next, Lifecycle!StopWorker

LEMMA StopServiceStep ==
    ASSUME NEW s \in {"publisher", "heartbeat"}, Lifecycle!Enter(s, "working", "stopped"),
           \A w \in Channels : Life[w] \in {"stopped", "gone"},
           Backlog' \in 0 .. Backlog
    PROVE  AbstractStep
  BY DEF AbstractStep, Lifecycle!Next, Lifecycle!StopService

\* What no abstract variable sees.
LEMMA Unseen ==
    ASSUME Life' = Life, Backlog' = Backlog, Over' = Over
    PROVE  AbstractStep
  BY DEF AbstractStep, Lifecycle!vars

-----------------------------------------------------------------------------
(* What is published and forwarded.                                         *)

\* How many messages wait is counted, by PUB socket and together.
LEMMA BacklogType ==
    ASSUME TypeOK
    PROVE  /\ inbox \in [Channels -> Nat]
           /\ inbox["control"] \in Nat /\ inbox["shell"] \in Nat
           /\ Backlog \in Nat
  BY DEF TypeOK, Backlog, Channels

\* A publication waits for the publisher.
LEMMA PublishCounts ==
    ASSUME TypeOK, NEW c \in Channels, Publish(c)
    PROVE  Backlog' = Backlog + 1
  BY BacklogType DEF Publish, Backlog, Channels

\* One message at most is forwarded, and only one that waits (xpublisher.cpp:82-87).
LEMMA ForwardCounts ==
    ASSUME TypeOK, ForwardOne
    PROVE  Backlog' = Backlog \/ (Backlog > 0 /\ Backlog' = Backlog - 1)
  BY BacklogType DEF ForwardOne, Backlog, Channels

-----------------------------------------------------------------------------
(* The steps.                                                               *)

\* A step that neither publishes nor forwards.
LEMMA SameCounts ==
    ASSUME UNCHANGED inbox
    PROVE  Backlog' = Backlog
  BY DEF Backlog

\* What moves no thread, publishes nothing and closes nothing is not seen.
LEMMA IdleStep ==
    ASSUME UNCHANGED <<host, control, shell, publisher, heartbeat, inbox, closed>>
    PROVE  AbstractStep
  <1>1. Life' = Life
    BY NobodyMoves DEF LifeOfControl, LifeOfShell, LifeOfService
  <1>2. Backlog' = Backlog
    BY SameCounts
  <1>3. Over' = Over
    BY DEF Over
  <1>4. QED
    BY <1>1, <1>2, <1>3, Unseen

\* start_impl starts the threads and publishes, and the destructor tears down
\* when all are gone (xserver_zmq_split.cpp, xserver_zmq_split_impl.cpp).
LEMMA MainRefines == IInv /\ Main => AbstractStep
  <1> SUFFICES ASSUME IInv, Main PROVE AbstractStep
    OBVIOUS
  <1>0. StopInv /\ JoinInv /\ TypeOK
    BY DEF IInv
  <1>1. CASE SpawnPublisher
    <2>1. publisher = "unborn" /\ publisher' = "polling"
          /\ UNCHANGED <<host, control, shell, heartbeat, inbox, closed>>
      BY <1>0, <1>1 DEF SpawnPublisher, StopInv, BirthInv
    <2>2. Lifecycle!Enter("publisher", "unborn", "working")
      BY <2>1, LifeOfThreads, OneMoves
      DEF AllThreads, LifeOfControl, LifeOfShell, LifeOfService, Over
    <2>3. QED
      BY <2>1, <2>2, SameCounts, StartStep DEF AllThreads
  <1>2. CASE SpawnHeartbeat
    <2>1. heartbeat = "unborn" /\ heartbeat' = "polling"
          /\ UNCHANGED <<host, control, shell, publisher, inbox, closed>>
      BY <1>0, <1>2 DEF SpawnHeartbeat, StopInv, BirthInv
    <2>2. Lifecycle!Enter("heartbeat", "unborn", "working")
      BY <2>1, LifeOfThreads, OneMoves
      DEF AllThreads, LifeOfControl, LifeOfShell, LifeOfService, Over
    <2>3. QED
      BY <2>1, <2>2, SameCounts, StartStep DEF AllThreads
  <1>3. CASE SpawnRunner
    <2>1. control = "unborn" /\ shell = "unborn"
          /\ UNCHANGED <<host, publisher, heartbeat, inbox, closed>>
      BY <1>0, <1>3 DEF SpawnRunner, StopInv, BirthInv
    <2>2. CASE host = "control" /\ shell' = "polling" /\ control' = control
      <3>1. Lifecycle!Enter("shell", "unborn", "working")
        BY <2>1, <2>2, LifeOfThreads, OneMoves
        DEF AllThreads, LifeOfControl, LifeOfShell, LifeOfService, Over
      <3>2. QED
        BY <2>1, <3>1, SameCounts, StartStep DEF AllThreads
    <2>3. CASE host = "shell" /\ control' = "starting" /\ shell' = shell
      <3>1. Lifecycle!Enter("control", "unborn", "working")
        BY <2>1, <2>3, LifeOfThreads, OneMoves
        DEF AllThreads, LifeOfControl, LifeOfShell, LifeOfService, Over
      <3>2. QED
        BY <2>1, <3>1, SameCounts, StartStep DEF AllThreads
    <2>4. QED
      BY <1>3, <2>2, <2>3 DEF SpawnRunner
  <1>4. CASE PublishStart
    <2>1. host \in Channels /\ Publish(host)
          /\ UNCHANGED <<host, publisher, heartbeat, closed>>
      BY <1>0, <1>4 DEF PublishStart, TypeOK
    <2>2. \/ host = "control" /\ control = "unborn" /\ control' = "starting" /\ shell' = shell
          \/ host = "shell" /\ shell = "unborn" /\ shell' = "polling" /\ control' = control
      BY <1>0, <1>4 DEF PublishStart, StopInv, BirthInv
    <2>3. Life' = Life
      BY <2>1, <2>2, NobodyMoves DEF LifeOfControl, LifeOfShell, LifeOfService
    <2>4. Life[host] = "working"
      BY <2>2, LifeOfThreads DEF LifeOfControl, LifeOfShell
    <2>5. Lifecycle!Publish
      BY <1>0, <2>1, <2>3, <2>4, PublishCounts DEF Lifecycle!Publish, Over
    <2>6. QED
      BY <2>5 DEF AbstractStep, Lifecycle!Next
  <1>5. CASE Return \/ Join
    BY <1>5, IdleStep DEF Return, Join, Advance
  <1>6. CASE Close
    <2>1. UNCHANGED <<host, control, shell, publisher, heartbeat, inbox>>
          /\ main \in Closing /\ closed' # {}
      BY <1>6 DEF Close, Advance, Closing
    <2>2. control = "done" /\ shell = "done" /\ publisher = "done" /\ heartbeat = "done"
      BY <1>0, <2>1 DEF JoinInv
    <2>3. \A t \in Lifecycle!Threads : Life[t] = "gone"
      BY <2>2, ThreadsAre, LifeOfThreads
      DEF AllThreads, LifeOfControl, LifeOfShell, LifeOfService
    <2>4. Life' = Life
      BY <2>1, NobodyMoves DEF LifeOfControl, LifeOfShell, LifeOfService
    <2>5. Lifecycle!TearDown
      BY <2>1, <2>3, <2>4, SameCounts DEF Lifecycle!TearDown, Over
    <2>6. QED
      BY <2>5 DEF AbstractStep, Lifecycle!Next
  <1>7. QED
    BY <1>1, <1>2, <1>3, <1>4, <1>5, <1>6 DEF Main

\* A publication of a runner that works (xcontrol.cpp, xshell.cpp).
LEMMA PublishRefines ==
    ASSUME IInv, NEW c \in Channels, Publish(c), Life[c] = "working",
           UNCHANGED <<threadVars, closed>>
    PROVE  AbstractStep
  <1>1. Life' = Life
    BY NobodyMoves DEF threadVars, LifeOfControl, LifeOfShell, LifeOfService
  <1>2. Lifecycle!Publish
    BY <1>1, PublishCounts DEF Lifecycle!Publish, Over, IInv
  <1>3. QED
    BY <1>2 DEF AbstractStep, Lifecycle!Next

\* The control thread stops working when it begins to stop the others, and is
\* gone when the last has answered (xcontrol_default_runner.cpp:14-33).
LEMMA ControlRefines == IInv /\ (ControlStep \/ ControlListener) => AbstractStep
  <1> SUFFICES ASSUME IInv, ControlStep \/ ControlListener PROVE AbstractStep
    OBVIOUS
  <1>1. CASE ControlPublishes
    <2>1. Life["control"] = "working"
      BY <1>1, LifeOfThreads DEF ControlPublishes, LifeOfControl
    <2>2. QED
      BY <1>1, <2>1, PublishRefines DEF ControlPublishes, Channels
  <1>2. CASE ~ControlPublishes
    <2>1. UNCHANGED <<host, shell, publisher, heartbeat, inbox, closed>>
      BY <1>2 DEF ControlStep, ControlListener, StartControl, CheckStop, ReceiveControl,
                  CollectReply, StopChannels, RequestStop, AwaitStop,
                  SendToShell, ControlCallsStop, ControlReturns, threadVars
    <2> DEFINE W == {"starting", "checking", "receiving", "handling", "asking"}
               S == {"stop_shell", "wait_shell", "stop_publisher", "wait_publisher",
                     "stop_heartbeat", "wait_heartbeat"}
    <2>2. \/ control \in W /\ control' \in W
          \/ control \in W /\ control' \in S
          \/ control \in S /\ control' \in S
          \/ control \in S /\ control' = "done"
      BY <1>2 DEF ControlStep, ControlListener, StartControl, CheckStop, ReceiveControl,
                  CollectReply, StopChannels, RequestStop, AwaitStop,
                  SendToShell, ControlCallsStop, ControlReturns, threadVars
    <2>3. CASE LifeOfControl' = LifeOfControl
      <3>1. Life' = Life
        BY <2>1, <2>3, NobodyMoves DEF LifeOfShell, LifeOfService
      <3>2. QED
        BY <2>1, <3>1, SameCounts, Unseen DEF Over
    <2>4. CASE control \in W /\ control' \in S
      <3>1. Lifecycle!Enter("control", "working", "stopped")
        BY <2>1, <2>4, LifeOfThreads, OneMoves
        DEF AllThreads, LifeOfControl, LifeOfShell, LifeOfService, Over
      <3>2. QED
        BY <2>1, <3>1, SameCounts, StopWorkerStep DEF Channels
    <2>5. CASE control \in S /\ control' = "done"
      <3>1. Lifecycle!Enter("control", "stopped", "gone")
        BY <2>1, <2>5, LifeOfThreads, OneMoves
        DEF AllThreads, LifeOfControl, LifeOfShell, LifeOfService, Over
      <3>2. QED
        BY <2>1, <3>1, SameCounts, LeaveStep DEF AllThreads
    <2>6. CASE \/ control \in W /\ control' \in W
               \/ control \in S /\ control' \in S
      <3>1. LifeOfControl' = LifeOfControl
        BY <2>6 DEF LifeOfControl
      <3>2. QED
        BY <2>3, <3>1
    <2>7. QED
      BY <2>2, <2>4, <2>5, <2>6
  <1>3. QED
    BY <1>1, <1>2

\* The shell thread stops working when it answers "stop"
\* (xshell_default_runner.cpp:23-36).
LEMMA ShellRefines == IInv /\ (ShellStep \/ ShellListener) => AbstractStep
  <1> SUFFICES ASSUME IInv, ShellStep \/ ShellListener PROVE AbstractStep
    OBVIOUS
  <1>1. CASE ShellPublishes
    <2>1. Life["shell"] = "working"
      BY <1>1, LifeOfThreads DEF ShellPublishes, LifeOfShell
    <2>2. QED
      BY <1>1, <2>1, PublishRefines DEF ShellPublishes, Channels
  <1>2. CASE ~ShellPublishes
    <2>1. UNCHANGED <<host, control, publisher, heartbeat, inbox, closed>>
      BY <1>2 DEF ShellStep, ShellListener, ReadShell, ReadController, ReceiveStdin,
                  AbortQueue, LeaveShell, ShellCallsStop, ShellWaits, ShellReturns, threadVars
    <2> DEFINE W == {"polling", "handling", "stdin", "aborting", "internal"}
    <2>2. \/ shell \in W /\ shell' \in W
          \/ shell \in W /\ shell' = "leaving"
          \/ shell = "leaving" /\ shell' = "done"
      BY <1>2 DEF ShellStep, ShellListener, ReadShell, ReadController, ReceiveStdin,
                  AbortQueue, LeaveShell, ShellCallsStop, ShellWaits, ShellReturns, threadVars
    <2>3. CASE shell \in W /\ shell' \in W
      <3>1. Life' = Life
        BY <2>1, <2>3, NobodyMoves DEF LifeOfControl, LifeOfShell, LifeOfService
      <3>2. QED
        BY <2>1, <3>1, SameCounts, Unseen DEF Over
    <2>4. CASE shell \in W /\ shell' = "leaving"
      <3>1. Lifecycle!Enter("shell", "working", "stopped")
        BY <2>1, <2>4, LifeOfThreads, OneMoves
        DEF AllThreads, LifeOfControl, LifeOfShell, LifeOfService, Over
      <3>2. QED
        BY <2>1, <3>1, SameCounts, StopWorkerStep DEF Channels
    <2>5. CASE shell = "leaving" /\ shell' = "done"
      <3>1. Lifecycle!Enter("shell", "stopped", "gone")
        BY <2>1, <2>5, LifeOfThreads, OneMoves
        DEF AllThreads, LifeOfControl, LifeOfShell, LifeOfService, Over
      <3>2. QED
        BY <2>1, <3>1, SameCounts, LeaveStep DEF AllThreads
    <2>6. QED
      BY <2>2, <2>3, <2>4, <2>5
  <1>3. QED
    BY <1>1, <1>2

\* When the publisher or the heartbeat thread is asked to stop, the runners have
\* stopped: the shell has answered, and the control thread is the one that asks.
LEMMA RunnersHaveStopped ==
    ASSUME IInv, NEW t \in {"publisher", "heartbeat"}, Requested(t)
    PROVE  \A w \in Channels : Life[w] \in {"stopped", "gone"}
  <1>1. control \in {"wait_publisher", "wait_heartbeat"}
    BY DEF IInv, StopInv, PublisherLinkInv, HeartbeatLinkInv, Requested
  <1>2. Ended(shell)
    BY <1>1 DEF IInv, StopInv, ShellLinkInv, PastShell
  <1>3. QED
    BY <1>1, <1>2, LifeOfThreads DEF Channels, LifeOfControl, LifeOfShell, Ended

\* The publisher forwards, stops after the runners and leaves
\* (xpublisher.cpp:63-96).
LEMMA PublisherRefines ==
    IInv /\ PublisherStep /\ UNCHANGED runnersVars => AbstractStep
  <1> SUFFICES ASSUME IInv, PublisherStep, UNCHANGED runnersVars PROVE AbstractStep
    OBVIOUS
  <1>1. UNCHANGED <<host, control, shell, heartbeat, closed>>
    BY DEF PublisherStep, PublishTurn, PublishLastTurn, PublisherLeaves, runnersVars
  <1>2. TypeOK
    BY DEF IInv
  <1>3. CASE PublishTurn
    <2>1. Life' = Life /\ Over' = Over
      BY <1>1, <1>3, NobodyMoves
      DEF PublishTurn, LifeOfControl, LifeOfShell, LifeOfService, Over
    <2>2. Life["publisher"] = "working"
      BY <1>3, LifeOfThreads DEF PublishTurn, LifeOfService
    <2>3. CASE Backlog' = Backlog
      BY <2>1, <2>3, Unseen
    <2>4. CASE Backlog > 0 /\ Backlog' = Backlog - 1
      <3>1. Lifecycle!Forward
        BY <2>1, <2>2, <2>4 DEF Lifecycle!Forward
      <3>2. QED
        BY <3>1 DEF AbstractStep, Lifecycle!Next
    <2>5. QED
      BY <1>2, <1>3, <2>3, <2>4, ForwardCounts DEF PublishTurn
  <1>4. CASE PublishLastTurn
    <2>1. Lifecycle!Enter("publisher", "working", "stopped")
      BY <1>1, <1>4, LifeOfThreads, OneMoves
      DEF PublishLastTurn, AllThreads, LifeOfControl, LifeOfShell, LifeOfService, Over
    <2>2. Backlog' \in 0 .. Backlog
      <3>1. Backlog \in Nat
        BY <1>2, BacklogType
      <3>2. Backlog' = Backlog \/ (Backlog > 0 /\ Backlog' = Backlog - 1)
        BY <1>2, <1>4, ForwardCounts DEF PublishLastTurn
      <3>3. QED
        BY <3>1, <3>2
    <2>3. \A w \in Channels : Life[w] \in {"stopped", "gone"}
      BY <1>4, RunnersHaveStopped DEF PublishLastTurn
    <2>4. QED
      BY <2>1, <2>2, <2>3, StopServiceStep
  <1>5. CASE PublisherLeaves
    <2>1. Lifecycle!Enter("publisher", "stopped", "gone")
      BY <1>1, <1>5, LifeOfThreads, OneMoves
      DEF PublisherLeaves, AllThreads, LifeOfControl, LifeOfShell, LifeOfService, Over
    <2>2. QED
      BY <1>5, <2>1, SameCounts, LeaveStep DEF PublisherLeaves, AllThreads
  <1>6. QED
    BY <1>3, <1>4, <1>5 DEF PublisherStep

\* So does the heartbeat thread, which forwards nothing (xheartbeat.cpp:53-79).
LEMMA HeartbeatRefines ==
    IInv /\ HeartbeatStep /\ UNCHANGED runnersVars => AbstractStep
  <1> SUFFICES ASSUME IInv, HeartbeatStep, UNCHANGED runnersVars PROVE AbstractStep
    OBVIOUS
  <1>1. UNCHANGED <<host, control, shell, publisher, closed, inbox>>
    BY DEF HeartbeatStep, EchoTurn, EchoLastTurn, HeartbeatLeaves, runnersVars
  <1>2. Backlog' = Backlog /\ Backlog \in Nat
    BY <1>1, SameCounts, BacklogType DEF IInv
  <1>3. CASE EchoTurn
    BY <1>1, <1>3, IdleStep DEF EchoTurn
  <1>4. CASE EchoLastTurn
    <2>1. Lifecycle!Enter("heartbeat", "working", "stopped")
      BY <1>1, <1>4, LifeOfThreads, OneMoves
      DEF EchoLastTurn, AllThreads, LifeOfControl, LifeOfShell, LifeOfService, Over
    <2>2. Backlog' \in 0 .. Backlog
      BY <1>2
    <2>3. \A w \in Channels : Life[w] \in {"stopped", "gone"}
      BY <1>4, RunnersHaveStopped DEF EchoLastTurn
    <2>4. QED
      BY <2>1, <2>2, <2>3, StopServiceStep
  <1>5. CASE HeartbeatLeaves
    <2>1. Lifecycle!Enter("heartbeat", "stopped", "gone")
      BY <1>1, <1>5, LifeOfThreads, OneMoves
      DEF HeartbeatLeaves, AllThreads, LifeOfControl, LifeOfShell, LifeOfService, Over
    <2>2. QED
      BY <1>2, <2>1, LeaveStep DEF AllThreads
  <1>6. QED
    BY <1>3, <1>4, <1>5 DEF HeartbeatStep

\* Every step of the split server is a step of the abstract server or a stutter.
LEMMA StepRefines == IInv /\ [Next]_vars => [Lifecycle!Next]_Lifecycle!vars
  <1> SUFFICES ASSUME IInv, [Next]_vars PROVE AbstractStep
    BY DEF AbstractStep
  <1>1. CASE UNCHANGED vars
    BY <1>1, IdleStep DEF vars, threadVars
  <1>2. CASE Client
    BY <1>2, IdleStep
    DEF Client, ClientSendsControl, ClientSendsShell, ClientSendsInput, Peer, PeerSends,
        PeerPings, threadVars, runnersVars
  <1>3. CASE Server
    BY <1>3, MainRefines, ControlRefines, ShellRefines, PublisherRefines, HeartbeatRefines
    DEF Server
  <1>4. QED
    BY <1>1, <1>2, <1>3 DEF Next

\* The constructed server is an initial state of the abstract one: the runner of
\* the host channel is the worker that exists from the start.
LEMMA InitRefines == Init => Lifecycle!Init
  <1> SUFFICES ASSUME Init PROVE Lifecycle!Init
    OBVIOUS
  <1>1. host \in Channels
    BY DEF Init
  <1>2. \A t \in AllThreads : Life[t] = IF t = host THEN "working" ELSE "unborn"
    BY <1>1, LifeOfThreads
    DEF Init, AllThreads, Channels, LifeOfControl, LifeOfShell, LifeOfService
  <1>3. Life = [t \in AllThreads |-> IF t = host THEN "working" ELSE "unborn"]
    <2>1. Life = [t \in AllThreads |-> Life[t]]
      BY DEF Life, AllThreads, Channels
    <2>2. QED
      BY <1>2, <2>1
  <1>4. Backlog = 0
    BY DEF Init, Backlog, Channels
  <1>5. Over = FALSE
    BY DEF Init, Over
  <1>6. QED
    BY <1>1, <1>3, <1>4, <1>5, ThreadsAre DEF Lifecycle!Init

\* The split server keeps the promises of every server: its services stop after
\* its runners, nothing is published after that, and its sockets are closed after
\* every thread has returned.
THEOREM Refinement == Spec => ImplementsLifecycle
  BY Invariance, InitRefines, StepRefines, PTL DEF Spec, ImplementsLifecycle, Lifecycle!Spec

=============================================================================

------------------------- MODULE DefaultServerProofs -------------------------
(***************************************************************************)
(* The safety of the default server and its refinement of ServerLifecycle, *)
(* for any number of messages, prompts, publications and peers.            *)
(***************************************************************************)
EXTENDS DefaultServer, SubsequenceProofs

-----------------------------------------------------------------------------
(* The inductive invariant.                                                 *)

\* Where the main thread is when it has the answer of the publisher, and of the
\* heartbeat, to its stop request.
PastHeartbeat == {"returned", "join_publisher", "close", "destroyed"}
PastPublisher == {"stop_heartbeat", "wait_heartbeat"} \union PastHeartbeat

\* Each link carries nothing but one stop request and its answer, and its thread
\* has ended exactly when the answer is there or has been collected.  A server
\* whose start has thrown has asked neither of them.
LinkInv(t, state, waiting, past) ==
    /\ main # waiting <=> link[t].phase = "idle"
    /\ link[t].phase # "serving"
    /\ Ended(state) <=> \/ main = waiting /\ link[t].phase = "reply"
                        \/ main \in past

\* No thread is started twice.
BirthInv ==
    /\ main = "spawn_publisher" => publisher = "unborn"
    /\ main \in {"spawn_publisher", "spawn_heartbeat"} => heartbeat = "unborn"

\* The destructor is past the join of a thread only when the thread has returned.
JoinInv ==
    /\ main \in {"join_publisher", "close", "destroyed"} => heartbeat = "done"
    /\ main \in {"close", "destroyed"} => publisher = "done"

StopInv ==
    /\ LinkInv("publisher", publisher, "wait_publisher", PastPublisher)
    /\ LinkInv("heartbeat", heartbeat, "wait_heartbeat", PastHeartbeat)
    /\ BirthInv
    /\ JoinInv

IInv == TypeOK /\ StopInv

-----------------------------------------------------------------------------
(* Type correctness.                                                        *)

\* Sending to a socket and receiving from it keep the type of its queue.
LEMMA QueueTypes ==
    ASSUME NEW S, NEW q \in Seq(S)
    PROVE  /\ \A e \in S : Append(q, e) \in Seq(S)
           /\ q # <<>> => Tail(q) \in Seq(S) /\ Head(q) \in S
  OBVIOUS

\* Every operation of a controller link leads to a link (xtrivial_messenger.cpp,
\* xpublisher.cpp:89-96, xheartbeat.cpp:70-77).
LEMMA LinkType ==
    ASSUME TypeOK, NEW t \in {"publisher", "heartbeat"}, NEW b \in Body
    PROVE  /\ Send(t, b) => link' \in [{"publisher", "heartbeat"} -> Link]
           /\ Answer(t, b) => link' \in [{"publisher", "heartbeat"} -> Link]
           /\ Collect(t) => link' \in [{"publisher", "heartbeat"} -> Link]
           /\ link[t].body \in Body
  <1>1. link \in [{"publisher", "heartbeat"} -> Link] /\ link[t] \in Link
    BY DEF TypeOK
  <1>2. Send(t, b) => link' \in [{"publisher", "heartbeat"} -> Link]
    BY <1>1 DEF Send, Link
  <1>3. Answer(t, b) => link' \in [{"publisher", "heartbeat"} -> Link]
    BY <1>1 DEF Answer, Link
  <1>4. Collect(t) => link' \in [{"publisher", "heartbeat"} -> Link]
    <2>1. [link[t] EXCEPT !.phase = "idle"] \in Link
      BY <1>1 DEF Link
    <2>2. QED
      BY <1>1, <2>1 DEF Collect
  <1>5. link[t].body \in Body
    BY <1>1 DEF Link
  <1>6. QED
    BY <1>2, <1>3, <1>4, <1>5

\* Publishing adds one message to the inbox.
LEMMA PublishMain ==
    ASSUME TypeOK, Publish("main")
    PROVE  /\ inbox' \in [{"main"} -> Nat]
           /\ Backlog' = Backlog + 1
  BY DEF TypeOK, Publish, Backlog

\* One turn of the forwarding takes one, if there is one (xpublisher.cpp:82-87).
LEMMA ForwardMain ==
    ASSUME TypeOK, ForwardOne
    PROVE  /\ inbox' \in [{"main"} -> Nat]
           /\ Backlog' = Backlog \/ (Backlog > 0 /\ Backlog' = Backlog - 1)
  BY DEF TypeOK, ForwardOne, Backlog

\* The main thread, inside its listeners and outside, keeps the types.
LEMMA MainTyping == TypeOK /\ (Main \/ Listener) => TypeOK'
  <1> SUFFICES ASSUME TypeOK, Main \/ Listener PROVE TypeOK'
    OBVIOUS
  <1> USE DEF serverVars, serviceVars, peerVars, PeersOK, Starting, Looping,
              Stopping, Ending, PollerState
  <1>1. CASE SpawnPublisher BY <1>1 DEF TypeOK, SpawnPublisher
  <1>2. CASE SpawnHeartbeat BY <1>2 DEF TypeOK, SpawnHeartbeat
  <1>3. CASE PublishStart BY <1>3, PublishMain DEF TypeOK, PublishStart
  <1>4. CASE CheckStop BY <1>4 DEF TypeOK, CheckStop
  <1>5. CASE PollChannels
    <2>1. controlQ \in Seq(Message) /\ shellQ \in Seq(Message)
      BY DEF TypeOK
    <2>2. controlQ' \in Seq(Message) /\ shellQ' \in Seq(Message)
          /\ main' \in Looping \union Ending
      BY <1>5, <2>1, QueueTypes DEF PollChannels, Deliver
    <2>3. UNCHANGED <<requestStop, stdinQ, sent, serviceVars>>
      BY <1>5 DEF PollChannels
    <2>4. QED
      BY <2>2, <2>3 DEF TypeOK
  <1>6. CASE StopChannels
    <2>1. "stop" \in Body /\ "empty" \in Body
      BY DEF Body
    <2>2. link' \in [{"publisher", "heartbeat"} -> Link]
      BY <1>6, <2>1, LinkType DEF StopChannels, RequestStop, AwaitStop
    <2>3. /\ main' \in Stopping \union Ending
          /\ UNCHANGED <<requestStop, controlQ, shellQ, stdinQ, sent>>
          /\ UNCHANGED <<publisher, heartbeat, inbox, peerVars>>
      BY <1>6 DEF StopChannels, RequestStop, AwaitStop
    <2>4. QED
      BY <2>2, <2>3 DEF TypeOK
  <1>7. CASE Destroy BY <1>7 DEF TypeOK, Destroy
  <1>8. CASE ReceiveStdin BY <1>8 DEF TypeOK, ReceiveStdin
  <1>9. CASE AbortQueue
    <2>1. shellQ \in Seq(Message)
      BY DEF TypeOK
    <2>2. shellQ' \in Seq(Message)
      BY <1>9, <2>1, QueueTypes DEF AbortQueue
    <2>3. /\ main' \in Looping
          /\ UNCHANGED <<requestStop, controlQ, stdinQ, sent, serviceVars>>
      BY <1>9 DEF AbortQueue
    <2>4. QED
      BY <2>2, <2>3 DEF TypeOK
  <1>10. CASE ListenerPublishes BY <1>10, PublishMain DEF TypeOK, ListenerPublishes
  <1>11. CASE ListenerCallsStop BY <1>11 DEF TypeOK, ListenerCallsStop
  <1>12. CASE ListenerWaits BY <1>12 DEF TypeOK, ListenerWaits
  <1>13. CASE ListenerReturns BY <1>13 DEF TypeOK, ListenerReturns
  <1>14. QED
    BY <1>1, <1>2, <1>3, <1>4, <1>5, <1>6, <1>7, <1>8, <1>9, <1>10, <1>11, <1>12, <1>13
    DEF Main, Listener

\* So do the two services (xpublisher.cpp, xheartbeat.cpp).
LEMMA ServiceTyping == TypeOK /\ Service => TypeOK'
  <1> SUFFICES ASSUME TypeOK, Service PROVE TypeOK'
    OBVIOUS
  <1> USE DEF serverVars, peerVars, PollerState
  <1>0. PeersOK /\ UNCHANGED serverVars
    BY DEF TypeOK, Service
  <1>1. CASE PublishTurn
    <2>1. HandleEvent
      BY <1>1 DEF PublishTurn
    <2>2. events' \in Seq(Event) /\ welcomed' \in Nat
      <3>1. events \in Seq(Event) /\ welcomed \in Nat
        BY <1>0 DEF PeersOK
      <3>2. events' \in Seq(Event)
        BY <2>1, <3>1, QueueTypes DEF HandleEvent
      <3>3. QED
        BY <2>1, <3>1, <3>2 DEF HandleEvent
    <2>3. PeersOK'
      BY <1>0, <1>1, <2>2 DEF PublishTurn, PeersOK
    <2>4. QED
      BY <1>0, <1>1, <2>3, ForwardMain DEF TypeOK, PublishTurn
  <1>2. CASE PublishLastTurn
    <2>1. link' \in [{"publisher", "heartbeat"} -> Link]
      <3>1. link["publisher"].body \in Body
        BY LinkType DEF Body
      <3>2. QED
        BY <1>2, <3>1, LinkType DEF PublishLastTurn
    <2>2. PeersOK'
      BY <1>0, <1>2 DEF PublishLastTurn, PeersOK
    <2>3. QED
      BY <1>0, <1>2, <2>1, <2>2, ForwardMain DEF TypeOK, PublishLastTurn
  <1>3. CASE PublisherLeaves
    BY <1>0, <1>3 DEF TypeOK, PublisherLeaves, PeersOK
  <1>4. CASE EchoTurn
    BY <1>0, <1>4 DEF TypeOK, EchoTurn, EchoOne, PeersOK
  <1>5. CASE EchoLastTurn
    <2>1. link' \in [{"publisher", "heartbeat"} -> Link]
      <3>1. link["heartbeat"].body \in Body
        BY LinkType DEF Body
      <3>2. QED
        BY <1>5, <3>1, LinkType DEF EchoLastTurn
    <2>2. PeersOK'
      BY <1>0, <1>5 DEF EchoLastTurn, EchoOne, PeersOK
    <2>3. QED
      BY <1>0, <1>5, <2>1, <2>2 DEF TypeOK, EchoLastTurn
  <1>6. CASE HeartbeatLeaves
    BY <1>0, <1>6 DEF TypeOK, HeartbeatLeaves, PeersOK
  <1>7. QED
    BY <1>1, <1>2, <1>3, <1>4, <1>5, <1>6 DEF Service, PublisherStep, HeartbeatStep

\* So does what clients send.
LEMMA ClientTyping == TypeOK /\ Client => TypeOK'
  <1> SUFFICES ASSUME TypeOK, Client PROVE TypeOK'
    OBVIOUS
  <1> USE DEF serverVars, serviceVars, peerVars, PeersOK
  <1>1. CASE \E m \in Message : ClientSendsControl(m)
    BY <1>1, QueueTypes DEF TypeOK, ClientSendsControl
  <1>2. CASE \E m \in Message : ClientSendsShell(m)
    BY <1>2, QueueTypes DEF TypeOK, ClientSendsShell
  <1>3. CASE ClientSendsInput BY <1>3 DEF TypeOK, ClientSendsInput
  <1>4. CASE (\E e \in Event : PeerSends(e)) /\ UNCHANGED serverVars
    BY <1>4, QueueTypes DEF TypeOK, PeerSends
  <1>5. CASE PeerPings /\ UNCHANGED serverVars
    BY <1>5 DEF TypeOK, PeerPings
  <1>6. QED
    BY <1>1, <1>2, <1>3, <1>4, <1>5 DEF Client, Peer

\* The constructed server has its type.
LEMMA TypingInit == Init => TypeOK
  <1> SUFFICES ASSUME Init PROVE TypeOK
    OBVIOUS
  <1>1. link \in [{"publisher", "heartbeat"} -> Link]
    BY DEF Init, IdleLink, Link, Body
  <1>2. controlQ \in Seq(Message) /\ shellQ \in Seq(Message) /\ PeersOK
    BY DEF Init, PeersInit, PeersOK
  <1>3. QED
    BY <1>1, <1>2
    DEF Init, TypeOK, Starting, Looping, Stopping, Ending, PollerState

\* Every step keeps the types.
LEMMA TypingStep == TypeOK /\ [Next]_vars => TypeOK'
  <1> SUFFICES ASSUME TypeOK, [Next]_vars PROVE TypeOK'
    OBVIOUS
  <1>1. CASE UNCHANGED vars
    BY <1>1 DEF TypeOK, vars, serverVars, serviceVars, peerVars, PeersOK
  <1>2. QED
    BY <1>1, MainTyping, ServiceTyping, ClientTyping DEF Next

-----------------------------------------------------------------------------
(* The stop protocol.                                                       *)

\* Every link is idle and no thread has ended when the server is constructed.
LEMMA StopInvInit == Init => StopInv
  BY DEF Init, IdleLink, StopInv, LinkInv, BirthInv, JoinInv, Ended, PastPublisher,
         PastHeartbeat

\* What moves no thread and uses no link keeps the invariant of the stop protocol.
LEMMA StopInvFrame ==
    StopInv /\ UNCHANGED <<main, publisher, heartbeat, link>> => StopInv'
  BY DEF StopInv, LinkInv, BirthInv, JoinInv, Ended

\* The main thread asks each of the two once, when it leaves its loop by a stop
\* request, and waits for the answer (xserver_zmq_impl.cpp:84-96).
LEMMA StopInvMain == TypeOK /\ StopInv /\ (Main \/ Listener) => StopInv'
  <1> SUFFICES ASSUME TypeOK, StopInv, Main \/ Listener PROVE StopInv'
    OBVIOUS
  <1>0. link \in [{"publisher", "heartbeat"} -> Link]
    BY DEF TypeOK
  <1> USE DEF StopInv, LinkInv, BirthInv, JoinInv, Ended, PastPublisher, PastHeartbeat
  <1>1. CASE SpawnPublisher BY <1>1 DEF SpawnPublisher
  <1>2. CASE SpawnHeartbeat BY <1>2 DEF SpawnHeartbeat
  <1>3. CASE PublishStart BY <1>3 DEF PublishStart
  <1>4. CASE CheckStop BY <1>4 DEF CheckStop, serviceVars
  <1>5. CASE PollChannels BY <1>5 DEF PollChannels, Deliver, serviceVars
  <1>6. CASE StopChannels
    <2> USE <1>0, <1>6 DEF RequestStop, AwaitStop, Send, Collect, Link
    <2>1. CASE RequestStop("publisher", "stop", "stop_publisher", "wait_publisher")
      BY <2>1 DEF StopChannels
    <2>2. CASE AwaitStop("publisher", "wait_publisher", "stop_heartbeat")
      BY <2>2 DEF StopChannels
    <2>3. CASE RequestStop("heartbeat", "empty", "stop_heartbeat", "wait_heartbeat")
      BY <2>3 DEF StopChannels
    <2>4. CASE AwaitStop("heartbeat", "wait_heartbeat", "returned")
      BY <2>4 DEF StopChannels
    <2>5. QED
      BY <2>1, <2>2, <2>3, <2>4 DEF StopChannels
  <1>7. CASE Destroy BY <1>7 DEF Destroy, serviceVars
  <1>8. CASE ReceiveStdin BY <1>8 DEF ReceiveStdin, serviceVars
  <1>9. CASE AbortQueue BY <1>9 DEF AbortQueue, serviceVars
  <1>10. CASE ListenerPublishes
    BY <1>10, StopInvFrame DEF ListenerPublishes, serverVars
  <1>11. CASE ListenerCallsStop
    BY <1>11, StopInvFrame DEF ListenerCallsStop, serviceVars
  <1>12. CASE ListenerWaits BY <1>12 DEF ListenerWaits, serviceVars
  <1>13. CASE ListenerReturns BY <1>13 DEF ListenerReturns, Listening, serviceVars
  <1>14. QED
    BY <1>1, <1>2, <1>3, <1>4, <1>5, <1>6, <1>7, <1>8, <1>9, <1>10, <1>11, <1>12, <1>13
    DEF Main, Listener

\* The services end when they answer (xpublisher.cpp:89-96, xheartbeat.cpp:70-77).
LEMMA StopInvService == TypeOK /\ StopInv /\ Service => StopInv'
  <1> SUFFICES ASSUME TypeOK, StopInv, Service PROVE StopInv'
    OBVIOUS
  <1>0. link \in [{"publisher", "heartbeat"} -> Link] /\ main' = main
    BY DEF TypeOK, Service, serverVars
  <1> USE DEF StopInv, LinkInv, BirthInv, JoinInv, Ended, PastPublisher, PastHeartbeat
  <1>1. CASE PublishTurn
    BY <1>0, <1>1, StopInvFrame DEF PublishTurn
  <1>2. CASE PublishLastTurn
    BY <1>0, <1>2 DEF PublishLastTurn, Requested, Answer, Link
  <1>3. CASE PublisherLeaves BY <1>0, <1>3 DEF PublisherLeaves
  <1>4. CASE EchoTurn
    BY <1>0, <1>4, StopInvFrame DEF EchoTurn
  <1>5. CASE EchoLastTurn
    BY <1>0, <1>5 DEF EchoLastTurn, Requested, Answer, Link
  <1>6. CASE HeartbeatLeaves BY <1>0, <1>6 DEF HeartbeatLeaves
  <1>7. QED
    BY <1>1, <1>2, <1>3, <1>4, <1>5, <1>6 DEF Service, PublisherStep, HeartbeatStep

\* Every step keeps the invariant of the stop protocol.
LEMMA StopInvStep == TypeOK /\ StopInv /\ [Next]_vars => StopInv'
  <1> SUFFICES ASSUME TypeOK, StopInv, [Next]_vars PROVE StopInv'
    OBVIOUS
  <1>1. CASE UNCHANGED vars
    BY <1>1, StopInvFrame DEF vars, serverVars, serviceVars
  <1>2. CASE Client
    BY <1>2, StopInvFrame
    DEF Client, ClientSendsControl, ClientSendsShell, ClientSendsInput, Peer, PeerSends,
        PeerPings, serverVars, serviceVars
  <1>3. QED
    BY <1>1, <1>2, StopInvMain, StopInvService DEF Next

\* The stop protocol, the loop and the destructor of the default server keep the
\* inductive invariant (xserver_zmq_impl.cpp:84-96, xthread.hpp:72-78).
THEOREM Invariance == Spec => []IInv
  <1>1. Init => IInv
    BY TypingInit, StopInvInit DEF IInv
  <1>2. IInv /\ [Next]_vars => IInv'
    BY TypingStep, StopInvStep DEF IInv
  <1>3. QED
    BY <1>1, <1>2, PTL DEF Spec

\* The state of the default server keeps its type, for any number of messages.
THEOREM TypeCorrect == Spec => []TypeOK
  BY Invariance, PTL DEF IInv

-----------------------------------------------------------------------------
(* The abstract server.                                                     *)

AllThreads == {"main", "publisher", "heartbeat"}

\* The life of each thread is read off its own state, before a step and after.
LEMMA LifeOfThreads ==
    /\ Life["main"] = LifeOfMain
    /\ Life["publisher"] = LifeOfService(publisher)
    /\ Life["heartbeat"] = LifeOfService(heartbeat)
    /\ Life'["main"] = LifeOfMain'
    /\ Life'["publisher"] = LifeOfService(publisher')
    /\ Life'["heartbeat"] = LifeOfService(heartbeat')
  BY DEF Life

\* The threads of the abstract server are those of the default server.
LEMMA ThreadsAre == Lifecycle!Threads = AllThreads
  BY DEF Lifecycle!Threads, AllThreads

\* When one thread goes on with its life, the others stay where they are.
LEMMA OneMoves ==
    ASSUME NEW t \in AllThreads, NEW from, NEW to,
           Life[t] = from, Life'[t] = to, Over' = Over,
           \A u \in AllThreads \ {t} : Life'[u] = Life[u]
    PROVE  Lifecycle!Enter(t, from, to)
  <1>1. DOMAIN Life = AllThreads /\ DOMAIN Life' = AllThreads
    BY DEF Life, AllThreads
  <1>2. Life = [u \in AllThreads |-> Life[u]] /\ Life' = [u \in AllThreads |-> Life'[u]]
    BY DEF Life, AllThreads
  <1>3. Life' = [Life EXCEPT ![t] = to]
    BY <1>1, <1>2
  <1>4. QED
    BY <1>3 DEF Lifecycle!Enter

\* An abstract step, or a stutter.
AbstractStep == Lifecycle!Next \/ UNCHANGED Lifecycle!vars

\* A step in which one thread is started, the worker stops, or a thread is gone.
LEMMA MoveStep ==
    ASSUME NEW t \in AllThreads, Backlog' = Backlog,
           \/ Lifecycle!Enter(t, "unborn", "working")
           \/ Lifecycle!Enter(t, "stopped", "gone")
           \/ t = "main" /\ Lifecycle!Enter(t, "working", "stopped")
    PROVE  AbstractStep
  BY ThreadsAre
  DEF AbstractStep, Lifecycle!Next, Lifecycle!Start, Lifecycle!Leave, Lifecycle!StopWorker

\* The main thread is gone or stopped when a service is asked to stop.
LEMMA StopServiceStep ==
    ASSUME NEW t \in {"publisher", "heartbeat"}, Lifecycle!Enter(t, "working", "stopped"),
           Life["main"] \in {"stopped", "gone"},
           Backlog' \in 0 .. Backlog
    PROVE  AbstractStep
  BY DEF AbstractStep, Lifecycle!Next, Lifecycle!StopService

\* What moves no thread, publishes nothing and closes nothing is not seen.
LEMMA IdleStep ==
    ASSUME LifeOfMain' = LifeOfMain, Over' = Over,
           UNCHANGED <<publisher, heartbeat, inbox>>
    PROVE  AbstractStep
  <1>1. Life' = Life
    BY DEF Life, LifeOfService
  <1>2. Backlog' = Backlog
    BY DEF Backlog
  <1>3. QED
    BY <1>1, <1>2 DEF AbstractStep, Lifecycle!vars

\* A publication of the worker.
LEMMA PublishStep ==
    ASSUME IInv, Publish("main"), LifeOfMain = "working", LifeOfMain' = "working",
           Over' = Over, UNCHANGED <<publisher, heartbeat>>
    PROVE  AbstractStep
  <1>1. Life' = Life /\ Life["main"] = "working"
    BY DEF Life, LifeOfService
  <1>2. Lifecycle!Publish
    BY <1>1, PublishMain DEF Lifecycle!Publish, IInv
  <1>3. QED
    BY <1>2 DEF AbstractStep, Lifecycle!Next

\* The main thread starts the services, works, stops working when it leaves its
\* loop, is gone when it has stopped both, and closes when all are gone.
LEMMA MainRefines == IInv /\ (Main \/ Listener) => AbstractStep
  <1> SUFFICES ASSUME IInv, Main \/ Listener PROVE AbstractStep
    OBVIOUS
  <1>0. TypeOK /\ StopInv
    BY DEF IInv
  <1> DEFINE W == Starting \union Looping
             S == Stopping \union {"thrown"}
  <1> USE DEF Starting, Looping, Stopping
  <1>1. CASE SpawnPublisher
    <2>1. publisher = "unborn" /\ publisher' = "polling"
          /\ main = "spawn_publisher" /\ main' = "spawn_heartbeat"
          /\ UNCHANGED <<heartbeat, inbox>>
      BY <1>0, <1>1 DEF SpawnPublisher, StopInv, BirthInv
    <2>2. Lifecycle!Enter("publisher", "unborn", "working")
      BY <2>1, LifeOfThreads, OneMoves DEF AllThreads, LifeOfMain, LifeOfService, Over
    <2>3. QED
      BY <2>1, <2>2, MoveStep DEF AllThreads, Backlog
  <1>2. CASE SpawnHeartbeat
    <2>1. heartbeat = "unborn" /\ heartbeat' = "polling"
          /\ main = "spawn_heartbeat" /\ main' = "publish_start"
          /\ UNCHANGED <<publisher, inbox>>
      BY <1>0, <1>2 DEF SpawnHeartbeat, StopInv, BirthInv
    <2>2. Lifecycle!Enter("heartbeat", "unborn", "working")
      BY <2>1, LifeOfThreads, OneMoves DEF AllThreads, LifeOfMain, LifeOfService, Over
    <2>3. QED
      BY <2>1, <2>2, MoveStep DEF AllThreads, Backlog
  <1>3. CASE PublishStart \/ ListenerPublishes
    BY <1>3, PublishStep
    DEF PublishStart, ListenerPublishes, Listening, serverVars, LifeOfMain, Over
  <1>4. CASE CheckStop \/ PollChannels \/ ReceiveStdin \/ AbortQueue
             \/ ListenerCallsStop \/ ListenerWaits \/ ListenerReturns
    <2>1. UNCHANGED <<publisher, heartbeat, inbox>> /\ main \in W
          /\ main' \in W \union {"stop_publisher", "thrown"}
      BY <1>4 DEF CheckStop, PollChannels, Deliver, ReceiveStdin, AbortQueue,
                  ListenerCallsStop, ListenerWaits, ListenerReturns, Listening, serviceVars
    <2>2. CASE main' \in W
      BY <2>1, <2>2, IdleStep DEF LifeOfMain, Over
    <2>3. CASE main' \in {"stop_publisher", "thrown"}
      <3>1. Lifecycle!Enter("main", "working", "stopped")
        BY <2>1, <2>3, LifeOfThreads, OneMoves DEF AllThreads, LifeOfMain, LifeOfService, Over
      <3>2. QED
        BY <2>1, <3>1, MoveStep DEF AllThreads, Backlog
    <2>4. QED
      BY <2>1, <2>2, <2>3
  <1>5. CASE StopChannels
    <2>1. UNCHANGED <<publisher, heartbeat, inbox>> /\ main \in Stopping
          /\ main' \in Stopping \union {"returned"}
      BY <1>5 DEF StopChannels, RequestStop, AwaitStop
    <2>2. CASE main' \in Stopping
      BY <2>1, <2>2, IdleStep DEF LifeOfMain, Over
    <2>3. CASE main' = "returned"
      <3>1. Lifecycle!Enter("main", "stopped", "gone")
        BY <2>1, <2>3, LifeOfThreads, OneMoves DEF AllThreads, LifeOfMain, LifeOfService, Over
      <3>2. QED
        BY <2>1, <3>1, MoveStep DEF AllThreads, Backlog
    <2>4. QED
      BY <2>1, <2>2, <2>3
  <1>6. CASE Destroy
    <2>0. UNCHANGED <<publisher, heartbeat, inbox>>
      BY <1>6 DEF Destroy, serviceVars
    <2>1. CASE main \in {"returned", "thrown"} /\ main' = "join_publisher"
               /\ heartbeat = "done"
      <3>1. main = "returned"
        BY <1>0, <2>1 DEF StopInv, LinkInv, Ended, PastHeartbeat
      <3>2. QED
        BY <2>0, <2>1, <3>1, IdleStep DEF LifeOfMain, Over
    <2>2. CASE main = "join_publisher" /\ main' = "close"
      BY <2>0, <2>2, IdleStep DEF LifeOfMain, Over
    <2>3. CASE main = "close" /\ main' = "destroyed"
      <3>1. publisher = "done" /\ heartbeat = "done"
        BY <1>0, <2>3 DEF StopInv, JoinInv
      <3>2. \A t \in Lifecycle!Threads : Life[t] = "gone"
        BY <2>3, <3>1, ThreadsAre, LifeOfThreads DEF AllThreads, LifeOfMain, LifeOfService
      <3>3. Life' = Life
        <4>1. LifeOfMain' = LifeOfMain
          BY <2>3 DEF LifeOfMain
        <4>2. QED
          BY <2>0, <4>1 DEF Life, LifeOfService
      <3>4. Lifecycle!TearDown
        BY <2>0, <2>3, <3>2, <3>3
        DEF Lifecycle!TearDown, Over, Backlog
      <3>5. QED
        BY <3>4 DEF AbstractStep, Lifecycle!Next
    <2>4. QED
      BY <1>6, <2>1, <2>2, <2>3 DEF Destroy
  <1>7. QED
    BY <1>1, <1>2, <1>3, <1>4, <1>5, <1>6 DEF Main, Listener

\* A service that is asked to stop is asked by the main thread, out of its loop.
LEMMA WorkerHasStopped ==
    ASSUME IInv, NEW t \in {"publisher", "heartbeat"}, Requested(t)
    PROVE  Life["main"] \in {"stopped", "gone"}
  <1>1. main \in {"wait_publisher", "wait_heartbeat"}
    BY DEF IInv, StopInv, LinkInv, Requested
  <1>2. QED
    BY <1>1, LifeOfThreads DEF LifeOfMain, Starting, Looping, Stopping

\* The services forward, stop after the worker and leave
\* (xpublisher.cpp:63-96, xheartbeat.cpp:53-79).
LEMMA ServiceRefines == IInv /\ Service => AbstractStep
  <1> SUFFICES ASSUME IInv, Service PROVE AbstractStep
    OBVIOUS
  <1>0. TypeOK /\ Backlog \in Nat /\ main' = main /\ LifeOfMain' = LifeOfMain /\ Over' = Over
    BY DEF IInv, TypeOK, Backlog, Service, serverVars, LifeOfMain, Over
  <1>1. CASE PublishTurn
    <2>1. Life' = Life
      BY <1>0, <1>1 DEF PublishTurn, Life, LifeOfService
    <2>2. Life["publisher"] = "working"
      BY <1>1, LifeOfThreads DEF PublishTurn, LifeOfService
    <2>3. Backlog' = Backlog \/ (Backlog > 0 /\ Backlog' = Backlog - 1)
      BY <1>0, <1>1, ForwardMain DEF PublishTurn
    <2>4. CASE Backlog' = Backlog
      BY <1>0, <2>1, <2>4 DEF AbstractStep, Lifecycle!vars
    <2>5. CASE Backlog > 0 /\ Backlog' = Backlog - 1
      <3>1. Lifecycle!Forward
        BY <1>0, <2>1, <2>2, <2>5 DEF Lifecycle!Forward
      <3>2. QED
        BY <3>1 DEF AbstractStep, Lifecycle!Next
    <2>6. QED
      BY <2>3, <2>4, <2>5
  <1>2. CASE PublishLastTurn
    <2>1. Lifecycle!Enter("publisher", "working", "stopped")
      BY <1>0, <1>2, LifeOfThreads, OneMoves
      DEF PublishLastTurn, AllThreads, LifeOfService
    <2>2. Backlog' = Backlog \/ (Backlog > 0 /\ Backlog' = Backlog - 1)
      BY <1>0, <1>2, ForwardMain DEF PublishLastTurn
    <2>3. Backlog' \in 0 .. Backlog
      BY <1>0, <2>2
    <2>4. Life["main"] \in {"stopped", "gone"}
      BY <1>2, WorkerHasStopped DEF PublishLastTurn
    <2>5. QED
      BY <2>1, <2>2, <2>3, <2>4, StopServiceStep
  <1>3. CASE PublisherLeaves
    <2>1. Lifecycle!Enter("publisher", "stopped", "gone")
      BY <1>0, <1>3, LifeOfThreads, OneMoves
      DEF PublisherLeaves, AllThreads, LifeOfService
    <2>2. QED
      BY <1>3, <2>1, MoveStep
      DEF PublisherLeaves, AllThreads, Backlog
  <1>4. CASE EchoTurn
    BY <1>0, <1>4, IdleStep DEF EchoTurn
  <1>5. CASE EchoLastTurn
    <2>1. Lifecycle!Enter("heartbeat", "working", "stopped")
      BY <1>0, <1>5, LifeOfThreads, OneMoves
      DEF EchoLastTurn, AllThreads, LifeOfService
    <2>2. Backlog' = Backlog
      BY <1>5 DEF EchoLastTurn, Backlog
    <2>3. Backlog' \in 0 .. Backlog
      BY <1>0, <2>2
    <2>4. Life["main"] \in {"stopped", "gone"}
      BY <1>5, WorkerHasStopped DEF EchoLastTurn
    <2>5. QED
      BY <2>1, <2>2, <2>3, <2>4, StopServiceStep
  <1>6. CASE HeartbeatLeaves
    <2>1. Lifecycle!Enter("heartbeat", "stopped", "gone")
      BY <1>0, <1>6, LifeOfThreads, OneMoves
      DEF HeartbeatLeaves, AllThreads, LifeOfService
    <2>2. QED
      BY <1>6, <2>1, MoveStep
      DEF HeartbeatLeaves, AllThreads, Backlog
  <1>7. QED
    BY <1>1, <1>2, <1>3, <1>4, <1>5, <1>6 DEF Service, PublisherStep, HeartbeatStep

\* The default server keeps the promises of every server: its services stop after
\* its worker, nothing is published after that, and its sockets are closed after
\* every thread has returned, even when start throws (xserver_zmq_impl.cpp:121).
THEOREM Refinement == Spec => ImplementsLifecycle
  <1>1. Init => Lifecycle!Init
    <2> SUFFICES ASSUME Init PROVE Lifecycle!Init
      OBVIOUS
    <2>1. Life = [t \in AllThreads |-> IF t = "main" THEN "working" ELSE "unborn"]
      <3>1. \A t \in AllThreads : Life[t] = IF t = "main" THEN "working" ELSE "unborn"
        BY LifeOfThreads
        DEF Init, AllThreads, LifeOfMain, LifeOfService, Starting, Looping, Stopping
      <3>2. Life = [t \in AllThreads |-> Life[t]]
        BY DEF Life, AllThreads
      <3>3. QED
        BY <3>1, <3>2
    <2>2. Backlog = 0 /\ Over = FALSE
      BY DEF Init, Backlog, Over
    <2>3. QED
      BY <2>1, <2>2, ThreadsAre DEF Lifecycle!Init
  <1>2. IInv /\ [Next]_vars => [Lifecycle!Next]_Lifecycle!vars
    <2> SUFFICES ASSUME IInv, [Next]_vars PROVE AbstractStep
      BY DEF AbstractStep
    <2>1. CASE UNCHANGED vars \/ Client
      <3>1. UNCHANGED <<main, publisher, heartbeat, inbox>>
        BY <2>1 DEF vars, serverVars, serviceVars, Client, ClientSendsControl,
                    ClientSendsShell, ClientSendsInput, Peer, PeerSends, PeerPings
      <3>2. QED
        BY <3>1, IdleStep DEF LifeOfMain, Over
    <2>2. QED
      BY <2>1, MainRefines, ServiceRefines DEF Next
  <1>3. QED
    BY <1>1, <1>2, Invariance, PTL DEF Spec, ImplementsLifecycle, Lifecycle!Spec

-----------------------------------------------------------------------------
(* The subscribers.                                                         *)

\* A turn of the publisher takes one event from the socket and welcomes it if it
\* is a subscription (xpublisher.cpp:98-140).
LEMMA WelcomeEvent ==
    ASSUME PeersOK, OneWelcomePerSubscription, HandleEvent, subscribed' = subscribed
    PROVE  OneWelcomePerSubscription'
  <1>1. CASE UNCHANGED <<events, welcomed>>
    BY <1>1 DEF OneWelcomePerSubscription
  <1>2. CASE /\ events # <<>>
             /\ events' = Tail(events)
             /\ welcomed' = IF Head(events) = "subscribe" THEN welcomed + 1 ELSE welcomed
    <2>1. events \in Seq(Event) /\ welcomed \in Nat
      BY DEF PeersOK
    <2>2. Count(events, {"subscribe"}) \in Nat
      BY <2>1, CountNat
    <2>3. Count(events', {"subscribe"})
            = Count(events, {"subscribe"}) - IF Head(events) \in {"subscribe"} THEN 1 ELSE 0
      BY <1>2, <2>1, CountTail
    <2>4. QED
      BY <1>2, <2>1, <2>2, <2>3 DEF OneWelcomePerSubscription
  <1>3. QED
    BY <1>1, <1>2 DEF HandleEvent

\* A peer that subscribes is counted, and its subscription waits in the socket.
LEMMA WelcomePeer ==
    ASSUME PeersOK, OneWelcomePerSubscription, NEW e \in Event, PeerSends(e)
    PROVE  OneWelcomePerSubscription'
  <1>1. events \in Seq(Event) /\ welcomed \in Nat /\ welcomed' = welcomed
    BY DEF PeersOK, PeerSends
  <1>2. Count(events, {"subscribe"}) \in Nat
    BY <1>1, CountNat
  <1>3. Count(events', {"subscribe"})
          = Count(events, {"subscribe"}) + IF e \in {"subscribe"} THEN 1 ELSE 0
    BY <1>1, CountAppend DEF PeerSends
  <1>4. QED
    BY <1>1, <1>2, <1>3 DEF OneWelcomePerSubscription, PeerSends

\* Each subscription is welcomed once, whatever else the subscribers send and
\* whatever is published in between (xpublisher.cpp:98-140).
THEOREM EverySubscriberIsWelcomedOnce == Spec => []OneWelcomePerSubscription
  <1>1. Init => OneWelcomePerSubscription
    BY CountEmpty DEF Init, PeersInit, OneWelcomePerSubscription
  <1>2. IInv /\ OneWelcomePerSubscription /\ [Next]_vars => OneWelcomePerSubscription'
    <2> SUFFICES ASSUME IInv, OneWelcomePerSubscription, [Next]_vars
                 PROVE  OneWelcomePerSubscription'
      OBVIOUS
    <2>0. PeersOK
      BY DEF IInv, TypeOK
    <2>1. CASE PublishTurn
      BY <2>0, <2>1, WelcomeEvent DEF PublishTurn
    <2>2. CASE \E e \in Event : PeerSends(e)
      BY <2>0, <2>2, WelcomePeer
    <2>3. CASE UNCHANGED <<events, welcomed, subscribed>>
      BY <2>3 DEF OneWelcomePerSubscription
    <2>4. Main \/ Listener => UNCHANGED <<events, welcomed, subscribed>>
      BY DEF Main, SpawnPublisher, SpawnHeartbeat, PublishStart, CheckStop, PollChannels,
             StopChannels, Destroy, ReceiveStdin, AbortQueue, Listener, ListenerPublishes,
             ListenerCallsStop, ListenerWaits, ListenerReturns, serviceVars, peerVars
    <2>5. Service => PublishTurn \/ UNCHANGED <<events, welcomed, subscribed>>
      BY DEF Service, PublisherStep, PublishLastTurn, PublisherLeaves, HeartbeatStep,
             EchoTurn, EchoLastTurn, HeartbeatLeaves, peerVars
    <2>6. Client => (\E e \in Event : PeerSends(e)) \/ UNCHANGED <<events, welcomed, subscribed>>
      BY DEF Client, ClientSendsControl, ClientSendsShell, ClientSendsInput, Peer, PeerPings,
             serviceVars, peerVars
    <2>7. UNCHANGED vars => UNCHANGED <<events, welcomed, subscribed>>
      BY DEF vars, serviceVars, peerVars
    <2>8. QED
      BY <2>1, <2>2, <2>3, <2>4, <2>5, <2>6, <2>7 DEF Next
  <1>3. QED
    BY <1>1, <1>2, Invariance, PTL DEF Spec

=============================================================================

--------------------------- MODULE DefaultServer ---------------------------
(***************************************************************************)
(* The default server: xserver_zmq_default over xserver_zmq.  One thread,  *)
(* the main one, polls the control and the shell channels and runs both    *)
(* listeners; the publisher and the heartbeat have threads of their own.   *)
(*                                                                         *)
(* The messenger is a function call (xtrivial_messenger): send_to_shell    *)
(* runs the internal listener in the caller and touches no state here.     *)
(***************************************************************************)
EXTENDS Services

CONSTANTS
    MaxControl,   \* how many messages wait in the control socket
    MaxShell,     \* how many messages clients send on the shell channel
    MaxPublish,   \* how many messages wait for the publisher
    MaxStdin      \* how many input replies wait in the stdin socket

ASSUME DefaultBounds ==
    /\ MaxControl \in Nat
    /\ MaxShell \in Nat
    /\ MaxPublish \in Nat
    /\ MaxStdin \in Nat

VARIABLES
    main,         \* where the main thread is
    requestStop,  \* xserver_zmq_impl::m_request_stop
    controlQ,     \* messages waiting in the control ROUTER socket
    shellQ,       \* messages waiting in the shell ROUTER socket
    stdinQ,       \* how many input replies wait in the stdin ROUTER socket
    sent          \* how many messages clients have sent on the shell channel

serverVars == <<main, requestStop, controlQ, shellQ, stdinQ, sent>>
serviceVars == <<publisher, heartbeat, link, inbox, peerVars>>

vars == <<serverVars, serviceVars>>

Message == {"valid", "malformed"}

\* start_impl up to the loop, the loop and the listeners, stop_channels, the
\* return of start_impl or the exception that leaves it, and the destructor.
Starting == {"spawn_publisher", "spawn_heartbeat", "publish_start"}
Looping == {"checking", "polling", "control", "shell", "stdin", "aborting"}
Stopping == {"stop_publisher", "wait_publisher", "stop_heartbeat", "wait_heartbeat"}
Ending == {"returned", "thrown", "join_publisher", "close", "destroyed"}

Listening == {"control", "shell"}

TypeOK ==
    /\ main \in Starting \union Looping \union Stopping \union Ending
    /\ publisher \in PollerState
    /\ heartbeat \in PollerState
    /\ requestStop \in BOOLEAN
    /\ link \in [{"publisher", "heartbeat"} -> Link]
    /\ controlQ \in Seq(Message)
    /\ shellQ \in Seq(Message)
    /\ stdinQ \in Nat
    /\ sent \in Nat
    /\ inbox \in [{"main"} -> Nat]
    /\ PeersOK

Init ==
    /\ main = "spawn_publisher"
    /\ publisher = "unborn"
    /\ heartbeat = "unborn"
    /\ requestStop = FALSE
    /\ link = [t \in {"publisher", "heartbeat"} |-> IdleLink]
    /\ controlQ = <<>>
    /\ shellQ = <<>>
    /\ stdinQ = 0
    /\ sent = 0
    /\ inbox = [m \in {"main"} |-> 0]
    /\ PeersInit

-----------------------------------------------------------------------------
(* The main thread outside the listeners.                                   *)

SpawnPublisher ==
    /\ main = "spawn_publisher"
    /\ publisher' = "polling"
    /\ main' = "spawn_heartbeat"
    /\ UNCHANGED <<requestStop, controlQ, shellQ, stdinQ, sent>>
    /\ UNCHANGED <<heartbeat, link, inbox, peerVars>>

SpawnHeartbeat ==
    /\ main = "spawn_heartbeat"
    /\ heartbeat' = "polling"
    /\ main' = "publish_start"
    /\ UNCHANGED <<requestStop, controlQ, shellQ, stdinQ, sent>>
    /\ UNCHANGED <<publisher, link, inbox, peerVars>>

PublishStart ==
    /\ main = "publish_start"
    /\ Publish("main")
    /\ main' = "checking"
    /\ UNCHANGED <<requestStop, controlQ, shellQ, stdinQ, sent>>
    /\ UNCHANGED <<publisher, heartbeat, link, peerVars>>

CheckStop ==
    /\ main = "checking"
    /\ main' = IF requestStop THEN "stop_publisher" ELSE "polling"
    /\ UNCHANGED <<requestStop, controlQ, shellQ, stdinQ, sent, serviceVars>>

\* The message read goes to its listener.  What deserialize throws for a
\* malformed one is no zmq::error_t: it leaves poll_channels and start_impl.
Deliver(m, listener) == main' = IF m = "valid" THEN listener ELSE "thrown"

\* The control channel is served before the shell channel.
PollChannels ==
    /\ main = "polling"
    /\ \/ /\ controlQ # <<>>
          /\ Deliver(Head(controlQ), "control")
          /\ controlQ' = Tail(controlQ)
          /\ UNCHANGED shellQ
       \/ /\ controlQ = <<>>
          /\ shellQ # <<>>
          /\ ~requestStop
          /\ Deliver(Head(shellQ), "shell")
          /\ shellQ' = Tail(shellQ)
          /\ UNCHANGED controlQ
    /\ UNCHANGED <<requestStop, stdinQ, sent, serviceVars>>

RequestStop(t, b, here, next) ==
    /\ main = here
    /\ Send(t, b)
    /\ main' = next

AwaitStop(t, here, next) ==
    /\ main = here
    /\ Collect(t)
    /\ main' = next

\* Variant: stop_channels does not stop the heartbeat.
StopPublisherOnly ==
    /\ \/ RequestStop("publisher", "stop", "stop_publisher", "wait_publisher")
       \/ AwaitStop("publisher", "wait_publisher", "returned")
    /\ UNCHANGED <<requestStop, controlQ, shellQ, stdinQ, sent>>
    /\ UNCHANGED <<publisher, heartbeat, inbox, peerVars>>

StopChannels ==
    /\ \/ RequestStop("publisher", "stop", "stop_publisher", "wait_publisher")
       \/ AwaitStop("publisher", "wait_publisher", "stop_heartbeat")
       \/ RequestStop("heartbeat", "empty", "stop_heartbeat", "wait_heartbeat")
       \/ AwaitStop("heartbeat", "wait_heartbeat", "returned")
    /\ UNCHANGED <<requestStop, controlQ, shellQ, stdinQ, sent>>
    /\ UNCHANGED <<publisher, heartbeat, inbox, peerVars>>

\* Variant: the threads are detached, not joined.
DestroyDetached ==
    /\ \/ main \in {"returned", "thrown"} /\ main' = "join_publisher"
       \/ main = "join_publisher" /\ main' = "close"
       \/ main = "close" /\ main' = "destroyed"
    /\ UNCHANGED <<requestStop, controlQ, shellQ, stdinQ, sent, serviceVars>>

\* The owner destroys the server when start_impl has returned or thrown: the
\* heartbeat thread is joined, then the publisher thread, then the sockets close.
Destroy ==
    /\ \/ main \in {"returned", "thrown"} /\ heartbeat = "done" /\ main' = "join_publisher"
       \/ main = "join_publisher" /\ publisher = "done" /\ main' = "close"
       \/ main = "close" /\ main' = "destroyed"
    /\ UNCHANGED <<requestStop, controlQ, shellQ, stdinQ, sent, serviceVars>>

-----------------------------------------------------------------------------
(* The listeners, on the main thread: publish, stop, send_stdin, abort_queue. *)

ListenerPublishes ==
    /\ main \in Listening
    /\ inbox["main"] < MaxPublish
    /\ Publish("main")
    /\ UNCHANGED <<serverVars, publisher, heartbeat, link, peerVars>>

ListenerCallsStop ==
    /\ main \in Listening
    /\ requestStop' = TRUE
    /\ UNCHANGED <<main, controlQ, shellQ, stdinQ, sent, serviceVars>>

ListenerWaits ==
    /\ main = "shell"
    /\ main' \in {"stdin", "aborting"}
    /\ UNCHANGED <<requestStop, controlQ, shellQ, stdinQ, sent, serviceVars>>

ListenerReturns ==
    /\ main \in Listening
    /\ main' = "checking"
    /\ UNCHANGED <<requestStop, controlQ, shellQ, stdinQ, sent, serviceVars>>

\* Variant: the receive does not block.
ReceiveStdinNoBlock ==
    /\ main = "stdin"
    /\ stdinQ' = stdinQ - 1
    /\ main' = "shell"
    /\ UNCHANGED <<requestStop, controlQ, shellQ, sent, serviceVars>>

\* A malformed input reply is reported and dropped: send_stdin returns anyway.
ReceiveStdin ==
    /\ main = "stdin"
    /\ stdinQ > 0
    /\ stdinQ' = stdinQ - 1
    /\ main' = "shell"
    /\ UNCHANGED <<requestStop, controlQ, shellQ, sent, serviceVars>>

\* So is a malformed message that abort_queue finds in the queue.
AbortQueue ==
    /\ main = "aborting"
    /\ \/ shellQ = <<>> /\ main' = "shell" /\ shellQ' = shellQ
       \/ shellQ # <<>> /\ shellQ' = Tail(shellQ) /\ main' = main
    /\ UNCHANGED <<requestStop, controlQ, stdinQ, sent, serviceVars>>

-----------------------------------------------------------------------------
\* There is no end to the control messages.
ClientSendsControl(m) ==
    /\ Len(controlQ) < MaxControl
    /\ controlQ' = Append(controlQ, m)
    /\ UNCHANGED <<main, requestStop, shellQ, stdinQ, sent, serviceVars>>

ClientSendsShell(m) ==
    /\ sent < MaxShell
    /\ sent' = sent + 1
    /\ shellQ' = Append(shellQ, m)
    /\ UNCHANGED <<main, requestStop, controlQ, stdinQ, serviceVars>>

ClientSendsInput ==
    /\ stdinQ < MaxStdin
    /\ stdinQ' = stdinQ + 1
    /\ UNCHANGED <<main, requestStop, controlQ, shellQ, sent, serviceVars>>

Client ==
    \/ \E m \in Message : ClientSendsControl(m) \/ ClientSendsShell(m)
    \/ ClientSendsInput
    \/ Peer /\ UNCHANGED serverVars

Main ==
    \/ SpawnPublisher \/ SpawnHeartbeat \/ PublishStart
    \/ CheckStop \/ PollChannels \/ StopChannels \/ Destroy
    \/ ReceiveStdin \/ AbortQueue

Listener == ListenerPublishes \/ ListenerCallsStop \/ ListenerWaits \/ ListenerReturns

Service == (PublisherStep \/ HeartbeatStep) /\ UNCHANGED serverVars

Next == Main \/ Listener \/ Service \/ Client

Spec == Init /\ [][Next]_vars

\* The threads are scheduled, a listener returns in the end, a prompt is answered.
Fairness ==
    /\ WF_vars(Main)
    /\ SF_vars(ListenerReturns)
    /\ WF_vars(PublisherStep /\ UNCHANGED serverVars)
    /\ WF_vars(HeartbeatStep /\ UNCHANGED serverVars)
    /\ WF_vars(main = "stdin" /\ ClientSendsInput)

FairSpec == Spec /\ Fairness

-----------------------------------------------------------------------------
(* Properties.                                                              *)

\* An exception stops the worker too.
LifeOfMain ==
    CASE main \in Starting \union Looping -> "working"
      [] main \in Stopping \union {"thrown"} -> "stopped"
      [] OTHER -> "gone"

LifeOfService(state) ==
    CASE state = "unborn" -> "unborn"
      [] state = "polling" -> "working"
      [] state = "leaving" -> "stopped"
      [] state = "done" -> "gone"

Life ==
    [t \in {"main", "publisher", "heartbeat"} |->
        CASE t = "main" -> LifeOfMain
          [] t = "publisher" -> LifeOfService(publisher)
          [] t = "heartbeat" -> LifeOfService(heartbeat)]

Backlog == inbox["main"]

Over == main = "destroyed"

Lifecycle == INSTANCE ServerLifecycle WITH
    Workers <- {"main"},
    Services <- {"publisher", "heartbeat"},
    life <- Life,
    backlog <- Backlog,
    over <- Over

\* The default server keeps the promises of every server, with a single worker:
\* the destructor waits for the other threads even when start has thrown.
ImplementsLifecycle == Lifecycle!Spec

\* A stop request made by a listener stops the kernel, whatever still waits in
\* the channels or goes on arriving, malformed messages included: the loop reads
\* no more of them.
StopCompletes == requestStop ~> (main = "destroyed")

\* The controller channels are used "to send stop messages to the subthread and
\* to cleanly stop the kernel" (server.rst:42-43): the main thread leaves
\* start_impl only when both threads have been stopped.
StopsThreadsBeforeLeaving ==
    main \in {"returned", "thrown"} => Ended(publisher) /\ Ended(heartbeat)

=============================================================================

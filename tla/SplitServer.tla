---------------------------- MODULE SplitServer ----------------------------
(***************************************************************************)
(* The split server: xserver_control_main and xserver_shell_main, with the *)
(* default runners, from the construction of its threads to the            *)
(* destruction of its sockets.                                             *)
(*                                                                         *)
(* One thread reads the control channel, one reads the shell channel, one  *)
(* publishes and one answers heartbeats.  One of the first two is the main *)
(* thread of the process ("host").  The control thread owns a messenger:   *)
(* three REQ sockets, each connected to the REP "controller" socket of     *)
(* another thread.  It is the only way a thread is told to stop.           *)
(*                                                                         *)
(* The listeners (the kernel core) are not part of this repository: while  *)
(* one runs it makes any sequence of calls of the server's API, and it     *)
(* returns eventually.                                                     *)
(***************************************************************************)
EXTENDS Services

CONSTANTS
    MaxControl,   \* how many messages clients send on the control channel
    MaxShell,     \* how many messages clients send on the shell channel
    MaxPublish,   \* how many messages of each PUB socket wait for the publisher
    MaxStdin      \* how many input replies wait in the stdin socket

ASSUME BoundsAssumption ==
    /\ MaxControl \in Nat
    /\ MaxShell \in Nat
    /\ MaxPublish \in Nat
    /\ MaxStdin \in Nat

Channels == {"control", "shell"}

Subthreads == {"shell", "publisher", "heartbeat"}   \* the peers of the messenger

VARIABLES
    host,         \* the channel whose runner runs on the main thread
    main,         \* where the main thread is in start_impl, then in the destructor
    control,      \* where the control thread is
    shell,        \* where the shell thread is
    requestStop,  \* xcontrol_default_runner::m_request_stop
    controlQ,     \* messages waiting in the control ROUTER socket
    shellQ,       \* messages waiting in the shell ROUTER socket
    stdinQ,       \* how many input replies wait in the stdin ROUTER socket
    sent,         \* how many messages clients have sent on each channel
    closed,       \* the objects whose sockets have been closed
    late          \* history: control messages handed over after the stop request

threadVars == <<host, main, control, shell, publisher, heartbeat>>
clientVars == <<controlQ, shellQ, stdinQ, sent, peerVars>>
runnerVars == <<requestStop, late>>

vars == <<threadVars, clientVars, inbox, runnerVars, link, closed>>

\* What the actions of the publisher and of the heartbeat thread leave alone.
runnersVars == <<host, main, control, shell, controlQ, shellQ, stdinQ, sent,
                 requestStop, closed, late>>

-----------------------------------------------------------------------------
(* The type of the state.                                                   *)

\* A wire message deserializes or, when its signature or a part of it is wrong, not.
Message == {"valid", "malformed"}

MainState ==
    {"spawn_publisher", "spawn_heartbeat", "spawn_runner", "publish_start",
     "run", "join_shell", "join_control", "join_publisher", "join_heartbeat",
     "close_shell", "close_publisher", "close_heartbeat", "close_control",
     "destroyed"}

ControlState ==
    {"unborn", "starting", "checking", "receiving", "handling", "asking",
     "stop_shell", "wait_shell", "stop_publisher", "wait_publisher",
     "stop_heartbeat", "wait_heartbeat", "done"}

ShellState ==
    {"unborn", "polling", "handling", "stdin", "aborting", "internal",
     "leaving", "done"}

TypeOK ==
    /\ host \in Channels
    /\ main \in MainState
    /\ control \in ControlState
    /\ shell \in ShellState
    /\ publisher \in PollerState
    /\ heartbeat \in PollerState
    /\ requestStop \in BOOLEAN
    /\ link \in [Subthreads -> Link]
    /\ controlQ \in Seq(Message)
    /\ shellQ \in Seq(Message)
    /\ stdinQ \in Nat
    /\ sent \in [Channels -> Nat]
    /\ inbox \in [Channels -> Nat]
    /\ closed \subseteq {"shell", "publisher", "heartbeat", "control"}
    /\ late \in Nat
    /\ PeersOK

Init ==
    /\ host \in Channels
    /\ main = "spawn_publisher"
    /\ control = "unborn"
    /\ shell = "unborn"
    /\ publisher = "unborn"
    /\ heartbeat = "unborn"
    /\ requestStop = FALSE
    /\ link = [t \in Subthreads |-> IdleLink]
    /\ controlQ = <<>>
    /\ shellQ = <<>>
    /\ stdinQ = 0
    /\ sent = [c \in Channels |-> 0]
    /\ inbox = [c \in Channels |-> 0]
    /\ closed = {}
    /\ late = 0
    /\ PeersInit

-----------------------------------------------------------------------------
(* The main thread: start_impl, then, after it returns, the destructor.     *)

SpawnPublisher ==
    /\ main = "spawn_publisher"
    /\ publisher' = "polling"
    /\ main' = "spawn_heartbeat"
    /\ UNCHANGED <<host, control, shell, heartbeat>>
    /\ UNCHANGED <<clientVars, inbox, runnerVars, link, closed>>

SpawnHeartbeat ==
    /\ main = "spawn_heartbeat"
    /\ heartbeat' = "polling"
    /\ main' = "spawn_runner"
    /\ UNCHANGED <<host, control, shell, publisher>>
    /\ UNCHANGED <<clientVars, inbox, runnerVars, link, closed>>

\* The runner that does not run on the main thread gets a thread of its own.
SpawnRunner ==
    /\ main = "spawn_runner"
    /\ \/ host = "control" /\ shell' = "polling" /\ control' = control
       \/ host = "shell" /\ control' = "starting" /\ shell' = shell
    /\ main' = "publish_start"
    /\ UNCHANGED <<host, publisher, heartbeat>>
    /\ UNCHANGED <<clientVars, inbox, runnerVars, link, closed>>

\* The start message goes out on the channel of the main thread, which then runs.
PublishStart ==
    /\ main = "publish_start"
    /\ Publish(host)
    /\ \/ host = "control" /\ control' = "starting" /\ shell' = shell
       \/ host = "shell" /\ shell' = "polling" /\ control' = control
    /\ main' = "run"
    /\ UNCHANGED <<host, publisher, heartbeat>>
    /\ UNCHANGED <<clientVars, runnerVars, link, closed>>

\* The runner returns, start_impl returns, and the owner destroys the server.
Return ==
    /\ main = "run"
    /\ IF host = "control" THEN control = "done" ELSE shell = "done"
    /\ main' = "join_shell"
    /\ UNCHANGED <<host, control, shell, publisher, heartbeat>>
    /\ UNCHANGED <<clientVars, inbox, runnerVars, link, closed>>

Advance(here, next) ==
    /\ main = here
    /\ main' = next
    /\ UNCHANGED <<host, control, shell, publisher, heartbeat>>
    /\ UNCHANGED <<clientVars, inbox, runnerVars, link>>

\* The members are destroyed in the reverse order of their declaration: the two
\* runner threads, then those of xserver_zmq_split_impl, and then its sockets.
\* The destructor of xthread joins.
Join ==
    /\ \/ shell = "done" /\ Advance("join_shell", "join_control")
       \/ control = "done" /\ Advance("join_control", "join_publisher")
       \/ publisher = "done" /\ Advance("join_publisher", "join_heartbeat")
       \/ heartbeat = "done" /\ Advance("join_heartbeat", "close_shell")
    /\ closed' = closed

Close ==
    \/ Advance("close_shell", "close_publisher") /\ closed' = closed \union {"shell"}
    \/ Advance("close_publisher", "close_heartbeat") /\ closed' = closed \union {"publisher"}
    \/ Advance("close_heartbeat", "close_control") /\ closed' = closed \union {"heartbeat"}
    \/ Advance("close_control", "destroyed") /\ closed' = closed \union {"control"}

Main ==
    \/ SpawnPublisher \/ SpawnHeartbeat \/ SpawnRunner \/ PublishStart
    \/ Return \/ Join \/ Close

-----------------------------------------------------------------------------
(* The control thread: xcontrol_default_runner over xcontrol.               *)

\* A stop request made before the loop starts is forgotten.
StartControl ==
    /\ control = "starting"
    /\ requestStop' = FALSE
    /\ control' = "checking"
    /\ UNCHANGED <<host, main, shell, publisher, heartbeat>>
    /\ UNCHANGED <<clientVars, inbox, late, link, closed>>

\* Variant: the loop serves what is queued before it looks at the flag.
CheckStopWhenDrained ==
    /\ control = "checking"
    /\ control' = IF requestStop /\ controlQ = <<>> THEN "stop_shell" ELSE "receiving"
    /\ UNCHANGED <<host, main, shell, publisher, heartbeat>>
    /\ UNCHANGED <<clientVars, inbox, runnerVars, link, closed>>

CheckStop ==
    /\ control = "checking"
    /\ control' = IF requestStop THEN "stop_shell" ELSE "receiving"
    /\ UNCHANGED <<host, main, shell, publisher, heartbeat>>
    /\ UNCHANGED <<clientVars, inbox, runnerVars, link, closed>>

\* read_control blocks until there is a message; a malformed one is dropped.
ReceiveControl ==
    /\ control = "receiving"
    /\ controlQ # <<>>
    /\ controlQ' = Tail(controlQ)
    /\ \/ /\ Head(controlQ) = "valid"
          /\ control' = "handling"
          /\ late' = IF requestStop THEN late + 1 ELSE late
       \/ /\ Head(controlQ) = "malformed"
          /\ control' = "checking"
          /\ late' = late
    /\ UNCHANGED <<host, main, shell, publisher, heartbeat>>
    /\ UNCHANGED <<shellQ, stdinQ, sent, peerVars, requestStop, inbox, link, closed>>

\* send_to_shell returns with the reply of the internal listener.
CollectReply ==
    /\ control = "asking"
    /\ Collect("shell")
    /\ control' = "handling"
    /\ UNCHANGED <<host, main, shell, publisher, heartbeat>>
    /\ UNCHANGED <<clientVars, inbox, runnerVars, closed>>

\* One request of stop_channels, and the wait for its answer.
RequestStop(t, b, here, next) ==
    /\ control = here
    /\ Send(t, b)
    /\ control' = next

AwaitStop(t, here, next) ==
    /\ control = here
    /\ Collect(t)
    /\ control' = next

\* Variant: the shell is stopped last.
StopChannelsShellLast ==
    /\ \/ RequestStop("publisher", "empty", "stop_shell", "wait_shell")
       \/ AwaitStop("publisher", "wait_shell", "stop_publisher")
       \/ RequestStop("heartbeat", "empty", "stop_publisher", "wait_publisher")
       \/ AwaitStop("heartbeat", "wait_publisher", "stop_heartbeat")
       \/ RequestStop("shell", "stop", "stop_heartbeat", "wait_heartbeat")
       \/ AwaitStop("shell", "wait_heartbeat", "done")
    /\ UNCHANGED <<host, main, shell, publisher, heartbeat>>
    /\ UNCHANGED <<clientVars, inbox, runnerVars, closed>>

StopChannels ==
    /\ \/ RequestStop("shell", "stop", "stop_shell", "wait_shell")
       \/ AwaitStop("shell", "wait_shell", "stop_publisher")
       \/ RequestStop("publisher", "empty", "stop_publisher", "wait_publisher")
       \/ AwaitStop("publisher", "wait_publisher", "stop_heartbeat")
       \/ RequestStop("heartbeat", "empty", "stop_heartbeat", "wait_heartbeat")
       \/ AwaitStop("heartbeat", "wait_heartbeat", "done")
    /\ UNCHANGED <<host, main, shell, publisher, heartbeat>>
    /\ UNCHANGED <<clientVars, inbox, runnerVars, closed>>

ControlStep ==
    StartControl \/ CheckStop \/ ReceiveControl \/ CollectReply \/ StopChannels

(* What the control listener does: publish, send_to_shell, stop, return.    *)

ControlPublishes ==
    /\ control = "handling"
    /\ inbox["control"] < MaxPublish
    /\ Publish("control")
    /\ UNCHANGED <<threadVars, clientVars, runnerVars, link, closed>>

\* Variant: send_to_shell does not wait for the reply.
SendToShellAsync ==
    /\ control = "handling"
    /\ Send("shell", "json")
    /\ UNCHANGED <<threadVars, clientVars, inbox, runnerVars, closed>>

SendToShell ==
    /\ control = "handling"
    /\ Send("shell", "json")
    /\ control' = "asking"
    /\ UNCHANGED <<host, main, shell, publisher, heartbeat>>
    /\ UNCHANGED <<clientVars, inbox, runnerVars, closed>>

ControlCallsStop ==
    /\ control = "handling"
    /\ requestStop' = TRUE
    /\ UNCHANGED <<threadVars, clientVars, inbox, late, link, closed>>

ControlReturns ==
    /\ control = "handling"
    /\ control' = "checking"
    /\ UNCHANGED <<host, main, shell, publisher, heartbeat>>
    /\ UNCHANGED <<clientVars, inbox, runnerVars, link, closed>>

ControlListener ==
    ControlPublishes \/ SendToShell \/ ControlCallsStop \/ ControlReturns

-----------------------------------------------------------------------------
(* The shell thread: xshell_default_runner over xshell.                     *)

\* The poll reports the shell channel before the controller.
ReadShell ==
    /\ shell = "polling"
    /\ shellQ # <<>>
    /\ shellQ' = Tail(shellQ)
    /\ shell' = IF Head(shellQ) = "valid" THEN "handling" ELSE "polling"
    /\ UNCHANGED <<host, main, control, publisher, heartbeat>>
    /\ UNCHANGED <<controlQ, stdinQ, sent, peerVars, inbox, runnerVars, link, closed>>

\* Variant: the thread answers the stop request and polls on.
ReadControllerNoBreak ==
    /\ shell = "polling"
    /\ shellQ = <<>>
    /\ Requested("shell")
    /\ \/ /\ link["shell"].body = "stop"
          /\ Answer("shell", "stop")
          /\ shell' = shell
       \/ /\ link["shell"].body # "stop"
          /\ link' = [link EXCEPT !["shell"].phase = "serving"]
          /\ shell' = "internal"
    /\ UNCHANGED <<host, main, control, publisher, heartbeat>>
    /\ UNCHANGED <<clientVars, inbox, runnerVars, closed>>

\* Any request but "stop" goes to the internal listener.
ReadController ==
    /\ shell = "polling"
    /\ shellQ = <<>>
    /\ Requested("shell")
    /\ \/ /\ link["shell"].body = "stop"
          /\ Answer("shell", "stop")
          /\ shell' = "leaving"
       \/ /\ link["shell"].body # "stop"
          /\ link' = [link EXCEPT !["shell"].phase = "serving"]
          /\ shell' = "internal"
    /\ UNCHANGED <<host, main, control, publisher, heartbeat>>
    /\ UNCHANGED <<clientVars, inbox, runnerVars, closed>>

\* Variant: the receive does not block.
ReceiveStdinNoBlock ==
    /\ shell = "stdin"
    /\ stdinQ' = stdinQ - 1
    /\ shell' = "handling"
    /\ UNCHANGED <<host, main, control, publisher, heartbeat>>
    /\ UNCHANGED <<controlQ, shellQ, sent, peerVars, inbox, runnerVars, link, closed>>

\* send_stdin returns with the first message of the stdin channel, whichever it is.
ReceiveStdin ==
    /\ shell = "stdin"
    /\ stdinQ > 0
    /\ stdinQ' = stdinQ - 1
    /\ shell' = "handling"
    /\ UNCHANGED <<host, main, control, publisher, heartbeat>>
    /\ UNCHANGED <<controlQ, shellQ, sent, peerVars, inbox, runnerVars, link, closed>>

\* Variant: abort_queue without ZMQ_NOBLOCK waits for one more message.
AbortQueueBlocking ==
    /\ shell = "aborting"
    /\ shellQ # <<>>
    /\ shellQ' = Tail(shellQ)
    /\ UNCHANGED <<threadVars, controlQ, stdinQ, sent, peerVars, inbox, runnerVars, link, closed>>

\* One turn of the loop of abort_queue: it ends when the queue is found empty.
AbortQueue ==
    /\ shell = "aborting"
    /\ \/ shellQ = <<>> /\ shell' = "handling" /\ shellQ' = shellQ
       \/ shellQ # <<>> /\ shellQ' = Tail(shellQ) /\ shell' = shell
    /\ UNCHANGED <<host, main, control, publisher, heartbeat>>
    /\ UNCHANGED <<controlQ, stdinQ, sent, peerVars, inbox, runnerVars, link, closed>>

LeaveShell ==
    /\ shell = "leaving"
    /\ shell' = "done"
    /\ UNCHANGED <<host, main, control, publisher, heartbeat>>
    /\ UNCHANGED <<clientVars, inbox, runnerVars, link, closed>>

ShellStep == ReadShell \/ ReadController \/ ReceiveStdin \/ AbortQueue \/ LeaveShell

(* What the shell and the internal listeners do.                            *)

ShellPublishes ==
    /\ shell \in {"handling", "internal"}
    /\ inbox["shell"] < MaxPublish
    /\ Publish("shell")
    /\ UNCHANGED <<threadVars, clientVars, runnerVars, link, closed>>

ShellCallsStop ==
    /\ shell \in {"handling", "internal"}
    /\ requestStop' = TRUE
    /\ UNCHANGED <<threadVars, clientVars, inbox, late, link, closed>>

\* send_stdin and abort_queue, until they wait and until they loop.
ShellWaits ==
    /\ shell = "handling"
    /\ shell' \in {"stdin", "aborting"}
    /\ UNCHANGED <<host, main, control, publisher, heartbeat>>
    /\ UNCHANGED <<clientVars, inbox, runnerVars, link, closed>>

\* The reply of the internal listener is sent to the control thread.
ShellReturns ==
    /\ \/ shell = "handling" /\ link' = link
       \/ shell = "internal" /\ Answer("shell", "json")
    /\ shell' = "polling"
    /\ UNCHANGED <<host, main, control, publisher, heartbeat>>
    /\ UNCHANGED <<clientVars, inbox, runnerVars, closed>>

ShellListener == ShellPublishes \/ ShellCallsStop \/ ShellWaits \/ ShellReturns

-----------------------------------------------------------------------------
(* The clients.                                                             *)

ClientSendsControl(m) ==
    /\ sent["control"] < MaxControl
    /\ sent' = [sent EXCEPT !["control"] = @ + 1]
    /\ controlQ' = Append(controlQ, m)
    /\ UNCHANGED <<shellQ, stdinQ, peerVars>>
    /\ UNCHANGED <<threadVars, inbox, runnerVars, link, closed>>

ClientSendsShell(m) ==
    /\ sent["shell"] < MaxShell
    /\ sent' = [sent EXCEPT !["shell"] = @ + 1]
    /\ shellQ' = Append(shellQ, m)
    /\ UNCHANGED <<controlQ, stdinQ, peerVars>>
    /\ UNCHANGED <<threadVars, inbox, runnerVars, link, closed>>

\* An input reply, to the prompt of the moment, to an earlier one or to none.
ClientSendsInput ==
    /\ stdinQ < MaxStdin
    /\ stdinQ' = stdinQ + 1
    /\ UNCHANGED <<controlQ, shellQ, sent, peerVars>>
    /\ UNCHANGED <<threadVars, inbox, runnerVars, link, closed>>

Client ==
    \/ \E m \in Message : ClientSendsControl(m)
    \/ \E m \in Message : ClientSendsShell(m)
    \/ ClientSendsInput
    \/ Peer /\ UNCHANGED runnersVars

-----------------------------------------------------------------------------
Server ==
    \/ Main
    \/ ControlStep \/ ControlListener
    \/ ShellStep \/ ShellListener
    \/ (PublisherStep \/ HeartbeatStep) /\ UNCHANGED runnersVars

Next == Server \/ Client

Spec == Init /\ [][Next]_vars

\* Every thread is scheduled, a listener returns in the end however often it
\* calls the server, and a prompt is answered.
Fairness ==
    /\ WF_vars(Main)
    /\ WF_vars(ControlStep)
    /\ SF_vars(ControlReturns)
    /\ WF_vars(ShellStep)
    /\ SF_vars(ShellReturns)
    /\ WF_vars(PublisherStep /\ UNCHANGED runnersVars)
    /\ WF_vars(HeartbeatStep /\ UNCHANGED runnersVars)
    /\ WF_vars(shell = "stdin" /\ ClientSendsInput)

FairSpec == Spec /\ Fairness

-----------------------------------------------------------------------------
(* Safety.                                                                  *)

\* A REQ socket may send only when its last request has been answered, and a
\* REP socket only when it has read a request: a send in any other state throws
\* and ends the process.  The control thread sends through the shell link from
\* two places, send_to_shell and stop_channels; both find the link idle, and
\* the shell thread answers only what it has read (xzmq_messenger.cpp:39-64).
SendsAreLegal ==
    /\ control \in {"handling", "stop_shell"} => link["shell"].phase = "idle"
    /\ control = "stop_publisher" => link["publisher"].phase = "idle"
    /\ control = "stop_heartbeat" => link["heartbeat"].phase = "idle"
    /\ (shell = "internal") <=> (link["shell"].phase = "serving")

\* Nothing is published once the publisher has answered its stop request:
\* stop_channels stops the shell first and waits for its answer, so neither the
\* shell listeners nor the control listener run any more (xzmq_messenger.cpp:39-55).
PublisherOutlivesItsUsers ==
    publisher \in {"leaving", "done"} =>
        /\ shell \in {"leaving", "done"}
        /\ control \notin {"starting", "checking", "receiving", "handling", "asking"}

\* The sockets are closed when no thread runs that could use them: the threads
\* are joined before, whichever runner was on the main thread and however late a
\* thread that has answered its stop request returns (xserver_zmq_split.hpp:93-97,
\* xserver_zmq_split_impl.hpp:73-81).
SocketsOutliveThreads ==
    closed # {} =>
        \A t \in {control, shell, publisher, heartbeat} : t = "done"

\* However the stop request of another thread falls between the check of the
\* flag and the blocking read, the control listener gets at most one message
\* after it (xcontrol_default_runner.cpp:18-25), provided that the test reads the
\* value last written: the flag is a plain bool, and the model reads it fresh.
AtMostOneLateMessage == late <= 1

(* The calls in which each thread of the server may wait.                   *)

MainBlocks ==
    \/ main = "destroyed"
    \/ main = "run" /\ (IF host = "control" THEN control ELSE shell) # "done"
    \/ main = "join_shell" /\ shell # "done"
    \/ main = "join_control" /\ control # "done"
    \/ main = "join_publisher" /\ publisher # "done"
    \/ main = "join_heartbeat" /\ heartbeat # "done"

NoReply(t) == link[t].phase # "reply"

ControlBlocks ==
    \/ control \in {"unborn", "done"}
    \/ control = "receiving" /\ controlQ = <<>>
    \/ control \in {"asking", "wait_shell"} /\ NoReply("shell")
    \/ control = "wait_publisher" /\ NoReply("publisher")
    \/ control = "wait_heartbeat" /\ NoReply("heartbeat")

ShellBlocks ==
    \/ shell \in {"unborn", "done"}
    \/ shell = "polling" /\ shellQ = <<>> /\ ~Requested("shell")
    \/ shell = "stdin" /\ stdinQ = 0

PublisherBlocks ==
    \/ publisher \in {"unborn", "done"}
    \/ publisher = "polling" /\ ~SomethingToForward /\ events = <<>> /\ ~Requested("publisher")

HeartbeatBlocks ==
    \/ heartbeat \in {"unborn", "done"}
    \/ heartbeat = "polling" /\ pings = 0 /\ ~Requested("heartbeat")

EveryThreadBlocks ==
    MainBlocks /\ ControlBlocks /\ ShellBlocks /\ PublisherBlocks /\ HeartbeatBlocks

\* The server as a whole waits only for its clients: when every thread is in a
\* call that does not return, the server is destroyed, or it waits for a control
\* message with the shell idle, or the shell waits for an input reply.  The
\* threads never wait for each other in a circle, and none waits for one that has
\* ended (xzmq_messenger.cpp:39-64, xshell.cpp:113-124).
WaitsOnlyForClients ==
    EveryThreadBlocks =>
        \/ main = "destroyed"
        \/ shell = "stdin"
        \/ control = "receiving" /\ shell = "polling"

\* The server stands still only when every thread is in one of those calls:
\* abort_queue and the polls do not wait for what may never come
\* (xshell.cpp:64-80, 139-157).
StandsStillOnlyInCalls == ENABLED Server \/ EveryThreadBlocks

-----------------------------------------------------------------------------
(* The abstract specification this one implements.                          *)

\* The worker of the host channel lives on the main thread from the start.
LifeOfControl ==
    CASE control = "unborn" -> IF host = "control" THEN "working" ELSE "unborn"
      [] control \in {"starting", "checking", "receiving", "handling", "asking"} -> "working"
      [] control = "done" -> "gone"
      [] OTHER -> "stopped"

LifeOfShell ==
    CASE shell = "unborn" -> IF host = "shell" THEN "working" ELSE "unborn"
      [] shell = "leaving" -> "stopped"
      [] shell = "done" -> "gone"
      [] OTHER -> "working"

LifeOfService(state) ==
    CASE state = "unborn" -> "unborn"
      [] state = "polling" -> "working"
      [] state = "leaving" -> "stopped"
      [] state = "done" -> "gone"

Life ==
    [t \in Channels \union {"publisher", "heartbeat"} |->
        CASE t = "control" -> LifeOfControl
          [] t = "shell" -> LifeOfShell
          [] t = "publisher" -> LifeOfService(publisher)
          [] t = "heartbeat" -> LifeOfService(heartbeat)]

Backlog == inbox["control"] + inbox["shell"]

Over == closed # {}

Lifecycle == INSTANCE ServerLifecycle WITH
    Workers <- Channels,
    Services <- {"publisher", "heartbeat"},
    life <- Life,
    backlog <- Backlog,
    over <- Over

\* The split server keeps the promises of every server: the publisher and the
\* heartbeat stop after both runners have, nothing is published after that, and
\* the sockets are closed after every thread has returned.
ImplementsLifecycle == Lifecycle!Spec

-----------------------------------------------------------------------------
(* Liveness.                                                                *)

\* A stop request that reaches the loop of the control thread stops the kernel:
\* every thread answers, returns and is joined, and the server is destroyed.
\* When the thread is in its blocking read a message has to wake it.
StopCompletes ==
    (/\ requestStop
     /\ \/ control \in {"checking", "handling", "asking"}
        \/ control = "receiving" /\ controlQ # <<>>)
        ~> (main = "destroyed")

\* A request sent to the shell thread is answered, even when it arrives while
\* the shell is busy, waits for input or aborts its queue (xshell.cpp:64-93).
AskedShellAnswers == (control = "asking") ~> (control = "handling")

=============================================================================

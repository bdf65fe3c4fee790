------------------------------- MODULE Client -------------------------------
(***************************************************************************)
(* The client, xclient_zmq over xclient_zmq_impl: the thread of the user,  *)
(* which calls its functions, the iopub thread and the heartbeat thread.   *)
(*                                                                         *)
(* The user is not part of this repository: it connects the messenger and  *)
(* starts the threads once, in any order, reads messages as it likes,      *)
(* stops the channels once when both are done, and destroys the client.    *)
(***************************************************************************)
EXTENDS HeartbeatClient, IopubClient

CONSTANTS
    MaxPublished,   \* how many messages the kernel sends on the iopub channel
    MaxReplies      \* how many it sends on the shell and on the control channel

ASSUME ClientBounds == MaxPublished \in Nat /\ MaxReplies \in Nat

Channels == {"shell", "control"}

VARIABLES
    user,        \* where the thread of the user is
    connected,   \* the REQ sockets of the messenger are connected
    started,     \* the two threads have been started
    stopped,     \* stop_channels has been called
    replies,     \* messages waiting in the DEALER socket of each channel
    sent         \* how many messages the kernel has sent on each channel

userVars == <<user, connected, started, stopped>>
replyVars == <<replies, sent>>

vars == <<userVars, replyVars, link, beatVars, iopubVars>>

UserState ==
    {"ready", "polling", "stop_iopub", "wait_iopub", "stop_heartbeat",
     "wait_heartbeat", "join_heartbeat", "join_iopub", "destroyed"}

TypeOK ==
    /\ user \in UserState
    /\ connected \in BOOLEAN
    /\ started \in BOOLEAN
    /\ stopped \in BOOLEAN
    /\ replies \in [Channels -> Seq(Message)]
    /\ sent \in [Channels \union {"iopub"} -> Nat]
    /\ link \in [{"iopub", "heartbeat"} -> Link]
    /\ BeatOK
    /\ IopubOK

Init ==
    /\ user = "ready"
    /\ connected = FALSE
    /\ started = FALSE
    /\ stopped = FALSE
    /\ replies = [c \in Channels |-> <<>>]
    /\ sent = [c \in Channels \union {"iopub"} |-> 0]
    /\ link = [t \in {"iopub", "heartbeat"} |-> IdleLink]
    /\ BeatInit
    /\ IopubInit

-----------------------------------------------------------------------------
(* The functions of the client, on the thread of the user.                  *)

Connect ==
    /\ user = "ready"
    /\ ~connected
    /\ connected' = TRUE
    /\ UNCHANGED <<user, started, stopped, replyVars, link, beatVars, iopubVars>>

Start ==
    /\ user = "ready"
    /\ ~started
    /\ started' = TRUE
    /\ iopub' = "polling"
    /\ beat' = "sending"
    /\ UNCHANGED <<user, connected, stopped, replyVars, link>>
    /\ UNCHANGED <<subQ, queue, pushed, delivered>>
    /\ UNCHANGED <<ping, retryCount, beatStop, notified, faults>>

PopMessage ==
    /\ user = "ready"
    /\ Pop
    /\ UNCHANGED <<userVars, replyVars, beatVars>>

\* wait_for_message returns at once when it can pop; otherwise it polls the
\* other two channels, and no more looks at the queue.
WaitForMessage ==
    /\ user = "ready"
    /\ \/ Pop /\ user' = user
       \/ queue = <<>> /\ user' = "polling" /\ UNCHANGED <<link, iopubVars>>
    /\ UNCHANGED <<connected, started, stopped, replyVars, beatVars>>

\* Variant: a malformed message is left in the socket.
PollKeepsMalformed ==
    /\ user = "polling"
    /\ \E c \in Channels :
          /\ replies[c] # <<>>
          /\ c = "control" => replies["shell"] = <<>>
          /\ IF Head(replies[c]) = "valid"
             THEN user' = "ready" /\ replies' = [replies EXCEPT ![c] = Tail(@)]
             ELSE UNCHANGED <<user, replies>>
    /\ UNCHANGED <<connected, started, stopped, sent, link, beatVars, iopubVars>>

\* The shell channel is served before the control channel.  A malformed message
\* is dropped and the poll goes on.
Poll ==
    /\ user = "polling"
    /\ \E c \in Channels :
          /\ replies[c] # <<>>
          /\ c = "control" => replies["shell"] = <<>>
          /\ replies' = [replies EXCEPT ![c] = Tail(@)]
          /\ user' = IF Head(replies[c]) = "valid" THEN "ready" ELSE "polling"
    /\ UNCHANGED <<connected, started, stopped, sent, link, beatVars, iopubVars>>

\* receive_on_shell and receive_on_control: a malformed message is thrown back
\* at the user.
Receive(c) ==
    /\ user = "ready"
    /\ replies[c] # <<>>
    /\ replies' = [replies EXCEPT ![c] = Tail(@)]
    /\ UNCHANGED <<userVars, sent, link, beatVars, iopubVars>>

CallStop ==
    /\ user = "ready"
    /\ connected /\ started /\ ~stopped
    /\ user' = "stop_iopub"
    /\ UNCHANGED <<connected, started, stopped, replyVars, link, beatVars, iopubVars>>

RequestStop(t, b, here, next) ==
    /\ user = here
    /\ Send(t, b)
    /\ user' = next
    /\ stopped' = stopped

AwaitStop(t, here, next) ==
    /\ user = here
    /\ Collect(t)
    /\ user' = next
    /\ stopped' = (next = "ready")

StopChannels ==
    /\ \/ RequestStop("iopub", "stop", "stop_iopub", "wait_iopub")
       \/ AwaitStop("iopub", "wait_iopub", "stop_heartbeat")
       \/ RequestStop("heartbeat", "empty", "stop_heartbeat", "wait_heartbeat")
       \/ AwaitStop("heartbeat", "wait_heartbeat", "ready")
    /\ UNCHANGED <<connected, started, replyVars, beatVars, iopubVars>>

CallDestroy ==
    /\ user = "ready"
    /\ user' = IF started THEN "join_heartbeat" ELSE "destroyed"
    /\ UNCHANGED <<connected, started, stopped, replyVars, link, beatVars, iopubVars>>

\* Variant: the iopub thread is not waited for.
DestroyDetached ==
    /\ \/ user = "join_heartbeat" /\ beat = "done" /\ user' = "join_iopub"
       \/ user = "join_iopub" /\ user' = "destroyed"
    /\ UNCHANGED <<connected, started, stopped, replyVars, link, beatVars, iopubVars>>

\* The members are destroyed in the reverse order of their declaration: the
\* threads are joined, then the sockets they use are closed.
Destroy ==
    /\ \/ user = "join_heartbeat" /\ beat = "done" /\ user' = "join_iopub"
       \/ user = "join_iopub" /\ iopub = "done" /\ user' = "destroyed"
    /\ UNCHANGED <<connected, started, stopped, replyVars, link, beatVars, iopubVars>>

-----------------------------------------------------------------------------
(* The kernel.                                                              *)

KernelReplies(c, m) ==
    /\ sent[c] < MaxReplies
    /\ sent' = [sent EXCEPT ![c] = @ + 1]
    /\ replies' = [replies EXCEPT ![c] = Append(@, m)]
    /\ UNCHANGED <<userVars, link, beatVars, iopubVars>>

KernelPublishes(m) ==
    /\ sent["iopub"] < MaxPublished
    /\ sent' = [sent EXCEPT !["iopub"] = @ + 1]
    /\ subQ' = Append(subQ, m)
    /\ UNCHANGED <<userVars, replies, link, beatVars, iopub, queue, pushed, delivered>>

Kernel ==
    \/ \E c \in Channels, m \in Message : KernelReplies(c, m)
    \/ \E m \in Message : KernelPublishes(m)
    \/ KernelEchoes /\ UNCHANGED <<userVars, replyVars, iopubVars>>

-----------------------------------------------------------------------------
User ==
    \/ Connect \/ Start
    \/ PopMessage \/ WaitForMessage \/ \E c \in Channels : Receive(c)
    \/ CallStop \/ CallDestroy

Inside == Poll \/ StopChannels \/ Destroy

Beat == BeatStep /\ UNCHANGED <<userVars, replyVars, iopubVars>>

Iopub == IopubStep /\ UNCHANGED <<userVars, replyVars, beatVars>>

\* A process that has been terminated does nothing more.
Next == beat # "terminated" /\ (User \/ Inside \/ Beat \/ Iopub \/ Kernel)

Spec == Init /\ [][Next]_vars

\* Every thread is scheduled; the user and the kernel do as they please.
Fairness == WF_vars(Inside) /\ WF_vars(Beat) /\ WF_vars(Iopub)

FairSpec == Spec /\ Fairness

-----------------------------------------------------------------------------
\* The threads that use the sockets of the client are gone when the sockets are
\* destroyed, and its links carry nothing (xclient_zmq_impl.hpp:97-106): a
\* client destroyed without having been stopped waits for them.
SocketsOutliveThreads ==
    user = "destroyed" =>
        /\ iopub \in {"unborn", "done"}
        /\ beat \in {"unborn", "done"}
        /\ \A t \in DOMAIN link : link[t].phase = "idle"

\* stop_channels returns, and the destruction that follows it completes, however
\* many messages wait and whatever the threads are doing, unless the heartbeat
\* thread has ended by itself: then nobody answers its stop request, and the
\* user waits for ever (xclient_messenger.cpp:37-49).
StopCompletes ==
    /\ user = "stop_iopub" ~> (stopped \/ notified \/ beat = "terminated")
    /\ (user = "join_heartbeat" /\ stopped) ~> (user = "destroyed" \/ beat = "terminated")

\* A user waiting in wait_for_message gets the message of the shell or of the
\* control channel that arrives, behind malformed ones too (xclient_zmq_impl.cpp:141-172).
WaitReturns ==
    \A c \in Channels :
        (user = "polling" /\ \E i \in DOMAIN replies[c] : replies[c][i] = "valid")
            ~> (user = "ready" \/ beat = "terminated")

=============================================================================

------------------------------ MODULE Debugger ------------------------------
(***************************************************************************)
(* The debugger, xdebugger_base, composed with the DAP client and the      *)
(* adapter.  It runs on the control thread of the kernel and processes one *)
(* request at a time.                                                      *)
(*                                                                         *)
(* start and stop are left to the subclass by the repository.  A start     *)
(* that succeeds has launched the adapter and the thread of the DAP        *)
(* client, and has exchanged the first request with it; that thread is not *)
(* started again before it has returned.                                   *)
(***************************************************************************)
EXTENDS DapClient

CONSTANTS
    Commands,     \* the commands of the requests of the front end
    MaxRequests   \* how many requests it sends

ASSUME DebuggerBounds ==
    /\ {"initialize", "disconnect"} \subseteq Commands
    /\ "none" \notin Commands
    /\ MaxRequests \in Nat

VARIABLES
    ctl,          \* where the control thread is in process_request_impl
    command,      \* the command of the request it processes
    issued,       \* how many requests have come
    isStarted,    \* m_is_started
    breakpoints   \* m_breakpoint_list is not empty

ctlVars == <<ctl, command, issued, isStarted, breakpoints>>

vars == <<ctlVars, adapterVars, dapVars, linkVars, stoppedThreads>>

CtlState == {"idle", "starting", "header", "request", "stopping"}

\* What is sent to the adapter, or answered in its place, and what comes back.
Words == Commands \union {"threads", "configurationDone", "attach", "REQ", "ACK", "none"}

Message == Raised \union {Initialized} \union {Response(c) : c \in Words}

MessagesOK ==
    /\ adapterIn \in Seq(Words)
    /\ adapterOut \in Seq(Message)
    /\ messageQueue \in Seq(Message)
    /\ request \in [phase : Phase, body : Words]
    /\ published \in Seq(Nat)

TypeOK ==
    /\ ctl \in CtlState
    /\ command \in Commands \union {"none"}
    /\ issued \in 0 .. MaxRequests
    /\ {isStarted, breakpoints} \subseteq BOOLEAN
    /\ AdapterOK
    /\ DapOK
    /\ MessagesOK

Init ==
    /\ ctl = "idle"
    /\ command = "none"
    /\ issued = 0
    /\ isStarted = FALSE
    /\ breakpoints = FALSE
    /\ AdapterInit
    /\ DapInit

-----------------------------------------------------------------------------
\* A request of the front end is taken.
Takes(c) ==
    /\ ctl = "idle"
    /\ issued < MaxRequests
    /\ issued' = issued + 1
    /\ command' = c

SendHeader(n) == header' = [phase |-> "request", body |-> n]

\* The first request launches the thread of the DAP client and the adapter.
StartSucceeds ==
    /\ ~isStarted
    /\ dap \in {"unborn", "done"}
    /\ Takes("initialize")
    /\ AdapterStarts
    /\ dap' = "handshake"
    /\ request' = [phase |-> "request", body |-> "REQ"]
    /\ ctl' = "starting"
    /\ UNCHANGED <<isStarted, breakpoints, stoppedThreads, header>>
    /\ UNCHANGED <<parallel, waitAttach, requestStop, notice, tcpReady, messageQueue, parentHeader, published, overwritten>>

\* debugInfo, and what comes while the debugger is not started, is answered at
\* once, a failed start included.  stop is called in any case.
AnswersAtOnce(c) ==
    /\ c = "debugInfo" \/ ~isStarted
    /\ Takes(c)
    /\ ctl' = IF c = "disconnect" THEN "stopping" ELSE "idle"
    /\ UNCHANGED <<isStarted, breakpoints, adapterVars, dapVars, linkVars, stoppedThreads>>

Starts ==
    /\ ctl = "starting"
    /\ request.phase = "reply"
    /\ request' = IdleSocket
    /\ isStarted' = TRUE
    /\ SendHeader(issued)
    /\ ctl' = "header"
    /\ UNCHANGED <<command, issued, breakpoints, adapterVars, dapVars, stoppedThreads>>

\* Variant: the header is sent only for the requests without a handler.
ForwardsHandledAlone(c) ==
    /\ isStarted
    /\ c # "debugInfo"
    /\ Takes(c)
    /\ IF c = "setBreakpoints"
       THEN ctl' = "request" /\ request' = [phase |-> "request", body |-> c] /\ header' = header
       ELSE ctl' = "header" /\ SendHeader(issued + 1) /\ request' = request
    /\ UNCHANGED <<isStarted, breakpoints, adapterVars, dapVars, stoppedThreads>>

Forwards(c) ==
    /\ isStarted
    /\ c # "debugInfo"
    /\ Takes(c)
    /\ SendHeader(issued + 1)
    /\ ctl' = "header"
    /\ UNCHANGED <<isStarted, breakpoints, adapterVars, dapVars, request, stoppedThreads>>

\* The client has acknowledged the header: the handler of the command sends the
\* request itself.
SendsRequest ==
    /\ ctl = "header"
    /\ header.phase = "reply"
    /\ header' = [header EXCEPT !.phase = "idle"]
    /\ breakpoints' = (breakpoints \/ command = "setBreakpoints")
    /\ request' = [phase |-> "request", body |-> command]
    /\ ctl' = "request"
    /\ UNCHANGED <<command, issued, isStarted, adapterVars, dapVars, stoppedThreads>>

ReceivesReply ==
    /\ ctl = "request"
    /\ request.phase = "reply"
    /\ request' = IdleSocket
    /\ ctl' = IF command = "disconnect" THEN "stopping" ELSE "idle"
    /\ UNCHANGED <<command, issued, isStarted, breakpoints, header, adapterVars, dapVars, stoppedThreads>>

\* The set of stopped threads is cleared without the mutex.
Stops ==
    /\ ctl = "stopping"
    /\ breakpoints' = FALSE
    /\ stoppedThreads' = {}
    /\ isStarted' = FALSE
    /\ ctl' = "idle"
    /\ UNCHANGED <<command, issued, adapterVars, dapVars, linkVars>>

-----------------------------------------------------------------------------
FrontEnd ==
    \/ StartSucceeds
    \/ \E c \in Commands : AnswersAtOnce(c) \/ Forwards(c)

Control == Starts \/ SendsRequest \/ ReceivesReply \/ Stops

Dap == DapStep /\ UNCHANGED ctlVars

Adapter == AdapterStep(parallel) /\ UNCHANGED <<ctlVars, dapVars, linkVars, stoppedThreads>>

\* A process that has been terminated does nothing more.
Next == dap # "terminated" /\ (FrontEnd \/ Control \/ Dap \/ Adapter)

Spec == Init /\ [][Next]_vars

\* Both threads are scheduled, and an adapter that has not gone answers.
Fairness ==
    /\ WF_vars(Control)
    /\ WF_vars(Dap)
    /\ WF_vars(AdapterAnswers(parallel) /\ UNCHANGED <<ctlVars, dapVars, linkVars, stoppedThreads>>)

FairSpec == Spec /\ Fairness

-----------------------------------------------------------------------------
\* Everything the adapter has sent and the DAP client has not dealt with.
Pending == messageQueue \o adapterOut

\* The events among it, and the events that have been published.
Underway == Only(Pending, Raised)
Given == Only(published, 1 .. MaxEvents)

\* Each request is answered once and by a response to the same command,
\* whatever the DAP client asks of the adapter meanwhile for itself: its REP
\* socket never sends out of turn (xdap_tcp_client_impl.cpp:365-373, 411).
RepliesInTurn ==
    /\ dap # "terminated"
    /\ ctl = "request" /\ request.phase = "reply" => request.body = command

\* No event is lost, doubled or overtaken by another, even when it comes while
\* the client waits for something else (xdap_tcp_client_impl.cpp:103-143); only
\* "initialized" is put off to the end of the attach sequence.
EventsInOrder ==
    Given \o [i \in DOMAIN Underway |-> Underway[i].no] = [i \in 1 .. raised |-> i]

\* The events that stop thread t or let it go on.
About(t) ==
    {m \in Raised : \/ m.kind \in {"all_stopped", "all_continued"}
                    \/ m.kind \in {"stopped", "continued"} /\ m.thread = t}

\* The set of stopped threads is that of the adapter, once the events still on
\* their way are handled (xdebugger_base.cpp:256-285): asking for the list of
\* threads in between does not add threads that have gone on since.
StoppedThreadsFollow ==
    adapter = "attached" =>
        \A t \in Threads :
            LET news == Only(Pending, About(t)) IN
            t \in halted <=> IF news = <<>> THEN t \in stoppedThreads
                             ELSE news[Len(news)].kind \in {"all_stopped", "stopped"}

\* The set of stopped threads is cleared without its mutex, which is sound only
\* because no event is left that the DAP client could hand to the callback at
\* that time or later (xdebugger_base.cpp:411-418): a session leaves neither
\* threads nor breakpoints to the next.
SessionLeavesNothing ==
    /\ ctl = "stopping" => \A i \in DOMAIN Pending : Pending[i] \notin Raised
    /\ ctl = "idle" /\ ~isStarted => stoppedThreads = {} /\ ~breakpoints

\* Events are published with the header of the request the adapter is working
\* on: the client has that header before it passes the request on
\* (xdebugger_base.cpp:396-407, xdap_tcp_client_impl.cpp:245-251).
ParentHeaderIsCurrent ==
    ctl = "request" /\ request.phase = "serving" => parentHeader = issued

\* Every request of the front end is answered, whatever comes from the adapter
\* and in however many pieces (xdap_tcp_client_impl.cpp:103-143, 378-412),
\* unless the adapter has died or one of five things has happened: two
\* responses to "threads" came in one piece, and the wait has dropped one; the
\* client has connected to an adapter that says nothing before it is asked, and
\* reads the stream socket because the connection has been announced; it reads
\* the socket, in parallel mode and after the attach sequence, because of a poll
\* made before that sequence emptied it; it asks for the threads of an adapter
\* that has already answered "disconnect"; or it waits for the "initialized" of
\* an adapter that has refused to attach.
EveryRequestAnswered ==
    ctl # "idle" ~>
        \/ ctl = "idle"
        \/ adapter = "dead"
        \/ overwritten
        \/ [](dap = "reading" /\ notice)
        \/ [](dap = "reading" /\ parallel /\ ~waitAttach)
        \/ [](dap = "threads" /\ adapter = "gone")
        \/ [](dap = "initialized" /\ adapter = "running")

\* Where the control thread is in a blocking call or waits for the front end.
ControlBlocks ==
    \/ ctl = "idle"
    \/ ctl \in {"starting", "request"} /\ request.phase # "reply"
    \/ ctl = "header" /\ header.phase # "reply"

\* Where the thread of the DAP client does not run, or is in a poll or a read
\* that finds nothing.
DapBlocks ==
    \/ dap \in {"unborn", "done", "terminated"}
    \/ dap = "handshake" /\ request.phase # "request"
    \/ dap = "polling" /\ "request" \notin {header.phase, request.phase} /\ TRUE \notin Polled
    \/ dap = "reading" /\ adapterOut = <<>>
    \/ dap \in Awaited /\ Outcomes(dap) = {}

NothingToAnswer == ~Alive \/ adapterIn = <<>>

\* The two threads and the adapter never wait for each other while a request
\* is processed (xdebugger_base.cpp:346-424, xdap_tcp_client_impl.cpp:41-143):
\* the safety that EveryRequestAnswered rests on, with the same exceptions.
StuckInNamedCasesOnly ==
    ControlBlocks /\ DapBlocks /\ NothingToAnswer =>
        \/ ctl = "idle"
        \/ adapter = "dead"
        \/ overwritten
        \/ dap = "reading" /\ notice
        \/ dap = "reading" /\ parallel /\ ~waitAttach
        \/ dap = "threads" /\ adapter = "gone"
        \/ dap = "initialized" /\ adapter = "running"

\* "client responds with ACK message" (xdebugger_base.cpp:397).  It may not after
\* an attach sequence, nor when the client has connected to an adapter that waits
\* to be asked: see the findings.
HeaderAcknowledged == header.phase = "request" ~> header.phase = "reply"

-----------------------------------------------------------------------------
(* The abstract specification this one implements.                          *)

\* A session begins with the start, which precedes m_is_started.
SessionOpen == isStarted \/ ctl = "starting"

Doing == IF ctl = "idle" THEN "none" ELSE command

\* The reply to "disconnect" is kept until stop has returned.
Answered ==
    CASE ctl = "stopping" -> command
      [] ctl = "request" /\ request.phase = "reply" -> request.body
      [] OTHER -> "none"

Session == INSTANCE DebugSession WITH
    Events <- Raised,
    asked <- issued,
    doing <- Doing,
    reply <- Answered,
    open <- SessionOpen,
    underway <- Underway,
    shown <- Given,
    stopped <- stoppedThreads

\* Seen from the front end, two threads and a process that exchange messages
\* through sockets, queues and a stream are one debugger that does one thing
\* after another: sessions that are opened and closed, requests that are answered
\* in turn, and events that are shown in theirs, the set of stopped threads always
\* that of the events shown (xdebugger_base.cpp:256-285, 346-424,
\* xdap_tcp_client_impl.cpp:41-143, 359-412).
ImplementsSession == Session!Spec

=============================================================================

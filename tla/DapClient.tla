----------------------------- MODULE DapClient ------------------------------
(***************************************************************************)
(* The DAP client, xdap_tcp_client_impl, in its own thread: it passes the  *)
(* requests of the debugger on to the adapter and the responses back,      *)
(* publishes the events, and takes part in the attach sequence of parallel *)
(* adapters.  Requests and headers come from the debugger through two      *)
(* pairs of REQ and REP sockets.                                           *)
(*                                                                         *)
(* The stream socket is bound and the adapter connects to it, or it is     *)
(* connected.  Only in the first case does the client wait for the         *)
(* connection and take the empty message that ZeroMQ announces it with.    *)
(*                                                                         *)
(* handle_event is left to the subclass by the repository.  Here it calls  *)
(* forward_event, which is what forward_event is there for.                *)
(***************************************************************************)
EXTENDS DebugAdapter, SequencesExt, Subsequences

CONSTANT TcpTypes   \* the values m_dap_tcp_type may have

ASSUME TcpTypesAssumption == TcpTypes \subseteq {"server", "client"} /\ TcpTypes # {}

VARIABLES
    dap,            \* where the thread of the DAP client is
    parallel,       \* m_dap_init_type is dap_init_type::parallel
    waitAttach,     \* m_wait_attach
    requestStop,    \* m_request_stop
    notice,         \* the announcement of the connection is still to be read
    tcpReady,       \* items[2].revents while the control socket is handled
    messageQueue,   \* m_message_queue
    parentHeader,   \* m_parent_header: the number of the request it belongs to
    header,         \* the sockets m_controller_header and m_header_socket
    request,        \* the sockets m_controller and m_request_socket
    stoppedThreads, \* xdebugger_base::m_stopped_threads, kept by the callback
    published,      \* the events published, in order
    overwritten     \* wait_for_message has dropped a message it had received

dapVars == <<dap, parallel, waitAttach, requestStop, notice, tcpReady, messageQueue,
             parentHeader, published, overwritten>>
linkVars == <<header, request>>

Awaited == {"threads", "initialized", "configurationDone", "attach"}

DapState == {"unborn", "handshake", "polling", "reading", "processing", "done", "terminated"}
            \union Awaited

Phase == {"idle", "request", "serving", "reply"}

IdleSocket == [phase |-> "idle", body |-> "none"]

DapOK ==
    /\ dap \in DapState
    /\ {parallel, waitAttach, requestStop, notice, tcpReady, overwritten} \subseteq BOOLEAN
    /\ parentHeader \in Nat
    /\ header \in [phase : Phase \ {"serving"}, body : Nat]
    /\ stoppedThreads \subseteq Threads

DapInit ==
    /\ dap = "unborn"
    /\ parallel \in BOOLEAN
    /\ waitAttach = FALSE
    /\ requestStop = FALSE
    /\ notice = FALSE
    /\ tcpReady = FALSE
    /\ messageQueue = <<>>
    /\ parentHeader = 0
    /\ header = [phase |-> "idle", body |-> 0]
    /\ request = IdleSocket
    /\ stoppedThreads = {}
    /\ published = <<>>
    /\ overwritten = FALSE

-----------------------------------------------------------------------------
\* start_debugger up to its loop: init_tcp_socket, and the first request, which
\* is answered by "ACK".  A client of another type may be used for each session.
Handshake ==
    /\ dap = "handshake"
    /\ request.phase = "request"
    /\ request' = [phase |-> "reply", body |-> "ACK"]
    /\ requestStop' = FALSE
    /\ waitAttach' = parallel
    /\ notice' \in {type = "client" : type \in TcpTypes}
    /\ dap' = "polling"
    /\ UNCHANGED <<adapterVars, header, stoppedThreads>>
    /\ UNCHANGED <<parallel, tcpReady, messageQueue, parentHeader, published, overwritten>>

\* An adapter that is no more leaves an empty message on the stream socket.
Readable == adapterOut # <<>> \/ ~Alive

\* What a poll may find: the announcement comes when the connection is made, and
\* before the first message of the adapter.
Polled == {Readable, Readable \/ notice}

HandleHeaderSocket ==
    IF header.phase = "request"
    THEN /\ parentHeader' = header.body
         /\ header' = [header EXCEPT !.phase = "reply"]
    ELSE UNCHANGED <<parentHeader, header>>

\* The request is passed on.  The thread enters the attach sequence when it is
\* the one m_wait_attach waits for.
HandleControlSocket ==
    IF request.phase = "request"
    THEN /\ request' = [request EXCEPT !.phase = "serving"]
         /\ adapterIn' = Append(adapterIn, request.body)
    ELSE UNCHANGED <<request, adapterIn>>

StartsAttach == request.phase = "request" /\ request.body = "attach" /\ waitAttach

\* One turn of the loop up to the stream socket: what the poll finds there
\* stays in revents while the other two sockets are handled.
Poll ==
    /\ dap = "polling"
    /\ \E readable \in Polled :
          /\ "request" \in {header.phase, request.phase} \/ readable
          /\ tcpReady' = readable
          /\ dap' = IF StartsAttach THEN "initialized" ELSE IF readable THEN "reading" ELSE "processing"
    /\ HandleHeaderSocket
    /\ HandleControlSocket
    /\ UNCHANGED <<adapter, halted, adapterOut, raised, stoppedThreads>>
    /\ UNCHANGED <<parallel, waitAttach, requestStop, notice, messageQueue, published, overwritten>>

\* handle_tcp_socket reads until the buffer ends with a message: one message,
\* or all those that came in one piece.  It does not return with less, hence not
\* with the announcement of the connection alone.
Batches == [k \in 1 .. Len(adapterOut) |-> SubSeq(adapterOut, 1, k)]

Read ==
    /\ dap = "reading"
    /\ \E k \in DOMAIN Batches :
          /\ messageQueue' = messageQueue \o Batches[k]
          /\ adapterOut' = SubSeq(adapterOut, k + 1, Len(adapterOut))
    /\ notice' = FALSE
    /\ dap' = "processing"
    /\ UNCHANGED <<adapter, halted, adapterIn, raised, linkVars, stoppedThreads>>
    /\ UNCHANGED <<parallel, waitAttach, requestStop, tcpReady, parentHeader, published, overwritten>>

-----------------------------------------------------------------------------
(* wait_for_message.                                                        *)

\* The message waited for: "initialized" is the only event among them.
Expected(w) == IF w = "initialized" THEN Initialized ELSE Response(w)

Queued(w) == {i \in DOMAIN messageQueue : messageQueue[i] = Expected(w)}

\* Messages read while the thread waits: those it does not wait for are queued.
\* Two that it waits for overwrite each other.
Sorted(w, k) ==
    LET hits == Count(Batches[k], {Expected(w)}) IN
    [found |-> hits > 0,
     lost  |-> hits > 1,
     queue |-> messageQueue \o Without(Batches[k], {Expected(w)}),
     rest  |-> SubSeq(adapterOut, k + 1, Len(adapterOut))]

\* Variant: the message found in the queue stays there.
OutcomesKeepQueued(w) ==
    IF Queued(w) # {}
    THEN {[found |-> TRUE, lost |-> FALSE, queue |-> messageQueue, rest |-> adapterOut]}
    ELSE {Sorted(w, k) : k \in DOMAIN Batches}

\* Variant: the queue is not searched.
OutcomesOfSocket(w) == {Sorted(w, k) : k \in DOMAIN Batches}

\* Variant: the others go to the front of the queue.
OutcomesToFront(w) ==
    IF Queued(w) # {}
    THEN {[found |-> TRUE, lost |-> FALSE, queue |-> RemoveAt(messageQueue, i), rest |-> adapterOut] :
              i \in Queued(w)}
    ELSE {[Sorted(w, k) EXCEPT !.queue =
              Without(Batches[k], {Expected(w)}) \o messageQueue] : k \in DOMAIN Batches}

\* The first message in the queue that matches, or what comes from the socket.
Outcomes(w) ==
    IF Queued(w) # {}
    THEN LET first == CHOOSE i \in Queued(w) : \A j \in Queued(w) : i <= j IN
         {[found |-> TRUE, lost |-> FALSE, queue |-> RemoveAt(messageQueue, first), rest |-> adapterOut]}
    ELSE {Sorted(w, k) : k \in DOMAIN Batches}

\* The wait goes on as long as the message has not come.
KeepsWaiting(w) ==
    /\ dap = w
    /\ \E o \in Outcomes(w) :
          /\ ~o.found
          /\ messageQueue' = o.queue
          /\ adapterOut' = o.rest
    /\ notice' = FALSE
    /\ UNCHANGED <<adapter, halted, adapterIn, raised, linkVars, stoppedThreads>>
    /\ UNCHANGED <<dap, parallel, waitAttach, requestStop, tcpReady, parentHeader, published, overwritten>>

\* The message has come, and has been taken off the queue.
Receives(w, o) ==
    /\ dap = w
    /\ o \in Outcomes(w)
    /\ o.found
    /\ adapterOut' = o.rest
    /\ overwritten' = (overwritten \/ o.lost)
    /\ notice' = (notice /\ Queued(w) # {})
    /\ UNCHANGED <<adapter, halted, raised, header>>
    /\ UNCHANGED <<parallel, requestStop, tcpReady, parentHeader>>

-----------------------------------------------------------------------------
(* The events, and the callback of the debugger.                            *)

\* Variant: continued_event does not look at allThreadsContinued.
HandleEventKeepOthers(kind, t) ==
    CASE kind = "all_stopped" -> stoppedThreads \union Threads
      [] kind = "stopped"     -> stoppedThreads \union {t}
      [] kind \in {"continued", "all_continued"} -> stoppedThreads \ {t}
      [] OTHER                -> stoppedThreads

\* stopped_event and continued_event, under m_stopped_mutex.  The list of
\* threads of an event that stops them all is the adapter's.
HandleEvent(kind, t) ==
    CASE kind = "all_stopped"   -> stoppedThreads \union Threads
      [] kind = "stopped"       -> stoppedThreads \union {t}
      [] kind = "all_continued" -> {}
      [] kind = "continued"     -> stoppedThreads \ {t}
      [] OTHER                  -> stoppedThreads

\* forward_event ends with the callback and the publication.
Publish(e) ==
    /\ stoppedThreads' = HandleEvent(e.kind, e.thread)
    /\ published' = Append(published, e.no)

\* The adapter is asked for its threads before an event that stops them all is
\* forwarded.
AskThreads ==
    /\ dap = "processing"
    /\ messageQueue # <<>>
    /\ Head(messageQueue).type = "event" /\ Head(messageQueue).kind = "all_stopped"
    /\ adapterIn' = Append(adapterIn, "threads")
    /\ dap' = "threads"
    /\ UNCHANGED <<adapter, halted, adapterOut, raised, linkVars, stoppedThreads>>
    /\ UNCHANGED <<parallel, waitAttach, requestStop, notice, tcpReady, messageQueue, parentHeader, published, overwritten>>

\* The event is still at the front of the queue.
ForwardStopped ==
    /\ \E o \in Outcomes("threads") :
          /\ Receives("threads", o)
          /\ messageQueue' = Tail(o.queue)
    /\ Publish(Head(messageQueue))
    /\ dap' = "processing"
    /\ UNCHANGED <<adapterIn, request, waitAttach>>

ForwardEvent ==
    /\ dap = "processing"
    /\ messageQueue # <<>>
    /\ Head(messageQueue).type = "event" /\ Head(messageQueue).kind # "all_stopped"
    /\ Publish(Head(messageQueue))
    /\ messageQueue' = Tail(messageQueue)
    /\ UNCHANGED <<adapterVars, linkVars>>
    /\ UNCHANGED <<dap, parallel, waitAttach, requestStop, notice, tcpReady, parentHeader, overwritten>>

-----------------------------------------------------------------------------
(* The responses.                                                           *)

\* The REP socket throws when it has received no request: the exception leaves
\* the function of the thread, and the process is terminated.
Reply(c, next) ==
    IF request.phase = "serving"
    THEN request' = [phase |-> "reply", body |-> c] /\ dap' = next
    ELSE request' = request /\ dap' = "terminated"

\* Variant: a response overtakes the events that came before it.
ForwardFirstResponse ==
    /\ dap = "processing"
    /\ \E i \in DOMAIN messageQueue :
          /\ messageQueue[i].type = "response"
          /\ Reply(messageQueue[i].command, dap)
          /\ requestStop' = (requestStop \/ messageQueue[i].command = "disconnect")
          /\ messageQueue' = RemoveAt(messageQueue, i)
    /\ UNCHANGED <<adapterVars, header, stoppedThreads>>
    /\ UNCHANGED <<parallel, waitAttach, notice, tcpReady, parentHeader, published, overwritten>>

ForwardResponse ==
    /\ dap = "processing"
    /\ messageQueue # <<>>
    /\ Head(messageQueue).type = "response"
    /\ Reply(Head(messageQueue).command, dap)
    /\ requestStop' = (requestStop \/ Head(messageQueue).command = "disconnect")
    /\ messageQueue' = Tail(messageQueue)
    /\ UNCHANGED <<adapterVars, header, stoppedThreads>>
    /\ UNCHANGED <<parallel, waitAttach, notice, tcpReady, parentHeader, published, overwritten>>

\* The queue is empty: the loop tests m_request_stop.
EndTurn ==
    /\ dap = "processing"
    /\ messageQueue = <<>>
    /\ dap' = IF requestStop THEN "done" ELSE "polling"
    /\ requestStop' = FALSE
    /\ tcpReady' = FALSE
    /\ UNCHANGED <<adapterVars, linkVars, stoppedThreads>>
    /\ UNCHANGED <<parallel, waitAttach, notice, messageQueue, parentHeader, published, overwritten>>

-----------------------------------------------------------------------------
(* handle_init_sequence.                                                    *)

SendConfigurationDone ==
    /\ \E o \in Outcomes("initialized") :
          /\ Receives("initialized", o)
          /\ messageQueue' = o.queue
    /\ adapterIn' = Append(adapterIn, "configurationDone")
    /\ dap' = "configurationDone"
    /\ UNCHANGED <<request, stoppedThreads, waitAttach, published>>

ReceiveConfigurationDone ==
    /\ \E o \in Outcomes("configurationDone") :
          /\ Receives("configurationDone", o)
          /\ messageQueue' = o.queue
    /\ dap' = "attach"
    /\ UNCHANGED <<adapterIn, request, stoppedThreads, waitAttach, published>>

\* The loop goes on with what the poll said of the stream socket before the
\* attach sequence read it.
FinishAttach ==
    /\ \E o \in Outcomes("attach") :
          /\ Receives("attach", o)
          /\ messageQueue' = o.queue
    /\ Publish(Initialized)
    /\ Reply("attach", IF tcpReady THEN "reading" ELSE "processing")
    /\ waitAttach' = FALSE
    /\ UNCHANGED adapterIn

-----------------------------------------------------------------------------
DapStep ==
    \/ Handshake \/ Poll \/ Read
    \/ \E w \in Awaited : KeepsWaiting(w)
    \/ AskThreads \/ ForwardStopped \/ ForwardEvent
    \/ ForwardResponse \/ EndTurn
    \/ SendConfigurationDone \/ ReceiveConfigurationDone \/ FinishAttach

=============================================================================

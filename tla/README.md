# A verification project for xeus-zmq

`xeus-zmq` is the ZeroMQ middleware of Jupyter kernels written with `xeus`: it
reads the control, shell and stdin channels, publishes on the iopub channel,
answers heartbeats, and provides a client that does the opposite. Almost
everything in it that can go wrong is a matter of threads: which thread may use
which socket, who tells whom to stop, and in which order they end. This
directory holds TLA+ modules of those threads, the TLC configurations that check
them and TLAPS proofs about them. Paths below are relative to the repository.

## 1. Inventory

| Component | State it keeps | Operations | Interacts with | What makes it correct |
|---|---|---|---|---|
| Split server (`src/server/xserver_zmq_split*.cpp`, `xserver_control_main.cpp`, `xserver_shell_main.cpp`, `xcontrol*.cpp`, `xshell*.cpp`, `xzmq_messenger.cpp`) | two runner threads, one on the main thread; the stop flag of the control runner; ROUTER sockets for control, shell, stdin; one PUB socket per runner; three REQ sockets (the messenger) | start, read, notify a listener, `send_to_shell`, `send_stdin`, `abort_queue`, `publish`, `stop`, `stop_channels`, destruction | publisher and heartbeat threads through controller links; the kernel core through listeners; clients | every send is legal for its socket; threads stop in an order that loses no user; sockets outlive threads; nobody waits for ever except for a client |
| Publisher thread (`xpublisher.cpp`) | a SUB socket fed by the runners, the XPUB socket | forward, welcome a subscriber, stop | all publishing threads, iopub clients | nothing is lost, one welcome per subscription, neither keeps the other waiting |
| Heartbeat thread (`xheartbeat.cpp`) | a ROUTER socket | echo, stop | clients | every ping is echoed, stop is answered |
| Default server (`xserver_zmq_default.cpp`, `xserver_zmq.cpp`, `xserver_zmq_impl.cpp`, `xtrivial_messenger.cpp`) | one thread for both channels, the stop flag | as above, in one thread | as above | as above |
| Client (`src/client/xclient_zmq*.cpp`, `xclient_messenger.cpp`, `xdealer_channel.cpp`) | two DEALER sockets, two threads, two REQ sockets | connect, start, send, receive, wait, pop, `stop_channels`, destruction | the kernel, its own two threads | messages are handed over once, in order; waiting and stopping return |
| iopub thread of the client (`xiopub_client.cpp`) | SUB socket, queue under a mutex | receive and push, pop, stop | the user thread | the queue is a queue |
| Heartbeat thread of the client (`xheartbeat_client.cpp`) | REQ socket, retry count, stop flag | ping, wait, report a dead kernel, stop | the kernel, the user thread | pings go on, a dead kernel is reported |
| Joining thread (`include/xeus-zmq/xthread.hpp`) | a `std::thread` | construct, join on destruction and on assignment | everything above | a running thread is joined |
| Handshake (`xhandshaking.cpp`, `xhandshake_client_zmq.cpp`) | DEALER socket of the kernel with a timeout of five seconds, ROUTER socket of the launcher; signature scheme of each side | send the ports, wait for the answer, verify it; wait for a configuration, answer | kernel and launcher, while the server is constructed | a kernel that runs is known by its own ports, or its construction fails |
| DAP client (`src/debugger/xdap_tcp_client*.cpp`) | STREAM socket, two REP sockets, two queues, parent header, attach state; the buffer of `handle_tcp_socket` | forward requests, responses, events; framing | debugger process, debugger base | one response per request, no message lost, however the stream is cut |
| Debugger base (`xdebugger_base.cpp`, `xdebugger_middleware.cpp`) | started flag, breakpoints, set of stopped threads | requests, events, start, stop, pages of variables | DAP client through two REQ sockets and a callback | the set follows the debugger; pages make the list |
| ZeroMQ context (`xzmq_context.cpp`) | a context | none of its own | all sockets | nothing beyond the library |
| Serializer (`xzmq_serializer.cpp`) | none | serialize and deserialize messages and publications | every thread | what is sent is read as it was written; what is malformed reaches no listener |
| Authentication (`xauthentication.cpp`) | one MAC context under `m_mac_mutex`, the key | start, feed, finalise a signature; verify | every thread, through the serializer | threads do not mix their frames; only genuine messages are accepted, and all of them |
| End points and ports (`xmiddleware.cpp`) | ports of the host, names within a context | find a free port, bind a port, a range or a name, `get_socket_port` | constructors, other processes | no two sockets share a port; what is reported is what is bound |

The behaviours that are hard here: a stop request racing a blocking read; REQ
and REP sockets, which throw when used out of turn; two threads that may wait for
each other; threads that are still running when their sockets are closed;
messages left behind at shutdown; malformed messages, whose exceptions skip parts
of a loop; a timeout followed by a late answer. The list with lines is `hazards`
in `PROJECT.json`.

## 2. Modules

| Module | Models |
|---|---|
| `ControllerLink` | a REQ socket connected to a REP "controller" socket |
| `Services` | `xpublisher::run`, `xheartbeat::run` and their peers; extended by both servers |
| `SplitServer` | both split servers with the default runners, from the start of the threads to the closing of the sockets |
| `DefaultServer` | the default server |
| `ServerLifecycle` | no code: the abstract specification both servers implement |
| `HeartbeatClient`, `IopubClient` | the two threads of a client |
| `Client` | the user thread composed with both |
| `DebugAdapter` | the debug adapter, as far as the DAP client relies on it (external) |
| `DapClient` | the thread of the DAP client: its loop, `wait_for_message`, the attach sequence, events and responses |
| `Debugger` | `process_request_impl` on the control thread, composed with both |
| `DebugSession` | no code: the abstract specification `Debugger` implements, what the debugger promises the front end |
| `EndPoints` | what a constructor binds, in its order: ports and names, searches for a free port, other processes of the host |
| `Handshake` | the registration of kernels with a launcher, composed with `EndPoints` |
| `WireFormat` | `xzmq_serializer`: messages as frames and back, as operators |
| `SharedMac` | the threads that sign and verify with one MAC context |
| `DapFraming` | `handle_tcp_socket`: messages taken out of a stream |
| `MessageReader` | no code: the abstract specification `DapFraming` implements, a reader that takes one message after another |
| `VariablePages` | `variables_request_impl`: pages of a list |
| `Subsequences` | no part of the program: the part of a sequence that lies in a set, its length, and what remains |
| `MCSplitServer`, `MCDefaultServer`, `MCClient`, `MCDebugger`, `MCHandshake`, `MCFormats` | instances for TLC |
| `SplitServerProofs`, `DefaultServerProofs`, `ClientProofs`, `DebuggerProofs`, `HandshakeProofs`, `SharedMacProofs` | theorems about the modules they are named after; `SharedMacProofs` also about `WireFormat` |
| `DapFormatProofs` | theorems about `DapFraming` and `VariablePages` |
| `SubsequenceProofs` | induction over numbers and sequences, and lemmas about `Subsequences` |

### State and actions

*Threads.* Each thread has a variable that says where it is in its loop. One
iteration of the publisher or of the heartbeat loop is one action: a poll followed
by what it found ready. A thread that has answered its stop request is "leaving"
until it has returned ("done"), because the one that stopped it goes on before.

*Controller links.* `zmq_msg_send` empties the message it sends, and
`stop_channels` sends the same message object two or three times: only the first
thread asked gets the word "stop", the others an empty message. The shell runner
compares the word, and it is asked first. The other threads take any message for
a stop. `link` records the phase of each REQ/REP pair and the body under way.

*Split server.* `host` chooses the variant. `Main` is `start_impl`, then the
destruction of the members in reverse order of declaration. The control thread
goes through test of the flag, blocking read, listener, and then the six steps of
`stop_channels`. The shell thread polls (shell before controller), reads, and may
be inside `send_stdin` or `abort_queue`. Listeners belong to the kernel core: the
model lets them make any sequence of the calls the server offers.

*Default server.* The same with one worker. A malformed message throws
`std::runtime_error` in `deserialize`; `poll_channels` catches `zmq::error_t` only,
so `main` goes to "thrown". The destructor runs after that too.

*Client.* The user connects and starts once, in any order, stops once after both,
and destroys the client when it likes. Messages of the iopub channel are numbers in
order of reception; a message that has been moved from is `Hollow`. `ping` is the
REQ socket of the heartbeat thread: free, waiting for an answer, answer there.
`faults` are exceptions thrown while an answer is received (memory exhausted): they
are the only way `wait_for_answer` returns false.

*Debugger.* Three parties: the control thread in `process_request_impl` (`ctl`),
the thread of the DAP client (`dap`), the adapter. Header and request travel
through two REQ/REP pairs. One turn of the loop is a poll (`Poll`, with the two
REP sockets handled), a read of the stream if the poll found it readable (`Read`),
and one action per message of `m_message_queue`. The four calls of
`wait_for_message` are the states named after what is awaited. `handle_tcp_socket`
reads until its buffer ends with a message, so one read yields the first message
or any number of those that are there (`Batches`, which `DapFraming` justifies). `tcpReady` is the result of
the poll for the stream socket, kept while the control socket is handled: the code
tests it after the attach sequence has read from the socket. `notice` is the
announcement of the connection, an empty piece: `init_tcp_socket` receives it when the
adapter connects (server mode) and leaves it in the stream socket when the DAP client
does (client mode), where the first poll may find it alone or not yet (`Polled`). The
session chooses one of `TcpTypes`. The subclass that a
kernel writes is assumed to do what the base is made for: `handle_event` calls
`forward_event`; a `start` that succeeds has launched the adapter and the thread
and has had its first request acknowledged; the thread is not started again before
it has returned. The adapter answers in order and sends nothing after the response
to `disconnect`; it may die. A response carries its command and an event its number.

An adapter may also refuse to attach: it answers the request and sends no
"initialized".

*Constructors and registration.* Each kernel binds the sockets of its server in the
order in which the class builds its parts. A channel without a port searches for
one; a channel with one binds it and throws if it is held. The searching socket of
`find_free_port` is closed again, so the port it returns stays free
(`FindFreePort`), while that of `init_socket` keeps the port (`BindFreePort`). The
names of inproc end points are constants of the library and belong to a context,
which kernels may share. A failing constructor releases what it has bound. The
launcher takes registrations in any order, never looks at a signature, and signs its
answer with hmac-sha256. `TimeOut` covers both outcomes of the frames popped off an
empty message.

*Wire format and authentication.* A frame is the delimiter, a dump of JSON, a
signature or other bytes; `Shape` says what becomes of a sequence of frames before
its signature is verified. `SharedMac` takes the four parts into the context one at
a time, under the mutex or, in a mutant, without it. `Incoming` holds genuine
messages, those of another key, and messages with a frame lost or two exchanged;
`origin` records which. The MAC is injective, and nobody without the key makes a
signature (`MacUnforgeable`).

*Framing.* Text is a sequence of tokens, header and separator two each, so that a
piece may end inside them; bodies may hold the same tokens. A piece has any length,
0 included: the announcement of a connection is one, and a call may begin when
there is nothing else (`HandleTcpSocket` has no guard on `unread`). The buffer is a local
variable of the call, and what it still holds when the call returns is lost.

*Pages.* A front end asks for one page after another, or for the rest.

*Left out of the modelled components.* Replies sent on the channels (they change
nothing the server reads), the content of messages, interruption of a call by a
signal, high-water marks of the sockets, and the context being destroyed under the
threads.

## 3. Runs

All runs are small and exhaustive. `CHECK_DEADLOCK FALSE` everywhere: a server
whose clients send nothing more rightly stops. What must not stop is stated by
`WaitsOnlyForClients` and by the liveness properties: if every thread of a split
server is inside a blocking call, then it waits for a client. `StandsStillOnlyInCalls`
adds that the server can stand still in no other way, so that `EveryThreadBlocks`,
which spells out the blocking calls of the code, is the same as a deadlock of the
threads. For the debugger `StuckInNamedCasesOnly` states the same: when the control
thread, the thread of the DAP client and the adapter all have nothing they can do, no
request is being processed, or it is one of the five cases that
`EveryRequestAnswered` excepts.

Three invariants are proved and not checked by a run of their own, because a property
that is checked implies them or rests on them: `PublisherOutlivesItsUsers` and
`SocketsOutliveThreads` of the split server (`ServerLifecycle` has them as guards), and
`EventsInOrder` of the debugger (`DebugSession` shows the events in order).

| Run | Bounds | Shows |
|---|---|---|
| `split_server` | 2 control messages, 1 shell message, 1 publication per socket and 1 input reply at a time, 1 subscription event, no pings | sends are legal, at most one late message, a server that stands still waits for a client; refinement of `ServerLifecycle`; a stop that the control loop sees ends in destruction; the shell thread answers; publications are forwarded |
| `split_unpublished` | 1 message of each channel, 3 publications | **violated**: messages are left in the publisher when it stops |
| `default_server` | 1 control message, 1 input reply and 2 publications waiting at a time, any number in all; 1 shell message, 2 subscription events and 1 ping | the same refinement and stop; one welcome per subscription; peers are served however much is published meanwhile |
| `default_malformed` | 1 of each | **violated**: `start` is left with both threads running |
| `client` | `MaxRetry` 1, 2 faults, 2 iopub messages, 1 reply per channel | no message twice, threads end before sockets, stop and wait return |
| `client_pings` | as `client` | **violated**: an unanswered ping terminates the process |
| `client_iopub` | as `client` | **violated**: `pop_iopub_message` loses messages |
| `debugger` | 4 requests (`initialize`, `attach`, `threads`, `setBreakpoints`, `debugInfo`, `disconnect`), 2 events of 5 kinds, 2 threads, both kinds of start and both ways of connecting; the adapter may die or refuse to attach | replies are in turn, the set of stopped threads is the adapter's, a session leaves nothing behind, the parent header is current; refinement of `DebugSession`, which has the events in order; requests are answered, and nobody is stuck with one, but in five named cases |
| `debugger_ack` | 3 requests, 1 event, server mode | **violated**: a header is not acknowledged after the attach sequence |
| `debugger_ack_client` | 1 request, 1 event, client mode | **violated**: the header of the first request is not acknowledged |
| `launch` | 2 kernels in 5 pairs of settings, 2 channels and 1 name each, 4 ports, 1 held by another process at a time | running kernels are known, configurations lead to the kernel that sent them, one server per context, construction ends |
| `formats` | 2 threads, 2 calls, 4 messages whole, cut, shuffled or of another key; streams of 2 messages (3 of some); 7 variables, pages of 4 | messages are readable and genuine, none genuine is refused; framing loses nothing and reads everything, as `MessageReader` does; pages make the list |

Why the bounds are enough: two control messages are needed for a stop request to
race a read (one that wakes the loop, one that is late), one
message of each kind for the shell thread to be busy in each of its states while it
is asked something. Publications are counted as they wait, not as they are made, so
that `PeersAreServed` speaks of publishers that never pause: a publisher thread that
looked at its subscribers only when there is nothing to forward would fail it.
A second input reply adds no state of the shell thread. Two failed receptions with `MaxRetry` 1 reach the report of a dead
kernel; two iopub messages tell a queue from a stack. Four requests reach a
`threads` request of the front end between an attach and a disconnect, or a second
session; two events, one of which may be handled while the client waits for the
list of threads asked for by the other. Each exception of `EveryRequestAnswered`
is reached within these bounds: without it the property fails. The safety
properties also hold with three events (1.07 million states), which the run
leaves out for time; those of the split server with two shell messages, two
publications and a ping. `launch` looks at three of the sockets, which is enough for a
second bind to fail after a first; four ports let both kernels succeed, and the one
held by another process lets a bind or a search fail. The five pairs of settings
hold both variants, both origins of ports, both contexts and each scheme against
that of the launcher; all sixteen pairs would only repeat them. In `formats` two
calls are what it takes to mix frames in a context. Three messages make the
reader go on twice within a call, and tokens of two make every cut inside a
marker happen. Seven variables in pages of up to four give full, short and single
pages. Its three parts share nothing, so at most one of them is busy in a behaviour
and the run is their sum and not their product.

### Fairness

Each thread is scheduled: weak fairness of its own steps, `WF(Main)`,
`WF(ControlStep)`, and so on. A listener may call the server any number of times
before it returns, but it returns: strong fairness of `ControlReturns`,
`ShellReturns`, `ListenerReturns`, strong because it is not enabled while the
listener waits inside a call. A prompt is answered: weak fairness of
`ClientSendsInput` while the shell waits for one; without it `send_stdin`
blocks for ever, which `WaitsOnlyForClients` names. Clients and kernels owe
nothing else. In particular, a stop request made by the shell listener while the
control thread is in its blocking read takes effect only when a message arrives:
`StopCompletes` asks for one. An adapter that has not gone answers what it is
asked; it owes no event. The constructor of a kernel goes on, and its receive times
out: weak fairness of `Construct`; the launcher owes nothing. The framing reads while
there is something to read; pieces of length 0 are stuttering steps, so fairness asks
for others.

## 4. Findings

1. *Messages lost at shutdown* (`src/server/xpublisher.cpp:82-96`). One message per
   iteration is forwarded, and the iteration that finds the stop request breaks.
   With three messages waiting two are lost.
2. *A malformed message blocks the default server* (`src/server/xserver_zmq_impl.cpp:121`).
   The exception passes `stop_channels`; the destructor then joins threads nobody
   has told to stop.
3. *A late kernel terminates the client* (`src/client/xheartbeat_client.cpp:43`).
   `wait_for_answer` returns true on a timeout; the next send on the REQ socket
   throws out of the thread. The report of a dead kernel cannot be reached this way.
4. *The iopub queue is popped at the wrong end* (`src/client/xiopub_client.cpp:50`).
   `back()` is returned and the front removed: with messages 1 and 2 waiting, 2 is
   returned, 1 is destroyed and the next pop returns what was left of 2.
5. *A header is not acknowledged* (`src/debugger/xdap_tcp_client_impl.cpp:194`). When
   an event is readable at the poll that finds the attach request, the attach
   sequence reads it, and the loop then reads again on the strength of the old
   poll. The client blocks until the adapter sends something; the header of the next
   request waits.
6. *The announcement of a connection is taken for a message*
   (`src/debugger/xdap_tcp_client_impl.cpp:219`). In client mode nothing receives the
   announcement before the loop. The first poll finds it, `handle_tcp_socket` reads it
   and blocks in the next read; the header of the first request is not acknowledged,
   so the request that would make the adapter speak is never sent to it.

Not findings, since nothing in the repository promises otherwise, but visible in
the models:

- *Servers and client.* `stop` before the control loop starts is forgotten
  (`xcontrol_default_runner.cpp:16`). A client whose heartbeat thread has reported a
  dead kernel blocks in `stop_channels`; `wait_for_message` does not see an iopub
  message that arrives while it polls.
- *Debugger.* `wait_for_message` of the DAP client drops a response to a `threads`
  request of the front end that comes together with the one it has asked for, and
  the front end waits for ever; so it does when an event that stops all threads is
  handled after the adapter has answered `disconnect`, and when the adapter refuses
  to attach. The clearing of the set of stopped threads without its mutex is sound
  only as long as the adapter sends no event after that answer.
- *Registration.* The launcher checks no signature (`xhandshake_client_zmq.cpp:77`
  says it is to be done) and signs with hmac-sha256 always: a kernel with another
  hmac scheme never accepts its answer. A kernel without a scheme, on a timeout, may
  run without being known. The configuration returned for a kernel that has given up
  is stale.
- *End points.* A search for a port that finds none goes unnoticed in `init_socket`,
  and an empty port is announced. What `find_free_port` returns may be taken before
  it is used. The range of `init_socket` ends with 65536, which is no port. Two
  servers in one context cannot coexist.
- *Formats.* Fewer than five frames behind the identities lead to an undefined pop;
  the comparison of signatures reads past a short one. Identities and buffers are
  not signed. A page that reaches past the end of the list throws; an empty rest
  makes `variables` null.

## 5. Proofs

The last column names the assumptions about the constants that the proofs of a
module use; a gap repeats the line above. `BoundsAssumption`,
`RetryAssumption`, `PageBounds`, `DebuggerBounds` and `AdapterBounds` say what kind of
number a bound is and which commands and events there are ("none" is no command), `MacMessages` what can be
sent and received, `StreamsAssumption` and `DigitAssumption` what a stream is made
of (no body is empty, no two lengths are written the same), and
`EndPointsAssumption` that every server binds one of the fixed names;
`MacUnforgeable` is explained below.

| Module | Theorem | Statement | Assumptions |
|---|---|---|---|
| `SplitServerProofs` | `Invariance`, `TypeCorrect` | `IInv`, `TypeOK` | `BoundsAssumption` |
| | `LegalSends` | `SendsAreLegal` | |
| | `PublisherStopsLast` | `PublisherOutlivesItsUsers` | |
| | `SocketsClosedLast` | `SocketsOutliveThreads` | |
| | `OneLateMessage` | `AtMostOneLateMessage` | |
| | `NoCircularWait` | `WaitsOnlyForClients` | |
| | `Refinement` | `ImplementsLifecycle` | |
| `DefaultServerProofs` | `Invariance`, `TypeCorrect` | `IInv`, `TypeOK` | none |
| | `Refinement` | `ImplementsLifecycle` | |
| | `EverySubscriberIsWelcomedOnce` | `OneWelcomePerSubscription` | |
| `ClientProofs` | `Invariance`, `TypeCorrect` | `IInv`, `TypeOK` | `RetryAssumption` |
| | `HandedOnce` | `NoMessageTwice` | |
| | `SocketsClosedLast` | `SocketsOutliveThreads` | |
| `DebuggerProofs` | `HeadersAreInTurn` | `HeaderInv` | `DebuggerBounds`, `AdapterBounds` |
| | `ParentHeaderIsRight` | `ParentHeaderIsCurrent` | |
| | `TypesAreKept`, `TypeCorrect` | `TypeInv`, `TypeOK` | |
| | `ExchangeIsKept`, `RepliesAreInTurn` | `ExchangeInv`, `RepliesInTurn` | |
| | `SessionIsKept`, `NothingIsLeft` | `SessionInv`, `SessionLeavesNothing` | |
| | `OrderIsKept`, `EventsKeepTheirOrder` | `OrderInv`, `EventsInOrder` | |
| | `FollowIsKept`, `StoppedThreadsAreKnown` | `FollowInv`, `StoppedThreadsFollow` | |
| | `CommandIsKept`, `SessionRefinement` | `CommandInv`, `ImplementsSession` | |
| | `EndIsKept`, `AttachIsKept`, `DueIsKept` | `EndInv`, `AttachInv`, `DueInv` | |
| | `ReadingIsKept` | `ReadingInv` | |
| | `NobodyIsStuck` | `StuckInNamedCasesOnly` | |
| `HandshakeProofs` | `Invariance`, `TypeCorrect` | `IInv`, `TypeOK` | none |
| | `ConfigurationsAreTrue` | `ConfigurationsLeadHome` | |
| | `Construction`, `OneServerInAContext` | `BindInv`, `OneServerPerContext` | `EndPointsAssumption` |
| | `WhoIsAnswered`, `WhoRunsIsKnown` | `KnownInv`, `RunningKernelsAreKnown` | none |
| `SharedMacProofs` | `RoundTrip` | `Deserialize` inverts `Serialize` | none |
| | `ContextIsOwned` | `MacInv` | `MacMessages` |
| | `WhatIsSentIsReadable` | `SentIsReadable` | |
| | `WhatIsHandedIsGenuine` | `HandedIsGenuine` | also `MacUnforgeable` |
| | `WhatIsGenuineIsHanded` | `GenuineIsHanded` | also `MacUnforgeable` |
| `DapFormatProofs` | `PagesAreTheList` | `PagesMakeTheList` | `PageBounds` |
| | `StreamIsReadWhole` | `NothingIsCutOff` | `StreamsAssumption`, `DigitAssumption` |
| | `ReaderIsImplemented` | `ImplementsReader` | |

*Split server.* `PublisherOutlivesItsUsers` is not inductive alone: one needs to know
that the answer the control thread collects from the shell link answers a stop
request, and not a request of `send_to_shell` that is still under way. `IInv` says,
for each of the three links, exactly where the control thread is when it is not
idle, and that the thread at the other end has ended exactly when the answer to a
stop request is there or has been collected (`ShellLinkInv`, `PublisherLinkInv`,
`HeartbeatLinkInv`). `BirthInv` keeps a thread from being started twice, which would
undo its end. `JoinInv` adds that the destructor is past the join of a thread only
if the thread has returned, and `LateInv` that after a late message the loop does
not read again before it tests the flag. Each step lemma has one case per action.

*No circular wait.* `WaitsOnlyForClients` is no invariant of its own but a consequence
of `IInv` and of `BornInv`, which says that a thread that does not run yet is one that
`start_impl` has still to start. If main, control, shell, publisher and heartbeat
thread are all inside a blocking call, each wait names a partner: the control
thread waits for the shell thread or for a service only if that one has been asked,
and the link invariants say that a service that has been asked and not answered is
not in its poll. Following the waits round leaves the two cases the property names.

*Refinement.* Both servers implement `ServerLifecycle` under the mapping `Life`,
`Backlog`, `Over`. The proof is a step simulation: under the inductive
invariant each step of the server is a step of the abstract server or leaves the
mapped state alone. `IInv` is needed where the abstract server has a guard that the
code does not test: a service may end only when the workers have, and `Over` comes
only when all threads have ended, and a message is accepted only while a worker works.

*Default server.* `LinkInv` is one statement for both services, `BirthInv` and
`JoinInv` are as above.

*Client.* `LinkInv` says that a link is busy only while the user waits for its
answer, `JoinInv` that a thread is joined only after it has ended. That no
message is handed over twice rests on the order between what has been handed over
and what is in the queue; since the code pops at the wrong end, it needs `BackInv`,
which says where a message that has been moved from can be.

*Debugger.* The inductive invariants build on each other, and all on `TypeInv`.
`HeaderInv` relates the two pairs of sockets: a header is under way only while the
control thread waits for its acknowledgement, and the request follows only then.
`TypeOK` says of everything on the stream, in the queue and in the sockets that it
is a message or a command (`MessagesOK`); `TypeInv` adds that the DAP client asks for
the list of threads only because of the event at the front of its queue (`FrontInv`):
without this the event it then publishes could be any message. `ExchangeInv` is an account: of each command,
what is on its way to the adapter, what the adapter still has to answer and what it
has answered are together no more than what the DAP client has a use for (`Owed`,
`Asked`). A response to a request of the control thread therefore finds it waiting,
and the REP socket never sends out of turn. `SessionInv` follows the events and the
response to `disconnect` only (`News`): the response is the last of them, so when the
control thread has it in its hands nothing is left that could reach the callback
which marks threads as stopped. `OrderInv` numbers the events through, from what has
been published to what still waits, and `FollowInv` says of each thread that its
last event under way decides whether it is stopped. What one turn of the loop reads,
and whether a message is found in the queue or waited for, is abstracted once, in
what a step may do to the pending messages: put some at the end, take one from the
front, or take out those waited for. All later proofs rest on that.

*Registration.* `ExclusiveInv`: no port is held by two kernels. `RegisteredInv`: what
a kernel has registered is what it holds as long as it waits or runs, and no kernel
that is still binding has registered. `BindInv`: what a kernel has bound is what lies
behind it in its order of binding, so two kernels in one context that both have come
to the end would both have bound the same name. `KnownInv`: an answer goes only to a
kernel whose configuration the launcher has taken.

*Subscriptions.* The welcome messages sent and the subscriptions in the socket
together are the subscriptions made: each turn of the publisher moves a part of the
events from one to the other, and `CountConcat` adds up.

*The stream of the adapter.* `NothingIsCutOff` only speaks of the queue and of the
moments when no call is under way. `FramingInv` says that at each point of the call
the buffer and what is unread, put together, are from a known position on the rest of
the messages; this position is `hint` while the header is sought, and the header once
it is found. The search for a header starts at one and finds it, or finds nothing;
the search for a separator starts at the length, which is none, and finds the one
right behind it, whatever the body holds.
How the stream is cut plays no part: a piece that arrives moves the border between
buffer and stream, and leaves the two put together as they are (`PieceMoves`).

*The abstract reader.* `FramingInv` again: the buffer and what is unread are the rest
of the messages, so finding header and separator is taking one whole message, and a
call ends only where a message ends. A call may begin with nothing sent, as it does
on the announcement of a connection; once it has taken a message it
goes on only for another that has begun. Pieces that arrive and searches that find nothing
are stuttering steps of `MessageReader`.

*Nobody is stuck.* `ExchangeInv` bounds what the adapter owes by what is asked of it;
that alone allows a client that waits for what will never come. `DueInv` is the
converse: as long as no message has been overwritten and the adapter lives, whatever
is asked is owed, so the two accounts are equal. It holds of each step because a step
that asks sends the command, and a step that takes an answer is the one that waits for
it; only a message that `wait_for_message` overwrites is lost. `AttachInv` keeps
the attach sequence and the adapter in step: an adapter that has sent `initialized` is
waited for, and its response to `configurationDone` finds the client waiting. `EndInv`
says when the thread of the client and the adapter may be gone: a `disconnect` has
reached them and the session is being left. `ReadingInv` says why the client may be in
`handle_tcp_socket` with nothing to read: the announcement, an attach sequence behind
the poll in parallel mode, or an adapter that has ended. The rest is a case for each place in
which the thread of the client can block (`StuckOutside`, `StuckPolling`,
`StuckReading`, `StuckAwaiting`): what is waited for is asked, so it is owed; then the adapter has a
command to answer, or there is a message to read, or it is one of the named cases.

*The abstract session.* `DebugSession` has one thread; its guards are what the code
does not test. That the reply the control thread takes is to the request
it sent is `ExchangeInv`; that the response to `disconnect` is answered when all
events have been shown, and that no event is raised or shown outside a session, is
`SessionInv`. `CommandInv` keeps the command of the request until `stop` has returned.
A turn of the DAP client is a stuttering step unless it publishes an event, which is
the next one (`EventIsShown`), or passes on a response, which is the answer
(`DapAnswers`). Reading the stream, waiting, the attach sequence and the list of
threads leave the events under way and their order alone (`EventsStay`,
`EventsStayAtTheEnd`).

*Sequences.* What `Only` and `FlattenSeq` compute is defined by recursion. The
induction it takes is proved with a set in the place of the predicate, from the fact
that a set of numbers has a least one (`NatSetInduction`, `SeqSetInduction`); the
lemmas say what these operators do at either end of a sequence and on a
concatenation.

*Shared MAC context.* `JobInv`: each thread's call is about a message of the types
assumed. `DigestInv`: only the owner of the mutex feeds the context, and the context
holds the parts of its message that it has fed, in order. At the end the context
holds the four parts (`WholeMessageIsSigned`); `RoundTrip` does the rest.
`MacUnforgeable` is the assumption every MAC is used with: what bears the signature
of its parts under the key was signed with these parts by someone with the key, and
what such a sender signed properly is as it was sent.

*Only model-checked.* Liveness under fairness, and `StandsStillOnlyInCalls`, which uses
ENABLED, are out of the prover's reach. Every other invariant that a passing run
checks is stated by a theorem, and so is every refinement.

## 6. Not modelled

- `m_request_stop` of the control runner is a plain `bool` shared by two threads
  (`xcontrol_default_runner.cpp:32`). The model reads the latest value, and
  `AtMostOneLateMessage` rests on that: with stale reads the loop would take more
  messages after the request. `StopCompletes` needs only that the new value is seen
  in the end.
- The first message of the stdin channel answers a prompt, whichever prompt it was
  sent for (`xshell.cpp:124`). The model lets any waiting message end a prompt; the
  repository says nothing about its parent, so there is no property to state.
- The listener for the status of the kernel is called by the heartbeat thread
  (`xheartbeat_client.cpp:86`). It is assumed to be registered before `start`.
- The ZeroMQ context, and its being destroyed under running threads; high-water
  marks; calls interrupted by signals; the transport ipc, with which
  `get_socket_port` yields a path; CURVE encryption.
- Of the debugger base: the files of dumped cells, the filter of stack frames, the
  contents of `source`, `inspectVariables` and `debugInfo` replies. They compute
  replies and change no state that another thread reads.
- Of the DAP client: a poll interrupted by a signal, the end of the context, and
  the sockets being disconnected when the thread ends.
- Of the joining thread: move assignment over a running thread, detach and swap,
  which no modelled code uses.
- Failures of the OpenSSL library, which throw.

## 7. Plan

Done: the servers, their threads, the client, the debugger with its DAP client, the
registration and its end points, the formats, their abstract specifications, and the
proofs of section 5.

What is left: threads of the debugged program that are created and end while the list
of threads is asked for; pages asked for past the end of the list; and `MessageReader` put in the place of the batches of `DapClient`,
which `ReaderIsImplemented` and `StreamIsReadWhole` justify without composing the two.

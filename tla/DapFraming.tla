------------------------------ MODULE DapFraming ------------------------------
(***************************************************************************)
(* handle_tcp_socket: how the DAP client takes the messages of the         *)
(* debugger adapter out of a stream.                                       *)
(*                                                                         *)
(* The adapter writes each message behind a header, its length and a       *)
(* separator.  ZeroMQ delivers the stream in pieces cut anywhere, and an   *)
(* empty one when the connection is made.  The text is a sequence of       *)
(* tokens: header and separator have two each, so that a piece may end     *)
(* within them, a length has one, and the body of a message may hold       *)
(* tokens of any sort.                                                     *)
(*                                                                         *)
(* The buffer is local to the call: what it holds when the call returns is *)
(* lost.                                                                   *)
(***************************************************************************)
EXTENDS Naturals, Sequences, SequencesExt

CONSTANTS
    Words,      \* tokens other than those of header and separator
    Digit,      \* for each length the token that it is written with
    Streams     \* sequences of bodies, each a sequence of tokens

HEADER == <<"H1", "H2">>
SEPARATOR == <<"S1", "S2">>

Length(token) == CHOOSE n \in DOMAIN Digit : Digit[n] = token

Tokens == Words \union {"H1", "H2", "S1", "S2"}

\* No two lengths are written the same.
ASSUME DigitAssumption ==
    /\ Words \intersect {"H1", "H2", "S1", "S2"} = {}
    /\ Digit \in Seq(Words)
    /\ \A m, n \in DOMAIN Digit : Digit[m] = Digit[n] => m = n

\* A length is one token: it is that of the body that follows the separator, and
\* no body is empty.
ASSUME StreamsAssumption ==
    \A bodies \in Streams :
        /\ bodies \in Seq(Seq(Tokens))
        /\ \A i \in DOMAIN bodies : Len(bodies[i]) \in DOMAIN Digit

Framed(body) == HEADER \o <<Digit[Len(body)]>> \o SEPARATOR \o body

Encode(bodies) == FlattenSeq([i \in DOMAIN bodies |-> Framed(bodies[i])])

VARIABLES
    bodies,     \* the messages of the adapter
    unread,     \* what the stream socket has not delivered
    reader,     \* where handle_tcp_socket is: what it looks for
    buffer,
    hint,       \* where the next search starts
    headerPos,
    separatorPos,
    queue       \* m_message_queue

framingVars == <<bodies, unread, reader, buffer, hint, headerPos, separatorPos, queue>>

npos == 0

FramingInit ==
    /\ bodies \in Streams
    /\ unread = Encode(bodies)
    /\ reader = "idle"
    /\ buffer = <<>>
    /\ hint = 1
    /\ headerPos = npos
    /\ separatorPos = npos
    /\ queue = <<>>

-----------------------------------------------------------------------------
Occurs(pattern, text, i) == SubSeq(text, i, i + Len(pattern) - 1) = pattern

\* std::string::find
Find(text, pattern, from) ==
    LET found == {i \in from .. Len(text) - Len(pattern) + 1 : Occurs(pattern, text, i)}
    IN  IF found = {} THEN npos ELSE CHOOSE i \in found : \A j \in found : i <= j

\* poll has found the socket readable, be it by the announcement of the
\* connection alone; and wait_for_message does not look whether it is.
HandleTcpSocket ==
    /\ reader = "idle"
    /\ reader' = "header"
    /\ buffer' = <<>>
    /\ hint' = 1
    /\ headerPos' = npos
    /\ separatorPos' = npos
    /\ UNCHANGED <<bodies, unread, queue>>

\* append_tcp_message receives the next piece.
AppendTcpMessage ==
    \E n \in 0 .. Len(unread) :
        /\ buffer' = buffer \o SubSeq(unread, 1, n)
        /\ unread' = SubSeq(unread, n + 1, Len(unread))

\* Variant: the search goes on behind what has been searched.
AwaitHeaderBehind ==
    /\ reader = "header"
    /\ headerPos = npos
    /\ AppendTcpMessage
    /\ headerPos' = Find(buffer', HEADER, IF hint > Len(buffer) THEN hint ELSE Len(buffer) + 1)
    /\ UNCHANGED <<bodies, reader, hint, separatorPos, queue>>

AwaitHeader ==
    /\ reader = "header"
    /\ headerPos = npos
    /\ AppendTcpMessage
    /\ headerPos' = Find(buffer', HEADER, hint)
    /\ UNCHANGED <<bodies, reader, hint, separatorPos, queue>>

HeaderFound ==
    /\ reader = "header"
    /\ headerPos # npos
    /\ hint' = headerPos + Len(HEADER)
    /\ separatorPos' = Find(buffer, SEPARATOR, hint')
    /\ reader' = "separator"
    /\ UNCHANGED <<bodies, unread, buffer, headerPos, queue>>

AwaitSeparator ==
    /\ reader = "separator"
    /\ separatorPos = npos
    /\ AppendTcpMessage
    /\ separatorPos' = Find(buffer', SEPARATOR, hint)
    /\ UNCHANGED <<bodies, reader, hint, headerPos, queue>>

SeparatorFound ==
    /\ reader = "separator"
    /\ separatorPos # npos
    /\ reader' = "body"
    /\ UNCHANGED <<bodies, unread, buffer, hint, headerPos, separatorPos, queue>>

MsgSize == Length(buffer[headerPos + Len(HEADER)])
MsgPos == separatorPos + Len(SEPARATOR)
Remaining == Len(buffer) + 1 - MsgPos

AwaitBody ==
    /\ reader = "body"
    /\ Remaining < MsgSize
    /\ AppendTcpMessage
    /\ UNCHANGED <<bodies, reader, hint, headerPos, separatorPos, queue>>

Push == queue' = Append(queue, SubSeq(buffer, MsgPos, MsgPos + MsgSize - 1))

\* Variant: the call returns although the next message has begun.
LastMessageEarly ==
    /\ reader = "body"
    /\ Remaining >= MsgSize
    /\ Push
    /\ reader' = "idle"
    /\ UNCHANGED <<bodies, unread, buffer, hint, headerPos, separatorPos>>

\* The buffer ends where the message ends: the call returns.
LastMessage ==
    /\ reader = "body"
    /\ Remaining = MsgSize
    /\ Push
    /\ reader' = "idle"
    /\ UNCHANGED <<bodies, unread, buffer, hint, headerPos, separatorPos>>

\* Variant: the call goes on also when the buffer ends where the message ends.
NextMessageAlways ==
    /\ reader = "body"
    /\ Remaining >= MsgSize
    /\ Push
    /\ hint' = MsgPos + MsgSize
    /\ headerPos' = Find(buffer, HEADER, hint')
    /\ separatorPos' = npos
    /\ reader' = "header"
    /\ UNCHANGED <<bodies, unread, buffer>>

\* The next message has begun.
NextMessage ==
    /\ reader = "body"
    /\ Remaining > MsgSize
    /\ Push
    /\ hint' = MsgPos + MsgSize
    /\ headerPos' = Find(buffer, HEADER, hint')
    /\ separatorPos' = npos
    /\ reader' = "header"
    /\ UNCHANGED <<bodies, unread, buffer>>

FramingNext ==
    \/ HandleTcpSocket
    \/ AwaitHeader \/ HeaderFound
    \/ AwaitSeparator \/ SeparatorFound
    \/ AwaitBody \/ LastMessage \/ NextMessage

FramingSpec == FramingInit /\ [][FramingNext]_framingVars

-----------------------------------------------------------------------------
\* However the stream is cut, the queue holds the messages of the adapter, whole
\* and in their order, also when a body looks like a header; and a call that
\* returns throws nothing away with its buffer: what is not in the queue is
\* still to be received (xdap_tcp_client_impl.cpp:285-340).
NothingIsCutOff ==
    /\ queue = SubSeq(bodies, 1, Len(queue))
    /\ reader = "idle" => unread = Encode(SubSeq(bodies, Len(queue) + 1, Len(bodies)))

\* Every message is in the queue once the stream has been delivered: the reader
\* never waits for a header it has already received (xdap_tcp_client_impl.cpp:300).
EveryMessageIsRead == <>(queue = bodies)

-----------------------------------------------------------------------------
(* The abstract specification this one implements.                          *)

\* The messages the queue has not got.
Rest == SubSeq(bodies, Len(queue) + 1, Len(bodies))

Reader == INSTANCE MessageReader WITH
    Supplies <- Streams,
    ahead <- Rest,
    taken <- queue,
    calling <- (reader # "idle")

\* Seen from the loop of the DAP client, handle_tcp_socket takes messages and not
\* tokens: a call takes one at least, and it goes on only for what the adapter
\* has begun to send (xdap_tcp_client_impl.cpp:285-340).  A call that waited for
\* a message after its last would keep the requests of the debugger waiting.
ImplementsReader == Reader!Spec

=============================================================================

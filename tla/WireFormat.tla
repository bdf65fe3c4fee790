------------------------------ MODULE WireFormat ------------------------------
(***************************************************************************)
(* xzmq_serializer: how a message becomes the frames of a multipart        *)
(* message of ZeroMQ, and how these become a message again.                *)
(*                                                                         *)
(* Frames are told apart by what the code can tell apart: the delimiter,   *)
(* the dump of a JSON value, a signature, and other bytes.  A signature is *)
(* what the key makes of the four parts: header, parent header, metadata   *)
(* and content.  A message has identities, or a topic when it is published *)
(* on the iopub channel, the four parts and any number of buffers.         *)
(***************************************************************************)
EXTENDS Naturals, Sequences

Delimiter == <<"delimiter">>
Json(v) == <<"json", v>>
Bytes(b) == <<"bytes", b>>

IsJson(f) == f[1] = "json"

\* openssl_xauthentication: what it makes of the data it is given, in order.  It is
\* fed the bytes of the four parts one after another and sees no border between
\* them (xauthentication.cpp:208-212); a sequence of parts stands for their bytes
\* because the parts are dumps of JSON objects, which end where their first
\* brace is closed, so that the bytes can be taken apart in one way only.
Mac(key, data) == <<"mac", key, data>>

NoSignature == Bytes("")

Message(ids, parts, buffers) ==
    [kind |-> "message", ids |-> ids, parts |-> parts, buffers |-> buffers]

Publication(topic, parts, buffers) ==
    [kind |-> "publication", ids |-> <<topic>>, parts |-> parts, buffers |-> buffers]

\* What can be written: identities are no delimiters, a publication has one topic,
\* and the four parts are dumps of JSON.
Messages(frames) ==
    {m \in [kind : {"message", "publication"}, ids : Seq(frames), parts : Seq(frames), buffers : Seq(frames)] :
        /\ m.kind = "message" => \A i \in DOMAIN m.ids : m.ids[i] # Delimiter
        /\ m.kind = "publication" => Len(m.ids) = 1
        /\ Len(m.parts) = 4
        /\ \A i \in DOMAIN m.parts : IsJson(m.parts[i])}

\* serialize and serialize_iopub: both put the identities or the topic before a
\* delimiter.
Serialize(m, signature) ==
    m.ids \o <<Delimiter, signature>> \o m.parts \o m.buffers

-----------------------------------------------------------------------------
Delimiters(wire) == {i \in DOMAIN wire : wire[i] = Delimiter}

FirstDelimiter(wire) ==
    CHOOSE i \in Delimiters(wire) : \A j \in Delimiters(wire) : i <= j

\* How many frames deserialize_zmq_id or deserialize_topic take: those up to the
\* delimiter; the topic and the frame behind it, whatever it is.
Taken(kind, wire) == IF kind = "message" THEN FirstDelimiter(wire) ELSE 2

\* What becomes of the frames before the signature is verified.  A frame popped
\* off an empty multipart message is undefined.
Shape(kind, wire) ==
    IF kind = "message" /\ wire # <<>> /\ Delimiters(wire) \subseteq {Len(wire)}
    THEN "no_delimiter"
    ELSE IF wire = <<>> \/ Len(wire) < Taken(kind, wire) + 5
    THEN "undefined"
    ELSE IF \E i \in 2 .. 5 : ~IsJson(wire[Taken(kind, wire) + i])
    THEN "not_json"
    ELSE "read"

SignatureOf(kind, wire) == wire[Taken(kind, wire) + 1]

PartsOf(kind, wire) ==
    SubSeq(wire, Taken(kind, wire) + 2, Taken(kind, wire) + 5)

\* The message that deserialize and deserialize_iopub return once the signature
\* has been verified.
Deserialize(kind, wire) ==
    [kind    |-> kind,
     ids     |-> SubSeq(wire, 1, Taken(kind, wire) - 1),
     parts   |-> PartsOf(kind, wire),
     buffers |-> SubSeq(wire, Taken(kind, wire) + 6, Len(wire))]

=============================================================================

------------------------------ MODULE SharedMac ------------------------------
(***************************************************************************)
(* The threads of a server or of a client serialize and deserialize        *)
(* messages with one xauthentication, and so with one MAC context: it is   *)
(* initialised, fed one frame after another, and finalised, all under      *)
(* m_mac_mutex.  The mutex is all that keeps the calls of two threads from *)
(* mixing their frames; parsing goes on outside of it.                     *)
(***************************************************************************)
EXTENDS WireFormat, FiniteSets

CONSTANTS
    Workers,     \* the threads
    Frames,      \* the frames of the messages sent and received
    Key,         \* the key of this process
    Outgoing,    \* the messages it sends
    Incoming,    \* the wire messages it receives: [kind, frames, origin]
    MaxCalls     \* how many calls of the serializer are made

ASSUME MacBounds == MaxCalls \in Nat

ASSUME MacMessages ==
    /\ "free" \notin Workers
    /\ Delimiter \in Frames
    /\ Outgoing \subseteq Messages(Frames)
    /\ \A w \in Incoming : w.kind \in {"message", "publication"} /\ w.frames \in Seq(Frames)

\* Who has the key signs what it sends, and signs what it sends only: a wire
\* message that bears the signature of its parts was signed by someone with the
\* key, with these parts.
ASSUME MacUnforgeable ==
    \A w \in Incoming :
        LET proper == /\ Shape(w.kind, w.frames) = "read"
                      /\ SignatureOf(w.kind, w.frames) = Mac(Key, PartsOf(w.kind, w.frames)) IN
        /\ w.origin = Key => proper
        /\ proper => \E g \in Incoming :
                g.origin = Key /\ PartsOf(g.kind, g.frames) = PartsOf(w.kind, w.frames)

VARIABLES
    signed,      \* p_auth is an openssl_xauthentication, not a no_xauthentication
    mutex,       \* the thread that holds m_mac_mutex
    digest,      \* the frames the MAC context has been fed
    worker,      \* where each thread is
    job,         \* the message it serializes or deserializes
    fed,         \* how many parts of it the thread has fed to the context
    calls,       \* how many calls have been made
    sent,        \* history: messages, and what was sent of them
    handed,      \* history: what was received, and the messages made of it
    refused      \* history: what was received and thrown away

macVars == <<signed, mutex, digest, worker, job, fed, calls, sent, handed, refused>>

NoJob == [call |-> "none"]

MacInit ==
    /\ signed \in BOOLEAN
    /\ mutex = "free"
    /\ digest = <<>>
    /\ worker = [t \in Workers |-> "idle"]
    /\ job = [t \in Workers |-> NoJob]
    /\ fed = [t \in Workers |-> 0]
    /\ calls \in {0, MaxCalls}
    /\ sent = {}
    /\ handed = {}
    /\ refused = {}

-----------------------------------------------------------------------------
\* The four parts that a call signs or verifies.
Parts(j) == IF j.call = "serialize" THEN j.message.parts ELSE PartsOf(j.wire.kind, j.wire.frames)

Takes(t, j) ==
    /\ worker[t] = "idle"
    /\ calls < MaxCalls
    /\ calls' = calls + 1
    /\ worker' = [worker EXCEPT ![t] = "locking"]
    /\ job' = [job EXCEPT ![t] = j]

StartSerialize(t, m) ==
    /\ Takes(t, [call |-> "serialize", message |-> m])
    /\ UNCHANGED <<signed, mutex, digest, fed, sent, handed, refused>>

\* The frames are taken apart and parsed before the signature is verified.
StartDeserialize(t, w) ==
    /\ Takes(t, [call |-> "deserialize", wire |-> w])
    /\ Shape(w.kind, w.frames) = "read"
    /\ UNCHANGED <<signed, mutex, digest, fed, sent, handed, refused>>

\* The exception of the parser or of deserialize_zmq_id.  What is undefined is
\* taken for an exception too: no listener is reached by it.
Throw(t, w) ==
    /\ worker[t] = "idle"
    /\ calls < MaxCalls
    /\ Shape(w.kind, w.frames) # "read"
    /\ calls' = calls + 1
    /\ refused' = refused \union {w}
    /\ UNCHANGED <<signed, mutex, digest, worker, job, fed, sent, handed>>

\* Variant: the mutex is not taken.
InitHexSignatureUnlocked(t) ==
    /\ signed
    /\ worker[t] = "locking"
    /\ digest' = <<>>
    /\ worker' = [worker EXCEPT ![t] = "feeding"]
    /\ fed' = [fed EXCEPT ![t] = 0]
    /\ UNCHANGED <<signed, mutex, job, calls, sent, handed, refused>>

\* The lock, and init_hex_signature, which starts the context anew.
InitHexSignature(t) ==
    /\ signed
    /\ worker[t] = "locking"
    /\ mutex = "free"
    /\ mutex' = t
    /\ digest' = <<>>
    /\ worker' = [worker EXCEPT ![t] = "feeding"]
    /\ fed' = [fed EXCEPT ![t] = 0]
    /\ UNCHANGED <<signed, job, calls, sent, handed, refused>>

\* EVP_MAC_update with the next part.
Update(t) ==
    /\ worker[t] = "feeding"
    /\ fed[t] < 4
    /\ digest' = Append(digest, Parts(job[t])[fed[t] + 1])
    /\ fed' = [fed EXCEPT ![t] = @ + 1]
    /\ UNCHANGED <<signed, mutex, worker, job, calls, sent, handed, refused>>

\* Variant: the result of the verification is not looked at.
ConcludeUnchecked(t, signature) ==
    IF job[t].call = "serialize"
    THEN /\ sent' = sent \union {[message |-> job[t].message, wire |-> Serialize(job[t].message, signature)]}
         /\ UNCHANGED <<handed, refused>>
    ELSE LET w == job[t].wire IN
         /\ handed' = handed \union {[wire |-> w, message |-> Deserialize(w.kind, w.frames)]}
         /\ UNCHANGED <<sent, refused>>

\* What the caller makes of the signature.
Conclude(t, signature) ==
    IF job[t].call = "serialize"
    THEN /\ sent' = sent \union {[message |-> job[t].message, wire |-> Serialize(job[t].message, signature)]}
         /\ UNCHANGED <<handed, refused>>
    ELSE LET w == job[t].wire IN
         IF ~signed \/ SignatureOf(w.kind, w.frames) = signature
         THEN /\ handed' = handed \union {[wire |-> w, message |-> Deserialize(w.kind, w.frames)]}
              /\ UNCHANGED <<sent, refused>>
         ELSE /\ refused' = refused \union {w}
              /\ UNCHANGED <<sent, handed>>

Return(t) ==
    /\ worker' = [worker EXCEPT ![t] = "idle"]
    /\ job' = [job EXCEPT ![t] = NoJob]
    /\ fed' = [fed EXCEPT ![t] = 0]

\* finalize_hex_signature, the comparison when the call verifies, and the unlock.
\* The comparison reads past the end of a signature that is too short, which is
\* undefined: what it finds there is taken for different.
FinalizeHexSignature(t) ==
    /\ worker[t] = "feeding"
    /\ fed[t] = 4
    /\ Conclude(t, Mac(Key, digest))
    /\ Return(t)
    /\ mutex' = "free"
    /\ UNCHANGED <<signed, digest, calls>>

\* no_xauthentication neither signs nor verifies.
NoAuthentication(t) ==
    /\ ~signed
    /\ worker[t] = "locking"
    /\ Conclude(t, NoSignature)
    /\ Return(t)
    /\ UNCHANGED <<signed, mutex, digest, calls>>

MacNext ==
    \E t \in Workers :
        \/ \E m \in Outgoing : StartSerialize(t, m)
        \/ \E w \in Incoming : StartDeserialize(t, w) \/ Throw(t, w)
        \/ InitHexSignature(t) \/ Update(t) \/ FinalizeHexSignature(t)
        \/ NoAuthentication(t)

MacSpec == MacInit /\ [][MacNext]_macVars

-----------------------------------------------------------------------------
\* Whoever has the key reads what was sent as the message it was made of, and
\* finds its own parts under the signature, whatever the other threads signed
\* or verified meanwhile (xauthentication.cpp:181-251, xzmq_serializer.cpp:47-159).
SentIsReadable ==
    \A s \in sent :
        /\ Shape(s.message.kind, s.wire) = "read"
        /\ Deserialize(s.message.kind, s.wire) = s.message
        /\ signed => SignatureOf(s.message.kind, s.wire) = Mac(Key, s.message.parts)

\* Only parts that someone with the key has signed together reach a listener:
\* not those of a message with a frame lost or exchanged, nor those of another
\* key.  Identities and buffers are not signed (xzmq_serializer.cpp:75-108).
HandedIsGenuine ==
    signed => \A h \in handed : \E w \in Incoming :
        w.origin = Key /\ Shape(w.kind, w.frames) = "read" /\ PartsOf(w.kind, w.frames) = h.message.parts

\* A message that is as its sender with the key made it is never refused,
\* whatever the other threads do in the same context at that time.
GenuineIsHanded == \A w \in refused : w.origin # Key

=============================================================================

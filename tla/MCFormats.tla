------------------------------ MODULE MCFormats ------------------------------
(***************************************************************************)
(* The formats: messages on the wire and under a signature, the stream of  *)
(* the debugger adapter, and pages of variables.  The three do not touch:  *)
(* in each behaviour at most one of them is given something to do.         *)
(***************************************************************************)
EXTENDS SharedMac, DapFraming, VariablePages

\* The parts of two messages that share their header.
PartsA == <<Json("header"), Json("parent"), Json("metadata"), Json("content")>>
PartsB == <<Json("header"), Json("parent"), Json("other"), Json("content")>>

Sent == {
    Message(<<>>, PartsA, <<>>),
    Message(<<Bytes("id1"), Bytes("id2")>>, PartsB, <<Bytes("buffer")>>),
    Publication(Bytes("topic"), PartsB, <<>>),
    Publication(Delimiter, PartsA, <<Bytes("buffer")>>)}

Wire(m, key) == Serialize(m, Mac(key, m.parts))

Genuine == {[kind |-> m.kind, frames |-> Wire(m, "key"), origin |-> "key"] : m \in Sent}

\* One message and one publication have all that a message can have.
Buffered == {w \in Genuine : Len(w.frames) > 7}

\* Messages on which something was done on their way, and those of another key.
Cut(w, i) ==
    [kind |-> w.kind,
     frames |-> SubSeq(w.frames, 1, i - 1) \o SubSeq(w.frames, i + 1, Len(w.frames)),
     origin |-> "cut"]

Shuffled(w, i) ==
    [kind |-> w.kind,
     frames |-> [w.frames EXCEPT ![i] = w.frames[i + 1], ![i + 1] = w.frames[i]],
     origin |-> "shuffled"]

Foreign == {[kind |-> m.kind, frames |-> Wire(m, "other key"), origin |-> "other key"] : m \in Sent}

Received ==
    Genuine \union Foreign
        \union UNION {{Cut(w, i) : i \in DOMAIN w.frames} : w \in Buffered}
        \union UNION {{Shuffled(w, i) : i \in 1 .. Len(w.frames) - 1} : w \in Buffered}

FramesOfMessages ==
    UNION {{w.frames[i] : i \in DOMAIN w.frames} : w \in Received}

Digits == <<"1", "2", "3", "4", "5", "6", "7", "8", "9">>

WordsOfBodies == {"x"} \union {Digits[n] : n \in DOMAIN Digits}

\* Bodies that hold a header, a separator, or half of one.
Bodies == {<<"x">>, <<"H1", "H2", "1">>, <<"S1", "S2", "x">>, <<"x", "H1">>}

\* Two messages of all sorts, three of some.
StreamsOfBodies ==
    {<<>>} \union UNION {[1 .. n -> Bodies] : n \in 1 .. 2}
        \union [1 .. 3 -> {<<"x", "H1">>, <<"H1", "H2", "1">>}]

Init ==
    /\ MacInit
    /\ FramingInit
    /\ PagingInit
    /\ LET busy == <<calls < MaxCalls, bodies # <<>>, list # <<>> >>
       IN  \E i \in 1 .. 3 : \A j \in 1 .. 3 \ {i} : ~busy[j]

Next ==
    \/ MacNext /\ UNCHANGED <<framingVars, pageVars>>
    \/ FramingNext /\ UNCHANGED <<macVars, pageVars>>
    \/ PagingNext /\ UNCHANGED <<macVars, framingVars>>

vars == <<macVars, framingVars, pageVars>>

\* The DAP client reads as long as there is something to read.
FairSpec ==
    Init /\ [][Next]_vars /\ WF_vars(FramingNext /\ UNCHANGED <<macVars, pageVars>>)

=============================================================================

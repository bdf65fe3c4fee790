---------------------------- MODULE IopubClient ----------------------------
(***************************************************************************)
(* The iopub thread of a client, xiopub_client, and the queue it fills for *)
(* the thread of the user.  The k-th message pushed is the number k.  The  *)
(* mutex of the queue makes a push and a pop single steps.                 *)
(***************************************************************************)
EXTENDS ControllerLink, Naturals, Sequences

VARIABLES
    iopub,       \* where the iopub thread is
    subQ,        \* messages waiting in the SUB socket
    queue,       \* xiopub_client::m_message_queue
    pushed,      \* how many messages have been pushed
    delivered    \* history: what pop_iopub_message has returned

iopubVars == <<iopub, subQ, queue, pushed, delivered>>

\* A wire message deserializes or, when its signature or a part of it is wrong, not.
Message == {"valid", "malformed"}

\* What is left of a message that has been moved from.
Hollow == 0

IopubOK ==
    /\ iopub \in {"unborn", "polling", "leaving", "done"}
    /\ subQ \in Seq(Message)
    /\ queue \in Seq(0 .. pushed)
    /\ pushed \in Nat
    /\ delivered \in Seq(0 .. pushed)

IopubInit ==
    /\ iopub = "unborn"
    /\ subQ = <<>>
    /\ queue = <<>>
    /\ pushed = 0
    /\ delivered = <<>>

-----------------------------------------------------------------------------
\* One iteration of xiopub_client::run.  The exception of a malformed message
\* skips the controller, which the next iteration finds ready again.
DropMessage ==
    /\ iopub = "polling"
    /\ subQ # <<>>
    /\ Head(subQ) = "malformed"
    /\ subQ' = Tail(subQ)
    /\ UNCHANGED <<link, iopub, queue, pushed, delivered>>

PushMessage ==
    IF subQ = <<>> THEN UNCHANGED <<subQ, queue, pushed>>
    ELSE /\ Head(subQ) = "valid"
         /\ subQ' = Tail(subQ)
         /\ queue' = Append(queue, pushed + 1)
         /\ pushed' = pushed + 1

IopubTurn ==
    /\ iopub = "polling"
    /\ subQ # <<>>
    /\ ~Requested("iopub")
    /\ PushMessage
    /\ UNCHANGED <<link, iopub, delivered>>

\* Variant: the thread breaks without an answer.
IopubLastTurnSilent ==
    /\ iopub = "polling"
    /\ Requested("iopub")
    /\ PushMessage
    /\ link' = [link EXCEPT !["iopub"].phase = "serving"]
    /\ iopub' = "leaving"
    /\ UNCHANGED delivered

IopubLastTurn ==
    /\ iopub = "polling"
    /\ Requested("iopub")
    /\ PushMessage
    /\ Answer("iopub", link["iopub"].body)
    /\ iopub' = "leaving"
    /\ UNCHANGED delivered

IopubLeaves ==
    /\ iopub = "leaving"
    /\ iopub' = "done"
    /\ UNCHANGED <<link, subQ, queue, pushed, delivered>>

IopubStep == DropMessage \/ IopubTurn \/ IopubLastTurn \/ IopubLeaves

\* Variant: the message is copied.
PopCopy ==
    /\ queue # <<>>
    /\ delivered' = Append(delivered, queue[Len(queue)])
    /\ queue' = Tail(queue)
    /\ UNCHANGED <<link, iopub, subQ, pushed>>

\* pop_iopub_message, on the thread of the user: it returns the message at the
\* back, and removes the one at the front.
Pop ==
    /\ queue # <<>>
    /\ delivered' = Append(delivered, queue[Len(queue)])
    /\ queue' = Tail([queue EXCEPT ![Len(queue)] = Hollow])
    /\ UNCHANGED <<link, iopub, subQ, pushed>>

-----------------------------------------------------------------------------
\* Each pop takes one message off the queue, and no message is handed over
\* twice or after a later one: moving it out of the queue leaves nothing of it
\* (xiopub_client.cpp:45-58).  Some of what is handed over is hollow.
NoMessageTwice ==
    /\ Len(delivered) + Len(queue) = pushed
    /\ \A i, j \in DOMAIN delivered :
          i < j /\ delivered[i] # Hollow /\ delivered[j] # Hollow
             => delivered[i] < delivered[j]

\* The iopub thread is there for "pushing the received message into a queue",
\* and the main thread for "popping messages from the queue" (usage.rst:71-72):
\* what is popped is what was pushed, in the order of a queue.  It is not: see
\* the findings.
PoppedAsPushed == \A i \in DOMAIN delivered : delivered[i] = i

=============================================================================
